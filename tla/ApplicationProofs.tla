--------------------------- MODULE ApplicationProofs ---------------------------
(* The screens, for every value of the constants: any signals, documents, runs,  *)
(* groups, keys and settings, any number of answers on their way, any bound.  A   *)
(* behaviour is of one screen, so a property of the application is proved screen  *)
(* by screen: the screen's own invariant, that its first states and its steps     *)
(* keep it, and, at the end, the properties of the runs from those.               *)
EXTENDS MCApplication, Integers, Sequences, FiniteSetTheorems, SequenceTheorems, WellFoundedInduction, TLAPS

-----------------------------------------------------------------------------
(* A behaviour of the application is one of its screens.                         *)

Step == ApplicationNext \/ UNCHANGED ApplicationVars

LEMMA PartStays == Step => part' = part
BY DEF Step, ApplicationNext, ApplicationVars

LEMMA RunsSteps ==
  ASSUME Step
  PROVE  RunsNext \/ UNCHANGED runsVars
<1>1. CASE UNCHANGED ApplicationVars
  BY <1>1 DEF ApplicationVars
<1>2. CASE ApplicationNext /\ part = "marks"
  BY <1>2, Zenon DEF ApplicationNext, RunsNext
<1>3. CASE ApplicationNext /\ part = "promotions"
  BY <1>3, Zenon DEF ApplicationNext, RunsNext
<1>4. CASE ApplicationNext /\ part \notin {"marks", "promotions"}
  BY <1>4, Zenon DEF ApplicationNext
<1> QED  BY <1>1, <1>2, <1>3, <1>4 DEF Step

LEMMA TracesSteps ==
  ASSUME Step, part = "traces"
  PROVE  Traces!ScopeNext \/ UNCHANGED TracesVars
BY Zenon DEF Step, ApplicationNext, ApplicationVars

LEMMA GestureSteps ==
  ASSUME Step, part = "gesture"
  PROVE  Gesture!GestureNext \/ UNCHANGED GestureVars
BY Zenon DEF Step, ApplicationNext, ApplicationVars

LEMMA PipelineSteps ==
  ASSUME Step, part = "pipeline"
  PROVE  Pipeline!PipelineNext \/ UNCHANGED PipelineVars
BY Zenon DEF Step, ApplicationNext, ApplicationVars

LEMMA ResultsSteps ==
  ASSUME Step, part = "results"
  PROVE  Results!ResultsNext \/ UNCHANGED ResultsVars
BY Zenon DEF Step, ApplicationNext, ApplicationVars

LEMMA LibrarySteps ==
  ASSUME Step, part \in {"tree", "filters"}
  PROVE  Library!TreeNext \/ Library!FiltersNext \/ UNCHANGED LibraryVars
<1>1. CASE UNCHANGED ApplicationVars
  BY <1>1 DEF ApplicationVars
<1>2. CASE ApplicationNext /\ part = "tree"
  BY <1>2, Zenon DEF ApplicationNext
<1>3. CASE ApplicationNext /\ part = "filters"
  BY <1>3, Zenon DEF ApplicationNext
<1> QED  BY <1>1, <1>2, <1>3 DEF Step

LEMMA InspectSteps ==
  ASSUME Step, part \in {"bins", "page", "name", "tag", "props"}
  PROVE  \/ Inspect!BinsNext \/ Inspect!PageNext \/ Inspect!NameNext \/ Inspect!TagNext
         \/ Inspect!PropsNext \/ UNCHANGED InspectVars
<1>1. CASE UNCHANGED ApplicationVars
  BY <1>1 DEF ApplicationVars
<1>2. CASE ApplicationNext /\ part = "bins"
  BY <1>2, Zenon DEF ApplicationNext
<1>3. CASE ApplicationNext /\ part = "page"
  BY <1>3, Zenon DEF ApplicationNext
<1>4. CASE ApplicationNext /\ part = "name"
  BY <1>4, Zenon DEF ApplicationNext
<1>5. CASE ApplicationNext /\ part = "tag"
  BY <1>5, Zenon DEF ApplicationNext
<1>6. CASE ApplicationNext /\ part = "props"
  BY <1>6, Zenon DEF ApplicationNext
<1> QED  BY <1>1, <1>2, <1>3, <1>4, <1>5, <1>6 DEF Step

LEMMA PropsSteps ==
  ASSUME Step, part = "properties"
  PROVE  Props!PropNext \/ UNCHANGED PropsVars
BY Zenon DEF Step, ApplicationNext, ApplicationVars

LEMMA KeysSteps ==
  ASSUME Step, part = "keymap"
  PROVE  Keys!KeymapNext \/ UNCHANGED KeysVars
BY Zenon DEF Step, ApplicationNext, ApplicationVars

LEMMA WindowSteps ==
  ASSUME Step, part \in {"keys", "palette", "drag"}
  PROVE  Window!KeysNext \/ Window!PaletteNext \/ Window!DragNext \/ UNCHANGED WindowVars
<1>1. CASE UNCHANGED ApplicationVars
  BY <1>1 DEF ApplicationVars
<1>2. CASE ApplicationNext /\ part = "keys"
  BY <1>2, Zenon DEF ApplicationNext
<1>3. CASE ApplicationNext /\ part = "palette"
  BY <1>3, Zenon DEF ApplicationNext
<1>4. CASE ApplicationNext /\ part = "drag"
  BY <1>4, Zenon DEF ApplicationNext
<1> QED  BY <1>1, <1>2, <1>3, <1>4 DEF Step

LEMMA ChosenSteps ==
  ASSUME Step, part = "settings"
  PROVE  Chosen!SettingsNext \/ UNCHANGED ChosenVars
BY Zenon DEF Step, ApplicationNext, ApplicationVars

-----------------------------------------------------------------------------
(* The canvas of the scope.  A press clears what the one before it gave, and only *)
(* the end of a drag that has given nothing yet gives something more.             *)

GestureInv ==
  /\ Gesture!DragIsHeld
  /\ spent = <<>> \/ spent = <<spent[1]>>
  /\ dragFrom # {} => spent = <<>>

LEMMA GestureStarts == Gesture!GestureInit => GestureInv
BY DEF Gesture!GestureInit, GestureInv, Gesture!DragIsHeld

\* An event that is no gesture leaves what the press gave.
LEMMA NoGesture ==
  ASSUME NEW a, Gesture!OnCanvas(a), ~Gesture!Gesture(a)
  PROVE  spent' = spent
BY DEF Gesture!OnCanvas

LEMMA SwallowKeeps ==
  ASSUME GestureInv, Gesture!Swallow
  PROVE  spent' = spent /\ dragFrom' = dragFrom /\ dragTo' = dragTo /\ swallowed'
<1>1. ~Gesture!Gesture(<<"resized", bounds>>)
  BY DEF Gesture!Gesture
<1> QED  BY <1>1, NoGesture DEF Gesture!Swallow, Gesture!interaction

LEMMA GestureKeeps ==
  ASSUME GestureInv, Gesture!GestureNext \/ UNCHANGED GestureVars
  PROVE  GestureInv'
<1> USE DEF GestureInv, Gesture!DragIsHeld
<1>1. CASE UNCHANGED GestureVars
  BY <1>1 DEF GestureVars
<1>2. ASSUME Gesture!Swallow, UNCHANGED gestureHeld PROVE GestureInv'
  BY <1>2, SwallowKeeps
<1>3. ASSUME NEW x, Gesture!MoveTo(x) PROVE GestureInv'
  <2>1. ~Gesture!Gesture(Gesture!Hover({x}))
    BY DEF Gesture!Gesture, Gesture!Hover
  <2> QED  BY <1>2, <1>3, <2>1, NoGesture DEF Gesture!MoveTo, Gesture!Heard
<1>4. CASE Gesture!MoveOff \/ Gesture!CursorLeft
  <2>1. ~Gesture!Gesture(Gesture!Hover({}))
    BY DEF Gesture!Gesture, Gesture!Hover
  <2> QED  BY <1>2, <1>4, <2>1, NoGesture DEF Gesture!MoveOff, Gesture!CursorLeft, Gesture!Heard, Gesture!interaction
<1>5. CASE Gesture!Modify \/ Gesture!Wheel
  <2>1. /\ ~Gesture!Gesture(Gesture!Ignored) /\ ~Gesture!Gesture(<<"pan", cursor>>)
        /\ ~Gesture!Gesture(<<"scale", cursor>>)
    BY DEF Gesture!Gesture, Gesture!Ignored
  <2> QED  BY <1>2, <1>5, <2>1, NoGesture DEF Gesture!Modify, Gesture!Wheel, Gesture!Heard, Gesture!interaction, Gesture!hand
<1>6. CASE Gesture!Press
  <2>1. /\ gestureHeld'
        /\ \/ UNCHANGED <<dragFrom, dragTo>> /\ spent' = <<>>
           \/ dragFrom' = {} /\ dragTo' = {} /\ spent' = <<<<"fit">>>>
           \/ \E x : dragFrom' = {x} /\ dragTo' = {x} /\ spent' = <<>>
    BY <1>6 DEF Gesture!Press, Gesture!Cleared
  <2>2. spent' = <<<<"fit">>>> => spent' = <<spent'[1]>>
    OBVIOUS
  <2> QED  BY <2>1, <2>2
<1>7. CASE Gesture!Release
  <2>1. CASE Gesture!Swallow
    BY <1>7, <2>1, SwallowKeeps
  <2>2. CASE ~Gesture!Swallow
    <3>1. \E a : Gesture!OnCanvas(a) /\ (dragFrom = {} => ~Gesture!Gesture(a))
      <4>1. ~Gesture!Gesture(Gesture!Ignored)
        BY DEF Gesture!Gesture
      <4> QED  BY <1>7, <2>2, <4>1 DEF Gesture!Release, Gesture!Heard
    <3>2. dragFrom' = {} /\ dragTo' = {}
      BY <1>7, <2>2 DEF Gesture!Release, Gesture!Taken
    <3>3. dragFrom = {} => spent' = spent
      BY <3>1, NoGesture
    <3>4. dragFrom # {} => spent' = <<>> \/ \E a : spent' = <<a>>
      BY <3>1 DEF Gesture!OnCanvas
    <3> QED  BY <3>2, <3>3, <3>4
  <2> QED  BY <2>1, <2>2
<1>8. CASE Gesture!Resize \/ Gesture!Tick
  BY <1>8 DEF Gesture!Resize, Gesture!Tick
<1> QED  BY <1>1, <1>3, <1>4, <1>5, <1>6, <1>7, <1>8 DEF Gesture!GestureNext

LEMMA GestureShows == GestureInv => Gesture!DragIsHeld /\ Gesture!OneGesturePerPress
<1> SUFFICES ASSUME GestureInv PROVE Gesture!DragIsHeld /\ Len(spent) <= 1
  BY DEF Gesture!OneGesturePerPress
<1>1. CASE spent = <<>>
  BY <1>1 DEF GestureInv
<1>2. ASSUME NEW a, spent = <<a>> PROVE Len(spent) = 1
  BY <1>2
<1> QED  BY <1>1, <1>2 DEF GestureInv

-----------------------------------------------------------------------------
(* The Pipeline screen.  What is still to be inserted has room kept for it: an    *)
(* order without a row of its own was only taken where one was left.              *)

PipelineLibraries == DOMAIN SavedAs
PipelineOrders == [number : 1 .. MaxRuns, library : PipelineLibraries, id : 0 .. MaxRows,
                   document : Documents, written : BOOLEAN]
PipelineRead(r) ==
  /\ r.kind = "loaded" => r.picks \subseteq 1 .. MaxRows
  /\ r.kind = "groups" => r.of \in PipelineLibraries \X Datasets
  /\ r.kind = "pipeline" => r.id \in 1 .. MaxRows /\ r.document \in Documents
ToInsert(l) == {o \in saves \cup pipelineRuns : o.library = l /\ o.id = 0 /\ ~o.written}

PipelineWork ==
  /\ rows \in [PipelineLibraries -> Seq(Documents)]
  /\ saves \subseteq PipelineOrders /\ IsFiniteSet(saves)
  /\ pipelineRuns \subseteq PipelineOrders /\ IsFiniteSet(pipelineRuns)
  /\ \A o \in saves, r \in pipelineRuns : o.number # r.number
  /\ \A l \in PipelineLibraries : Len(rows[l]) + Cardinality(ToInsert(l)) <= MaxRows
PipelineSetup ==
  /\ pipelineLibrary \in PipelineLibraries /\ document \in Documents
  /\ savedId \in 0 .. MaxRows /\ picks \subseteq 1 .. MaxRows
  /\ dataset \in Datasets \cup {0}
  /\ groups \in (PipelineLibraries \X Datasets) \cup {<<>>} /\ chosen \in BOOLEAN
  /\ job \in 0 .. MaxRuns /\ pipelineBusy \in BOOLEAN
  /\ \A r \in pipelineReads : PipelineRead(r)
PipelineInv == PipelineWork /\ PipelineSetup /\ Pipeline!JobIsGoing /\ Pipeline!BusyIsOwed

LEMMA PipelineCounts == \A S : Pipeline!Cardinality(S) = Cardinality(S)
BY DEF Pipeline!Cardinality, Cardinality

LEMMA PipelineNumbers ==
  /\ MaxRows \in Nat /\ MaxRuns \in Nat /\ Draft \in Documents
  /\ Pipeline!First \in Datasets /\ 0 \in 0 .. MaxRows /\ 0 \in 0 .. MaxRuns
BY PipelineAssumed DEF Pipeline!PipelineAssumption, Pipeline!First

LEMMA PipelineStarts == Pipeline!PipelineInit => PipelineInv
<1> SUFFICES ASSUME Pipeline!PipelineInit PROVE PipelineInv
  OBVIOUS
<1>1. /\ 1 \in PipelineLibraries /\ rows \in [PipelineLibraries -> Seq(Documents)]
      /\ \A l \in PipelineLibraries : Len(rows[l]) <= MaxRows
  BY PipelineAssumed DEF Pipeline!PipelineInit, Pipeline!PipelineAssumption, Pipeline!Libraries, PipelineLibraries
<1>2. \A l \in PipelineLibraries : ToInsert(l) = {}
  BY DEF Pipeline!PipelineInit, ToInsert
<1>3. \A l \in PipelineLibraries : Len(rows[l]) \in Nat /\ DOMAIN rows[l] = 1 .. Len(rows[l])
  BY <1>1, LenProperties
<1>4. PipelineWork
  <2>1. \A l \in PipelineLibraries : Cardinality(ToInsert(l)) = 0
    BY <1>2, FS_EmptySet
  <2>2. \A l \in PipelineLibraries : Len(rows[l]) + Cardinality(ToInsert(l)) <= MaxRows
    BY <1>1, <1>3, <2>1
  <2> QED  BY <1>1, <2>2, FS_EmptySet DEF Pipeline!PipelineInit, PipelineWork
<1>5. DOMAIN rows[1] \subseteq 1 .. MaxRows
  BY <1>1, <1>3, PipelineNumbers
<1>6. PipelineSetup
  <2>1. PipelineRead(Pipeline!LoadRead)
    BY <1>1, <1>5 DEF PipelineRead, Pipeline!LoadRead, Pipeline!PipelineInit
  <2> QED  BY <1>1, <2>1, PipelineNumbers, Zenon DEF Pipeline!PipelineInit, PipelineSetup, Pipeline!None
<1> QED  BY <1>4, <1>6 DEF PipelineInv, Pipeline!PipelineInit, Pipeline!JobIsGoing, Pipeline!BusyIsOwed, Pipeline!None

LEMMA OrderIsTyped ==
  ASSUME PipelineSetup, NEW n \in 1 .. MaxRuns
  PROVE  Pipeline!Order(n) \in PipelineOrders
BY DEF PipelineSetup, PipelineOrders, Pipeline!Order

\* What rows hold, and how many there are at most.
LEMMA RowsFit ==
  ASSUME PipelineWork, NEW l \in PipelineLibraries
  PROVE  /\ IsFiniteSet(ToInsert(l)) /\ Cardinality(ToInsert(l)) \in Nat
         /\ Len(rows[l]) \in 0 .. MaxRows /\ Len(rows[l]) \in Nat /\ DOMAIN rows[l] = 1 .. Len(rows[l])
         /\ \A id \in DOMAIN rows[l] : rows[l][id] \in Documents
         /\ IsFiniteSet(saves \cup pipelineRuns)
<1>1. IsFiniteSet(saves \cup pipelineRuns)
  BY FS_Union DEF PipelineWork
<1>2. ToInsert(l) \in SUBSET (saves \cup pipelineRuns)
  BY DEF ToInsert
<1>3. IsFiniteSet(ToInsert(l)) /\ Cardinality(ToInsert(l)) \in Nat
  BY <1>1, <1>2, FS_Subset, FS_CardinalityType
<1>4. rows[l] \in Seq(Documents)
  BY DEF PipelineWork
<1>5. Len(rows[l]) \in Nat /\ DOMAIN rows[l] = 1 .. Len(rows[l])
  BY <1>4, LenProperties
<1>6. \A id \in DOMAIN rows[l] : rows[l][id] \in Documents
  BY <1>4, <1>5, ElementOfSeq
<1>7. Len(rows[l]) + Cardinality(ToInsert(l)) <= MaxRows
  BY DEF PipelineWork
<1>8. Len(rows[l]) \in 0 .. MaxRows
  BY <1>3, <1>5, <1>7, PipelineNumbers
<1> QED  BY <1>1, <1>3, <1>5, <1>6, <1>8

\* An order is taken: room is kept for it if it is to be inserted.
LEMMA OrderKeepsRoom ==
  ASSUME PipelineWork, PipelineSetup, Pipeline!Room, NEW n \in 1 .. MaxRuns, UNCHANGED rows,
         \A p \in saves \cup pipelineRuns : p.number # n,
         \/ saves' = saves \cup {Pipeline!Order(n)} /\ UNCHANGED pipelineRuns
         \/ pipelineRuns' = pipelineRuns \cup {Pipeline!Order(n)} /\ UNCHANGED saves
  PROVE  PipelineWork'
<1> DEFINE o == Pipeline!Order(n)
           all == saves \cup pipelineRuns
<1>1. o \in PipelineOrders /\ o.number = n
  BY OrderIsTyped DEF Pipeline!Order
<1>2. /\ saves' \subseteq PipelineOrders /\ IsFiniteSet(saves')
      /\ pipelineRuns' \subseteq PipelineOrders /\ IsFiniteSet(pipelineRuns')
      /\ \A p \in saves', r \in pipelineRuns' : p.number # r.number
  <2> HIDE DEF o
  <2>1. CASE saves' = saves \cup {o} /\ UNCHANGED pipelineRuns
    BY <1>1, <2>1, FS_AddElement DEF PipelineWork
  <2>2. CASE pipelineRuns' = pipelineRuns \cup {o} /\ UNCHANGED saves
    BY <1>1, <2>2, FS_AddElement DEF PipelineWork
  <2> QED  BY <2>1, <2>2 DEF o
<1>3. o.library = pipelineLibrary /\ o.id = savedId
  BY DEF Pipeline!Order
<1>4. saves' \cup pipelineRuns' = all \cup {o}
  OBVIOUS
<1>5. ASSUME NEW l \in PipelineLibraries
      PROVE  Len(rows[l]) + Cardinality(ToInsert(l)') <= MaxRows
  <2>1. /\ IsFiniteSet(ToInsert(l)) /\ Cardinality(ToInsert(l)) \in Nat /\ Len(rows[l]) \in Nat
        /\ IsFiniteSet(all)
    BY RowsFit
  <2>2. CASE l # pipelineLibrary \/ savedId # 0
    <3>1. ToInsert(l)' = ToInsert(l)
      BY <1>3, <1>4, <2>2 DEF ToInsert
    <3> QED  BY <3>1 DEF PipelineWork
  <2>3. CASE l = pipelineLibrary /\ savedId = 0
    <3>1. Len(rows[l]) + Cardinality(all) < MaxRows
      BY <2>3, PipelineCounts DEF Pipeline!Room, Pipeline!None
    <3>2. ToInsert(l)' \in SUBSET (all \cup {o})
      BY <1>4 DEF ToInsert
    <3>3. /\ IsFiniteSet(all \cup {o}) /\ Cardinality(all) \in Nat
          /\ Cardinality(all \cup {o}) \in Nat /\ Cardinality(all \cup {o}) <= Cardinality(all) + 1
      <4> HIDE DEF all, o
      <4>1. Cardinality(all) \in Nat
        BY <2>1, FS_CardinalityType
      <4>2. IsFiniteSet(all \cup {o})
        BY <2>1, FS_AddElement
      <4>3. Cardinality(all \cup {o}) = IF o \in all THEN Cardinality(all) ELSE Cardinality(all) + 1
        BY <2>1, FS_AddElement
      <4> QED  BY <4>1, <4>2, <4>3
    <3>4. /\ Cardinality(ToInsert(l)') \in Nat /\ Cardinality(ToInsert(l)') <= Cardinality(all \cup {o})
      <4> HIDE DEF all, o
      <4> QED  BY <3>2, <3>3, FS_Subset, FS_CardinalityType
    <3> HIDE DEF all, o
    <3> QED  BY <2>1, <3>1, <3>3, <3>4, PipelineNumbers
  <2> QED  BY <2>2, <2>3
<1> QED  BY <1>2, <1>5 DEF PipelineWork

\* An order that can be written, and what the table is then.
LEMMA WrittenFits ==
  ASSUME PipelineWork, NEW o \in saves \cup pipelineRuns, Pipeline!CanWrite(o)
  PROVE  /\ Pipeline!Done(o) \in PipelineOrders
         /\ Pipeline!Done(o).number = o.number /\ Pipeline!Done(o).written
         /\ Pipeline!Written(o) \in [PipelineLibraries -> Seq(Documents)]
         /\ \A l \in PipelineLibraries :
              Len(Pipeline!Written(o)[l]) = Len(rows[l]) + (IF o \in ToInsert(l) THEN 1 ELSE 0)
<1> DEFINE l0 == o.library
           full == rows[l0]
<1>1. o \in PipelineOrders
  BY DEF PipelineWork
<1>2. l0 \in PipelineLibraries /\ o.id \in 0 .. MaxRows /\ o.document \in Documents /\ o.number \in 1 .. MaxRuns
  BY <1>1 DEF PipelineOrders
<1>3. full \in Seq(Documents) /\ DOMAIN rows = PipelineLibraries
  BY <1>2 DEF PipelineWork
<1>4. Len(full) \in 0 .. MaxRows /\ DOMAIN full = 1 .. Len(full)
  BY <1>2, RowsFit
<1>5. ~o.written
  BY DEF Pipeline!CanWrite
<1>6. CASE o.id = 0
  <2>1. o \in ToInsert(l0) /\ \A l \in PipelineLibraries : o \in ToInsert(l) => l = l0
    BY <1>5, <1>6 DEF ToInsert
  <2>2. Len(full) + 1 \in 0 .. MaxRows
    <3>1. Cardinality(ToInsert(l0)) >= 1
      BY <1>2, <2>1, RowsFit, FS_EmptySet
    <3> QED  BY <1>2, <1>4, <3>1, RowsFit, PipelineNumbers DEF PipelineWork
  <2>3. Pipeline!Done(o) = [o EXCEPT !.written = TRUE, !.id = Len(full) + 1]
    BY <1>6 DEF Pipeline!Done, Pipeline!None
  <2>4. Append(full, o.document) \in Seq(Documents) /\ Len(Append(full, o.document)) = Len(full) + 1
    BY <1>2, <1>3
  <2>5. Pipeline!Written(o) = [rows EXCEPT ![l0] = Append(full, o.document)]
    BY <1>6 DEF Pipeline!Written, Pipeline!None
  <2>6. Pipeline!Done(o) \in PipelineOrders /\ Pipeline!Done(o).number = o.number /\ Pipeline!Done(o).written
    BY <1>1, <2>2, <2>3 DEF PipelineOrders
  <2>7. Pipeline!Written(o) \in [PipelineLibraries -> Seq(Documents)]
    BY <1>2, <1>3, <2>4, <2>5 DEF PipelineWork
  <2>8. ASSUME NEW l \in PipelineLibraries
        PROVE  Len(Pipeline!Written(o)[l]) = Len(rows[l]) + (IF o \in ToInsert(l) THEN 1 ELSE 0)
    BY <1>3, <2>1, <2>4, <2>5, RowsFit
  <2> QED  BY <2>6, <2>7, <2>8
<1>7. CASE o.id # 0
  <2>1. \A l \in PipelineLibraries : o \notin ToInsert(l)
    BY <1>7 DEF ToInsert
  <2>2. o.id \in 1 .. Len(full)
    BY <1>4, <1>7 DEF Pipeline!CanWrite, Pipeline!None
  <2>3. Pipeline!Done(o) = [o EXCEPT !.written = TRUE, !.id = o.id]
    BY <1>7 DEF Pipeline!Done, Pipeline!None
  <2>4. [full EXCEPT ![o.id] = o.document] \in Seq(Documents) /\ Len([full EXCEPT ![o.id] = o.document]) = Len(full)
    BY <1>2, <1>3, <2>2, ExceptSeq
  <2>5. Pipeline!Written(o) = [rows EXCEPT ![l0] = [full EXCEPT ![o.id] = o.document]]
    BY <1>7 DEF Pipeline!Written, Pipeline!None
  <2>6. Pipeline!Done(o) \in PipelineOrders /\ Pipeline!Done(o).number = o.number /\ Pipeline!Done(o).written
    BY <1>1, <2>3 DEF PipelineOrders
  <2>7. Pipeline!Written(o) \in [PipelineLibraries -> Seq(Documents)]
    BY <1>2, <1>3, <2>4, <2>5 DEF PipelineWork
  <2>8. ASSUME NEW l \in PipelineLibraries
        PROVE  Len(Pipeline!Written(o)[l]) = Len(rows[l]) + (IF o \in ToInsert(l) THEN 1 ELSE 0)
    BY <1>3, <2>1, <2>4, <2>5, RowsFit
  <2> QED  BY <2>6, <2>7, <2>8
<1> QED  BY <1>6, <1>7

LEMMA WriteKeepsRoom ==
  ASSUME PipelineWork, NEW o \in saves \cup pipelineRuns, Pipeline!CanWrite(o),
         rows' = Pipeline!Written(o),
         \/ o \in saves /\ saves' = (saves \ {o}) \cup {Pipeline!Done(o)} /\ UNCHANGED pipelineRuns
         \/ o \in pipelineRuns /\ pipelineRuns' = (pipelineRuns \ {o}) \cup {Pipeline!Done(o)} /\ UNCHANGED saves
  PROVE  PipelineWork'
<1> DEFINE d == Pipeline!Done(o)
<1>1. /\ d \in PipelineOrders /\ d.written /\ d.number = o.number
      /\ rows' \in [PipelineLibraries -> Seq(Documents)]
      /\ \A l \in PipelineLibraries : Len(rows'[l]) = Len(rows[l]) + (IF o \in ToInsert(l) THEN 1 ELSE 0)
  BY WrittenFits
<1> HIDE DEF d
<1>2. /\ saves' \subseteq PipelineOrders /\ IsFiniteSet(saves')
      /\ pipelineRuns' \subseteq PipelineOrders /\ IsFiniteSet(pipelineRuns')
      /\ \A p \in saves', r \in pipelineRuns' : p.number # r.number
  <2>1. CASE o \in saves /\ saves' = (saves \ {o}) \cup {d} /\ UNCHANGED pipelineRuns
    BY <1>1, <2>1, FS_AddElement, FS_RemoveElement DEF PipelineWork
  <2>2. CASE o \in pipelineRuns /\ pipelineRuns' = (pipelineRuns \ {o}) \cup {d} /\ UNCHANGED saves
    BY <1>1, <2>2, FS_AddElement, FS_RemoveElement DEF PipelineWork
  <2> QED  BY <2>1, <2>2 DEF d
<1>3. ASSUME NEW l \in PipelineLibraries
      PROVE  Len(rows'[l]) + Cardinality(ToInsert(l)') <= MaxRows
  <2>1. ~o.written /\ IsFiniteSet(ToInsert(l)) /\ Cardinality(ToInsert(l)) \in Nat /\ Len(rows[l]) \in Nat
    BY RowsFit DEF Pipeline!CanWrite
  <2>2. ~(o \in saves /\ o \in pipelineRuns)
    BY DEF PipelineWork
  <2>3. o \notin saves' \cup pipelineRuns' /\ saves' \cup pipelineRuns' \subseteq (saves \cup pipelineRuns) \cup {d}
    BY <1>1, <2>1, <2>2 DEF d
  <2>4. ToInsert(l)' \in SUBSET (ToInsert(l) \ {o})
    BY <1>1, <2>3 DEF ToInsert
  <2>5. /\ IsFiniteSet(ToInsert(l) \ {o})
        /\ Cardinality(ToInsert(l) \ {o}) = IF o \in ToInsert(l) THEN Cardinality(ToInsert(l)) - 1 ELSE Cardinality(ToInsert(l))
    BY <2>1, FS_RemoveElement
  <2>6. Cardinality(ToInsert(l)') \in Nat /\ Cardinality(ToInsert(l)') <= Cardinality(ToInsert(l) \ {o})
    BY <2>4, <2>5, FS_Subset, FS_CardinalityType
  <2>7. Len(rows[l]) + Cardinality(ToInsert(l)) <= MaxRows
    BY DEF PipelineWork
  <2>8. CASE o \in ToInsert(l)
    <3>1. Len(rows'[l]) = Len(rows[l]) + 1 /\ Cardinality(ToInsert(l)') <= Cardinality(ToInsert(l)) - 1
      BY <1>1, <2>5, <2>6, <2>8
    <3> QED  BY <2>1, <2>6, <2>7, <3>1, PipelineNumbers
  <2>9. CASE o \notin ToInsert(l)
    <3>1. Len(rows'[l]) = Len(rows[l]) + 0
      BY <1>1, <2>9
    <3>2. Cardinality(ToInsert(l)') <= Cardinality(ToInsert(l))
      BY <2>5, <2>6, <2>9
    <3> QED  BY <2>1, <2>6, <2>7, <3>1, <3>2, PipelineNumbers
  <2> QED  BY <2>8, <2>9
<1> QED  BY <1>1, <1>2, <1>3 DEF PipelineWork

\* Orders that have answered are out of the way.
LEMMA AnsweredKeepsRoom ==
  ASSUME PipelineWork, UNCHANGED rows, saves' \subseteq saves, pipelineRuns' \subseteq pipelineRuns
  PROVE  PipelineWork'
<1>1. IsFiniteSet(saves') /\ IsFiniteSet(pipelineRuns')
  BY FS_Subset DEF PipelineWork
<1>2. ASSUME NEW l \in PipelineLibraries
      PROVE  Len(rows[l]) + Cardinality(ToInsert(l)') <= MaxRows
  <2>1. IsFiniteSet(ToInsert(l)) /\ Cardinality(ToInsert(l)) \in Nat /\ Len(rows[l]) \in Nat
    BY RowsFit
  <2>2. ToInsert(l)' \in SUBSET ToInsert(l)
    BY DEF ToInsert
  <2>3. Cardinality(ToInsert(l)') \in Nat /\ Cardinality(ToInsert(l)') <= Cardinality(ToInsert(l))
    BY <2>1, <2>2, FS_Subset, FS_CardinalityType
  <2>4. Len(rows[l]) + Cardinality(ToInsert(l)) <= MaxRows
    BY DEF PipelineWork
  <2> QED  BY <2>1, <2>3, <2>4, PipelineNumbers
<1> QED  BY <1>1, <1>2 DEF PipelineWork

\* A number is free for one more order: fewer are out than there are numbers.
LEMMA NumberIsFree ==
  ASSUME PipelineWork, Cardinality(saves \cup pipelineRuns) < MaxRuns
  PROVE  /\ Pipeline!Unused \in 1 .. MaxRuns
         /\ \A r \in saves \cup pipelineRuns : r.number # Pipeline!Unused
<1> DEFINE out == saves \cup pipelineRuns
<1> SUFFICES ASSUME \A n \in 1 .. MaxRuns : \E r \in out : r.number = n PROVE FALSE
  BY DEF Pipeline!Unused
<1>1. MaxRuns \in Nat
  BY PipelineNumbers
<1> DEFINE N == 1 .. MaxRuns
           f == [r \in out |-> r.number]
<1>2. f \in Surjection(out, N)
  <2>1. \A r \in out : r.number \in N
    BY DEF PipelineWork, PipelineOrders
  <2> QED  BY <2>1 DEF Surjection
<1>3. IsFiniteSet(out) /\ Cardinality(out) \in Nat
  BY FS_Union, FS_CardinalityType DEF PipelineWork
<1>4. Cardinality(N) <= Cardinality(out)
  <2> HIDE DEF N, out
  <2> QED  BY <1>2, <1>3, FS_Surjection
<1>5. Cardinality(N) = MaxRuns
  BY <1>1, FS_Interval
<1> QED  BY <1>1, <1>3, <1>4, <1>5

\* Reading and choosing: the work is left alone.
LEMMA PipelineReadKeeps ==
  ASSUME PipelineInv,
         \/ Pipeline!DatasetPicked \/ Pipeline!GroupsTicked \/ Pipeline!LoadPipeline \/ Pipeline!Loaded
         \/ Pipeline!GroupsLoaded \/ Pipeline!PipelineLoaded \/ Pipeline!OpenLibrary
  PROVE  PipelineInv'
<1> USE DEF PipelineInv
<1>1. UNCHANGED <<rows, saves, pipelineRuns, job, pipelineBusy>>
  BY DEF Pipeline!DatasetPicked, Pipeline!GroupsTicked, Pipeline!LoadPipeline, Pipeline!Loaded, Pipeline!GroupsLoaded,
         Pipeline!PipelineLoaded, Pipeline!OpenLibrary, Pipeline!work
<1>2. PipelineWork' /\ Pipeline!JobIsGoing' /\ Pipeline!BusyIsOwed'
  BY <1>1 DEF PipelineWork, ToInsert, Pipeline!JobIsGoing, Pipeline!BusyIsOwed
<1>3. ASSUME NEW l \in PipelineLibraries
      PROVE  /\ DOMAIN rows[l] \subseteq 1 .. MaxRows
             /\ \A id \in DOMAIN rows[l] : rows[l][id] \in Documents
  BY RowsFit, PipelineNumbers
<1>4. PipelineSetup'
  <2> USE DEF PipelineSetup
  <2> HIDE DEF PipelineInv
  <2>0. PipelineSetup
    BY DEF PipelineInv
  <2>a. ASSUME NEW d \in Datasets PROVE PipelineRead(Pipeline!GroupsRead(d))
    BY <2>0 DEF PipelineRead, Pipeline!GroupsRead
  <2>1. ASSUME NEW d \in Datasets, Pipeline!ChooseDataset(d, pipelineReads),
               UNCHANGED <<pipelineLibrary, document, savedId, picks, job, pipelineBusy>>
        PROVE  PipelineSetup'
    BY <2>0, <2>1, <2>a DEF Pipeline!ChooseDataset
  <2>2. CASE Pipeline!GroupsTicked
    BY <1>1, <2>0, <2>2 DEF Pipeline!GroupsTicked
  <2>3. CASE Pipeline!LoadPipeline
    <3>1. PICK id \in picks \cap DOMAIN rows[pipelineLibrary] :
            /\ pipelineReads' = pipelineReads \cup {Pipeline!PipelineRead(id)}
            /\ UNCHANGED <<pipelineLibrary, document, savedId, picks, dataset, groups, chosen, job, pipelineBusy>>
      BY <2>3 DEF Pipeline!LoadPipeline, Pipeline!setup, Pipeline!Ask
    <3>2. PipelineRead(Pipeline!PipelineRead(id))
      BY <1>3, <2>0 DEF PipelineRead, Pipeline!PipelineRead
    <3> QED  BY <2>0, <3>1, <3>2
  <2>4. CASE Pipeline!Loaded
    <3>1. PICK r \in pipelineReads :
            /\ r.kind = "loaded" /\ picks' = r.picks
            /\ \/ /\ dataset' = Pipeline!First /\ groups' = <<>> /\ chosen' = FALSE
                  /\ pipelineReads' = (pipelineReads \ {r}) \cup {Pipeline!GroupsRead(Pipeline!First)}
               \/ pipelineReads' = pipelineReads \ {r} /\ UNCHANGED <<dataset, groups, chosen>>
            /\ UNCHANGED <<pipelineLibrary, document, savedId, job, pipelineBusy>>
      BY <2>4 DEF Pipeline!Loaded, Pipeline!ChooseDataset
    <3>2. picks' \subseteq 1 .. MaxRows
      BY <2>0, <3>1 DEF PipelineRead
    <3>3. PipelineRead(Pipeline!GroupsRead(Pipeline!First)) /\ Pipeline!First \in Datasets
      BY <2>a, PipelineNumbers
    <3> QED  BY <2>0, <3>1, <3>2, <3>3
  <2>5. CASE Pipeline!GroupsLoaded
    BY <1>1, <2>0, <2>5 DEF Pipeline!GroupsLoaded, PipelineRead
  <2>6. CASE Pipeline!PipelineLoaded
    BY <1>1, <2>0, <2>6, PipelineNumbers DEF Pipeline!PipelineLoaded, Pipeline!setup, PipelineRead
  <2>7. CASE Pipeline!OpenLibrary
    <3>1. PICK l \in PipelineLibraries :
            /\ pipelineLibrary' = l /\ savedId' = 0 /\ picks' = {} /\ dataset' = 0 /\ groups' = <<>> /\ chosen' = FALSE
            /\ pipelineReads' = pipelineReads \cup {[kind |-> "loaded", library |-> l, picks |-> DOMAIN rows[l]]}
            /\ UNCHANGED <<document, job, pipelineBusy>>
      BY <2>7 DEF Pipeline!OpenLibrary, Pipeline!None, Pipeline!Libraries, PipelineLibraries
    <3>2. PipelineRead([kind |-> "loaded", library |-> l, picks |-> DOMAIN rows[l]])
      BY <1>3 DEF PipelineRead
    <3> QED  BY <2>0, <3>1, <3>2, PipelineNumbers, Zenon
  <2>8. Pipeline!DatasetPicked =>
          \E d \in Datasets : /\ Pipeline!ChooseDataset(d, pipelineReads)
                             /\ UNCHANGED <<pipelineLibrary, document, savedId, picks, job, pipelineBusy>>
    BY DEF Pipeline!DatasetPicked
  <2> QED  BY <2>1, <2>2, <2>3, <2>4, <2>5, <2>6, <2>7, <2>8
<1> QED  BY <1>2, <1>4

LEMMA PipelineKeeps ==
  ASSUME PipelineInv, Pipeline!PipelineNext \/ UNCHANGED PipelineVars
  PROVE  PipelineInv'
<1> USE DEF PipelineInv
<1>0. MaxRuns \in Nat /\ MaxRows \in Nat
  BY PipelineNumbers
<1>1. CASE UNCHANGED PipelineVars
  BY <1>1 DEF PipelineVars, PipelineWork, ToInsert, PipelineSetup, Pipeline!JobIsGoing, Pipeline!BusyIsOwed
<1>2. CASE Pipeline!Save
  <2>1. PipelineWork'
    BY <1>0, <1>2, PipelineCounts, NumberIsFree, OrderKeepsRoom DEF Pipeline!Save
  <2> QED  BY <1>2, <2>1 DEF Pipeline!Save, PipelineSetup, Pipeline!setup, Pipeline!JobIsGoing, Pipeline!BusyIsOwed
<1>3. CASE Pipeline!Run
  <2> DEFINE n == Pipeline!Unused
  <2>1. n \in 1 .. MaxRuns /\ \A p \in saves \cup pipelineRuns : p.number # n
    BY <1>3, PipelineCounts, NumberIsFree DEF Pipeline!Run
  <2>2. pipelineRuns' = pipelineRuns \cup {Pipeline!Order(n)} /\ job' = n
    BY <1>3 DEF Pipeline!Run
  <2> HIDE DEF n
  <2>3. PipelineWork'
    BY <1>0, <1>3, <2>1, <2>2, OrderKeepsRoom DEF Pipeline!Run
  <2>4. Pipeline!Order(n).number = n
    BY DEF Pipeline!Order
  <2>5. Pipeline!JobIsGoing' /\ Pipeline!BusyIsOwed'
    BY <2>2, <2>4 DEF Pipeline!JobIsGoing, Pipeline!BusyIsOwed
  <2>6. /\ pipelineBusy' = TRUE
        /\ UNCHANGED <<pipelineLibrary, document, savedId, picks, dataset, groups, chosen, pipelineReads>>
    BY <1>3 DEF Pipeline!Run, Pipeline!setup
  <2>7. PipelineSetup'
    BY <1>0, <2>1, <2>2, <2>6 DEF PipelineSetup
  <2> QED  BY <2>3, <2>5, <2>7
<1>4. CASE Pipeline!Write
  <2>1. PICK o \in saves \cup pipelineRuns :
          /\ Pipeline!CanWrite(o) /\ rows' = Pipeline!Written(o)
          /\ \/ o \in saves /\ saves' = (saves \ {o}) \cup {Pipeline!Done(o)} /\ UNCHANGED pipelineRuns
             \/ o \in pipelineRuns /\ pipelineRuns' = (pipelineRuns \ {o}) \cup {Pipeline!Done(o)} /\ UNCHANGED saves
    BY <1>4 DEF Pipeline!Write
  <2>2. PipelineWork' /\ Pipeline!Done(o).number = o.number
    BY <2>1, WriteKeepsRoom, WrittenFits
  <2>3. PipelineSetup'
    BY <1>4 DEF Pipeline!Write, PipelineSetup, Pipeline!setup
  <2>4. Pipeline!JobIsGoing' /\ Pipeline!BusyIsOwed'
    BY <1>4, <2>1, <2>2 DEF Pipeline!Write, Pipeline!setup, Pipeline!JobIsGoing, Pipeline!BusyIsOwed
  <2> QED  BY <2>2, <2>3, <2>4
<1>5. CASE Pipeline!Saved
  <2>1. PipelineWork'
    BY <1>5, AnsweredKeepsRoom DEF Pipeline!Saved
  <2>2. pipelineBusy' = FALSE /\ UNCHANGED <<pipelineLibrary, document, picks, dataset, groups, chosen, job, pipelineRuns>>
    BY <1>5 DEF Pipeline!Saved, Pipeline!Enable, Pipeline!setup
  <2>3. savedId' \in 0 .. MaxRows
    BY <1>5 DEF Pipeline!Saved, PipelineSetup, PipelineWork, PipelineOrders
  <2>4. \A r \in pipelineReads' : PipelineRead(r)
    <3>1. PipelineRead(Pipeline!LoadRead)
      BY <1>0, RowsFit DEF Pipeline!LoadRead, PipelineRead, PipelineSetup
    <3> QED  BY <1>5, <3>1 DEF Pipeline!Saved, Pipeline!Ask, PipelineSetup
  <2>5. PipelineSetup'
    BY <2>2, <2>3, <2>4 DEF PipelineSetup
  <2> QED  BY <2>1, <2>2, <2>5 DEF Pipeline!JobIsGoing, Pipeline!BusyIsOwed
<1>6. CASE Pipeline!Finished
  <2>1. PipelineWork'
    BY <1>6, AnsweredKeepsRoom DEF Pipeline!Finished
  <2>2. /\ job' = 0 /\ pipelineBusy' = FALSE
        /\ UNCHANGED <<pipelineLibrary, document, savedId, picks, dataset, groups, chosen, pipelineReads>>
    BY <1>6 DEF Pipeline!Finished, Pipeline!Enable, Pipeline!JobAfter, Pipeline!None, Pipeline!setup
  <2>3. PipelineSetup'
    BY <2>2, PipelineNumbers DEF PipelineSetup
  <2> QED  BY <2>1, <2>2, <2>3 DEF Pipeline!JobIsGoing, Pipeline!BusyIsOwed, Pipeline!None
<1> QED  BY <1>1, <1>2, <1>3, <1>4, <1>5, <1>6, PipelineReadKeeps
         DEF Pipeline!PipelineNext, Pipeline!PipelineUser, Pipeline!PipelineAnswers

LEMMA PipelineShows ==
  ASSUME PipelineInv
  PROVE  Pipeline!PipelineTypeOK /\ Pipeline!JobIsGoing /\ Pipeline!BusyIsOwed
<1>1. \A l \in PipelineLibraries : rows[l] \in Seq(Documents) /\ Len(rows[l]) <= MaxRows
  <2>1. \A l \in PipelineLibraries : Len(rows[l]) \in 0 .. MaxRows
    BY RowsFit DEF PipelineInv
  <2> QED  BY <2>1 DEF PipelineInv, PipelineWork
<1> QED  BY <1>1 DEF PipelineInv, PipelineSetup, Pipeline!PipelineTypeOK, Pipeline!None, Pipeline!Libraries, PipelineLibraries

-----------------------------------------------------------------------------
(* The Results screen.  Of the loads that have not answered, one of this          *)
(* generation is of what is selected, if the run's detail is there and, if it is   *)
(* not, of that but for the run; one of an older generation is dropped.           *)

Selection == <<run, group, stage, pinned>>
NewestLoad(a) == a.kind = "loaded" /\ a.reload = reload
ResultsAnswer(a) ==
  /\ a.kind = "detail" => a.run \in Runs /\ run # "none"
  /\ a.kind = "loaded" => a.reload \in 0 .. reload
  /\ NewestLoad(a) => /\ group # "none" /\ \E r \in Runs : a.view = <<r, group, stage, pinned>>
                      /\ resultsDetail # "none" => a.view = Selection
ResultsTyped ==
  /\ run \in Runs \cup {"none"} /\ resultsDetail \in Runs \cup {"none"}
  /\ stage \in 0 .. LastStage /\ pinned \in (0 .. LastStage) \cup {-1}
  /\ failed \in BOOLEAN /\ resultsLoading \in BOOLEAN /\ window \in 0 .. 1
  /\ reload \in 0 .. MaxReload
  /\ resultsListed \subseteq Runs /\ opening \in Runs \cup {"none"}
ResultsPosted == IsFiniteSet(resultsAnswers) /\ Cardinality(resultsAnswers) <= MaxAnswers
\* What is on screen: of the selection, or, with no detail, of it but for the run.
ShownFits ==
  /\ resultsDetail # "none" /\ group # "none" => resultsShown = Selection
  /\ resultsDetail = "none" => resultsShown = <<>> \/ \E r \in Runs : resultsShown = <<r, group, stage, pinned>>
ResultsHeld ==
  /\ \A a \in resultsAnswers : ResultsAnswer(a)
  /\ resultsDetail # "none" => run # "none" /\ group \in GroupsOf[resultsDetail] \cup {"none"}
  /\ run = "none" => group = "none"
  /\ resultsDetail = "none" /\ group = "none" => resultsShown = <<>>
  /\ failed \/ (\E a \in resultsAnswers : NewestLoad(a)) \/ ShownFits
  /\ resultsLoading => \E a \in resultsAnswers : a.kind \in {"runs", "detail"} \/ NewestLoad(a)
ResultsInv == ResultsTyped /\ ResultsPosted /\ ResultsHeld

LEMMA ResultsNumbers ==
  /\ Newest \in Runs /\ "none" \notin Runs /\ \A r \in Runs : "none" \notin GroupsOf[r]
  /\ LastStage \in Nat /\ MaxReload \in Nat /\ MaxAnswers \in Nat /\ 1 <= MaxAnswers
BY ResultsAssumed DEF Results!ResultsAssumption, Results!None

LEMMA ResultsCounts == \A S : Results!Cardinality(S) = Cardinality(S)
BY DEF Results!Cardinality, Cardinality

LEMMA ResultsStarts == Results!ResultsInit => ResultsInv
<1> SUFFICES ASSUME Results!ResultsInit PROVE ResultsInv
  OBVIOUS
<1> USE DEF Results!ResultsInit, Results!None, Results!NoPin, Results!Nothing
<1>1. ResultsTyped
  <2>1. stage \in 0 .. LastStage /\ pinned \in {-1} /\ window \in 0 .. 1 /\ reload \in 0 .. MaxReload
    BY ResultsNumbers
  <2>2. failed \in BOOLEAN /\ resultsLoading \in BOOLEAN
    BY Zenon
  <2>3. pinned \in (0 .. LastStage) \cup {-1}
    BY <2>1, Zenon
  <2>4. run = "none" /\ resultsDetail = "none" /\ resultsListed = {} /\ opening = "none"
    OBVIOUS
  <2> HIDE DEF Results!ResultsInit
  <2> QED  BY <2>1, <2>2, <2>3, <2>4, Zenon DEF ResultsTyped
<1>2. ResultsPosted
  BY FS_Singleton, ResultsNumbers DEF ResultsPosted
<1>3. ResultsHeld
  BY DEF ResultsHeld, ShownFits, ResultsAnswer, NewestLoad
<1> QED  BY <1>1, <1>2, <1>3 DEF ResultsInv

\* What is posted, and what is left when an answer is in.
LEMMA Posts ==
  ASSUME NEW kept, IsFiniteSet(kept), NEW a, Results!Post(kept, a)
  PROVE  resultsAnswers' = kept \cup {a} /\ ResultsPosted'
BY FS_AddElement, ResultsCounts DEF Results!Post, ResultsPosted

LEMMA Answers ==
  ASSUME ResultsPosted, NEW a
  PROVE  /\ IsFiniteSet(resultsAnswers) /\ IsFiniteSet(resultsAnswers \ {a})
         /\ Cardinality(resultsAnswers \ {a}) <= MaxAnswers
<1>1. IsFiniteSet(resultsAnswers) /\ Cardinality(resultsAnswers) \in Nat
  BY FS_CardinalityType DEF ResultsPosted
<1>2. /\ IsFiniteSet(resultsAnswers \ {a})
      /\ Cardinality(resultsAnswers \ {a}) <= Cardinality(resultsAnswers)
  BY <1>1, FS_Subset, resultsAnswers \ {a} \in SUBSET resultsAnswers
<1>3. Cardinality(resultsAnswers \ {a}) \in Nat
  BY <1>2, FS_CardinalityType
<1> QED  BY <1>1, <1>2, <1>3, ResultsNumbers DEF ResultsPosted

LEMMA Swapped ==
  ASSUME ResultsPosted, NEW a \in resultsAnswers, NEW c
  PROVE  /\ IsFiniteSet((resultsAnswers \ {a}) \cup {c})
         /\ Cardinality((resultsAnswers \ {a}) \cup {c}) <= MaxAnswers
<1>1. IsFiniteSet(resultsAnswers) /\ Cardinality(resultsAnswers) \in Nat
  BY FS_CardinalityType DEF ResultsPosted
<1>2. /\ IsFiniteSet(resultsAnswers \ {a})
      /\ Cardinality(resultsAnswers \ {a}) = Cardinality(resultsAnswers) - 1
  BY <1>1, FS_RemoveElement
<1>3. /\ IsFiniteSet((resultsAnswers \ {a}) \cup {c})
      /\ Cardinality((resultsAnswers \ {a}) \cup {c})
           = IF c \in resultsAnswers \ {a} THEN Cardinality(resultsAnswers \ {a})
             ELSE Cardinality(resultsAnswers \ {a}) + 1
  BY <1>2, FS_AddElement
<1>4. Cardinality((resultsAnswers \ {a}) \cup {c}) <= Cardinality(resultsAnswers)
  BY <1>1, <1>2, <1>3
<1>5. Cardinality((resultsAnswers \ {a}) \cup {c}) \in Nat
  BY <1>3, FS_CardinalityType
<1> QED  BY <1>1, <1>3, <1>4, <1>5, ResultsNumbers DEF ResultsPosted

\* select_run: the detail that was there goes, and one of the run is on its way.
LEMMA SelectKeeps ==
  ASSUME ResultsInv, NEW kept \in SUBSET resultsAnswers, IsFiniteSet(kept), NEW r \in Runs,
         Results!Select(r, kept), resultsListed' \subseteq Runs, opening' \in Runs \cup {"none"},
         UNCHANGED <<group, stage, pinned, failed, window, reload>>
  PROVE  ResultsInv'
<1> DEFINE d == [kind |-> "detail", run |-> r]
<1>1. /\ run' = r /\ resultsDetail' = "none" /\ resultsLoading' = TRUE
      /\ resultsAnswers' = kept \cup {d} /\ ResultsPosted'
  BY Posts DEF Results!Select, Results!None
<1>2. ResultsTyped'
  BY <1>1 DEF ResultsInv, ResultsTyped
<1>3. r # "none"
  BY ResultsNumbers
<1>4. \A a \in resultsAnswers' : ResultsAnswer(a)'
  <2>1. ResultsAnswer(d)'
    BY <1>1, <1>3 DEF ResultsAnswer, NewestLoad
  <2>2. ASSUME NEW a \in kept PROVE ResultsAnswer(a)'
    BY <1>1, <1>3 DEF ResultsAnswer, NewestLoad, ResultsInv, ResultsHeld
  <2> QED  BY <1>1, <2>1, <2>2
<1>5. d \in resultsAnswers' /\ d.kind = "detail"
  BY <1>1
<1>6. ResultsHeld'
  <2>1. resultsShown' = <<>>
    BY DEF Results!Select, Results!Nothing
  <2> HIDE DEF d
  <2> QED  BY <1>1, <1>3, <1>4, <1>5, <2>1 DEF ResultsHeld, ShownFits
<1> QED  BY <1>1, <1>2, <1>6 DEF ResultsInv

\* reload: whatever was on its way is of an older generation from now on.
LEMMA ReloadKeeps ==
  ASSUME ResultsInv, NEW kept, IsFiniteSet(kept), Cardinality(kept) <= MaxAnswers, NEW busy \in BOOLEAN,
         \A a \in kept : a \in resultsAnswers \/ a.kind = "compared",
         Results!Reload(run, group', stage', pinned', kept, busy),
         run = "none" => group' = "none", resultsDetail' \in Runs \cup {"none"},
         resultsDetail' # "none" => run # "none" /\ group' \in GroupsOf[resultsDetail'] \cup {"none"},
         resultsDetail' = "none" /\ group' = "none" => resultsShown = <<>>,
         stage' \in 0 .. LastStage, pinned' \in (0 .. LastStage) \cup {-1},
         busy => \E a \in kept : a.kind \in {"runs", "detail"} \/ group' # "none",
         UNCHANGED <<run, resultsShown, window, resultsListed, opening>>
  PROVE  ResultsInv'
<1>1. /\ reload \in 0 .. MaxReload /\ reload < MaxReload /\ reload' = reload + 1 /\ failed' = FALSE
      /\ \A a \in resultsAnswers : ResultsAnswer(a)
  BY DEF Results!Reload, ResultsInv, ResultsTyped, ResultsHeld
<1>2. ASSUME NEW a \in kept PROVE ResultsAnswer(a)' /\ ~NewestLoad(a)'
  <2>1. a.kind = "loaded" => a.reload \in 0 .. reload
    BY <1>1 DEF ResultsAnswer
  <2>2. ~NewestLoad(a)'
    BY <1>1, <2>1 DEF NewestLoad
  <2>3. a.kind = "detail" => a.run \in Runs
    BY <1>1 DEF ResultsAnswer
  <2> QED  BY <1>1, <2>1, <2>2, <2>3 DEF ResultsAnswer
<1>3. ASSUME resultsLoading' \in BOOLEAN PROVE ResultsTyped'
  <2>1. reload' \in 0 .. MaxReload
    BY <1>1, ResultsNumbers
  <2>2. failed' \in BOOLEAN
    BY <1>1, Zenon
  <2>3. resultsDetail' \in Runs \cup {"none"}
    BY Zenon
  <2>4. /\ run' \in Runs \cup {"none"} /\ window' \in 0 .. 1 /\ resultsListed' \subseteq Runs
        /\ opening' \in Runs \cup {"none"}
    BY DEF ResultsInv, ResultsTyped
  <2> QED  BY <1>3, <2>1, <2>2, <2>3, <2>4, Zenon DEF ResultsTyped
<1>4. CASE group' = "none"
  <2>1. resultsAnswers' = kept /\ resultsLoading' = busy
    BY <1>4 DEF Results!Reload, Results!None
  <2>2. busy => \E a \in kept : a.kind \in {"runs", "detail"}
    BY <1>4
  <2>3. ResultsHeld'
    BY <1>2, <1>4, <2>1, <2>2 DEF ResultsHeld, ShownFits
  <2>4. ResultsTyped'
    BY <1>3, <2>1, Zenon
  <2> QED  BY <2>1, <2>3, <2>4 DEF ResultsInv, ResultsPosted
<1>5. CASE group' # "none"
  <2>0. PICK l : l = [kind |-> "loaded", reload |-> reload + 1, view |-> <<run, group', stage', pinned'>>]
    OBVIOUS
  <2>1. resultsAnswers' = kept \cup {l} /\ resultsLoading' = TRUE /\ ResultsPosted'
    BY <1>5, <2>0, Posts DEF Results!Reload, Results!None
  <2>a. run \in Runs
    BY <1>5 DEF ResultsInv, ResultsTyped
  <2>2. l.kind = "loaded" /\ l.reload = reload + 1 /\ l.view = <<run, group', stage', pinned'>>
    BY <2>0
  <2>3. l.reload = reload' /\ l.reload \in 0 .. reload'
    BY <1>1, <2>2, ResultsNumbers
  <2>9. l.view = Selection' /\ l.kind # "detail"
    BY <2>2 DEF Selection
  <2>4. ResultsAnswer(l)' /\ NewestLoad(l)'
    <3>1. \E r \in Runs : l.view = <<r, group', stage', pinned'>>
      BY <2>2, <2>a
    <3> QED  BY <1>5, <2>2, <2>3, <2>9, <3>1, Zenon DEF ResultsAnswer, NewestLoad
  <2>5. l \in resultsAnswers' /\ \A a \in resultsAnswers' : ResultsAnswer(a)'
    BY <1>2, <2>1, <2>4
  <2>6. resultsDetail' # "none" => run' # "none" /\ group' \in GroupsOf[resultsDetail'] \cup {"none"}
    BY Zenon
  <2>b. (run' = "none" => group' = "none") /\ (resultsDetail' = "none" /\ group' = "none" => resultsShown' = <<>>)
    BY <1>5
  <2>7. ResultsHeld'
    BY <2>4, <2>5, <2>6, <2>b, Zenon DEF ResultsHeld
  <2>8. ResultsTyped'
    BY <1>3, <2>1, Zenon
  <2> QED  BY <2>1, <2>7, <2>8 DEF ResultsInv
<1> QED  BY <1>4, <1>5

\* The rest of the answers are kept; nothing else of the selection moves.
LEMMA ResultsKeeps ==
  ASSUME ResultsInv, Results!ResultsNext \/ UNCHANGED ResultsVars
  PROVE  ResultsInv'
<1> USE DEF ResultsInv, Results!None, Results!Nothing
<1>0. /\ \A a : IsFiniteSet(resultsAnswers \ {a}) /\ Cardinality(resultsAnswers \ {a}) <= MaxAnswers
      /\ IsFiniteSet(resultsAnswers) /\ Cardinality(resultsAnswers) <= MaxAnswers
  BY Answers DEF ResultsPosted
<1>1. CASE UNCHANGED ResultsVars
  BY <1>1 DEF ResultsVars, ResultsTyped, ResultsPosted, ResultsHeld, ShownFits, ResultsAnswer, NewestLoad, Selection
<1>20. ASSUME resultsLoading' = TRUE, Results!Post(resultsAnswers, [kind |-> "runs"]),
              opening' \in Runs \cup {"none"},
              UNCHANGED <<run, resultsDetail, group, stage, pinned, resultsShown, failed, window, reload, resultsListed>>
       PROVE  ResultsInv'
  <2>1. PICK l : l = [kind |-> "runs"]
    OBVIOUS
  <2>2. l.kind = "runs" /\ resultsAnswers' = resultsAnswers \cup {l} /\ ResultsPosted'
    BY <1>0, <1>20, <2>1, Posts
  <2>3. ResultsHeld'
    BY <1>20, <2>2 DEF ResultsHeld, ShownFits, ResultsAnswer, NewestLoad, Selection
  <2>4. resultsLoading' \in BOOLEAN
    BY <1>20, Zenon
  <2>5. ResultsTyped'
    BY <1>20, <2>4 DEF ResultsTyped
  <2> QED  BY <2>2, <2>3, <2>5
<1>2. CASE Results!Refresh
  BY <1>2, <1>20 DEF Results!Refresh, Results!Listing, ResultsTyped
<1>3. CASE Results!SelectRun
  BY <1>0, <1>3, SelectKeeps DEF Results!SelectRun, Results!Listing, ResultsTyped
<1>4. CASE Results!OpenRun
  <2>1. PICK r \in Runs :
          /\ IF r \in resultsListed
             THEN Results!Select(r, resultsAnswers) /\ UNCHANGED opening
             ELSE /\ opening' = r /\ resultsLoading' = TRUE /\ Results!Post(resultsAnswers, [kind |-> "runs"])
                  /\ UNCHANGED <<run, resultsDetail, resultsShown, drawn>>
          /\ UNCHANGED <<group, stage, pinned, failed, window, reload, resultsListed>>
    BY <1>4 DEF Results!OpenRun
  <2>2. CASE r \in resultsListed
    BY <1>0, <2>1, <2>2, SelectKeeps DEF ResultsTyped
  <2>3. CASE r \notin resultsListed
    BY <1>20, <2>1, <2>3
  <2> QED  BY <2>2, <2>3
<1>5. CASE Results!RunsListed
  <2>1. PICK a \in resultsAnswers :
          /\ a.kind = "runs"
          /\ \/ /\ resultsListed' = Runs /\ opening' = "none"
                /\ LET r == IF opening # "none" THEN opening ELSE IF run = "none" THEN Newest ELSE "none" IN
                   IF r # "none" THEN Results!Select(r, resultsAnswers \ {a})
                   ELSE /\ resultsLoading' = FALSE /\ resultsAnswers' = resultsAnswers \ {a}
                        /\ UNCHANGED <<run, resultsDetail, resultsShown, drawn>>
             \/ /\ resultsLoading' = FALSE /\ resultsAnswers' = resultsAnswers \ {a}
                /\ UNCHANGED <<run, resultsDetail, resultsShown, drawn, resultsListed, opening>>
          /\ UNCHANGED <<group, stage, pinned, failed, window, reload>>
    BY <1>5 DEF Results!RunsListed, Results!Listing
  <2>2. ASSUME NEW r \in Runs, Results!Select(r, resultsAnswers \ {a}), resultsListed' = Runs, opening' = "none"
        PROVE  ResultsInv'
    BY <1>0, <2>1, <2>2, SelectKeeps
  <2>3. ASSUME resultsLoading' = FALSE, resultsAnswers' = resultsAnswers \ {a},
               UNCHANGED <<run, resultsDetail, resultsShown>>,
               resultsListed' \subseteq Runs, opening' \in Runs \cup {"none"}
        PROVE  ResultsInv'
    <3>1. ResultsHeld' /\ ResultsPosted'
      BY <1>0, <2>1, <2>3 DEF ResultsPosted, ResultsHeld, ShownFits, ResultsAnswer, NewestLoad, Selection
    <3> QED  BY <2>1, <2>3, <3>1 DEF ResultsTyped
  <2>4. opening # "none" => opening \in Runs
    BY DEF ResultsTyped
  <2> QED  BY <2>1, <2>2, <2>3, <2>4, ResultsNumbers DEF ResultsTyped
<1>6. ASSUME resultsDetail # "none" PROVE resultsDetail \in Runs /\ run # "none" /\ group \in GroupsOf[resultsDetail] \cup {"none"}
  BY <1>6 DEF ResultsTyped, ResultsHeld
<1>7. ASSUME resultsLoading
      PROVE  \E a \in resultsAnswers : a.kind \in {"runs", "detail"} \/ group # "none"
  BY <1>7 DEF ResultsHeld, NewestLoad, ResultsAnswer
<1>8. CASE Results!SelectGroup
  <2>1. PICK g \in GroupsOf[resultsDetail] :
          /\ resultsDetail # "none" /\ group' = g
          /\ Results!Reload(run, g, stage, pinned, resultsAnswers, resultsLoading)
          /\ UNCHANGED <<run, resultsDetail, stage, pinned, resultsShown, window, resultsListed, opening>>
    BY <1>8 DEF Results!SelectGroup, Results!Listing
  <2>2. resultsLoading \in BOOLEAN /\ stage \in 0 .. LastStage /\ pinned \in (0 .. LastStage) \cup {-1}
    BY DEF ResultsTyped
  <2>3. g # "none" /\ resultsDetail' \in Runs
    BY <1>6, <2>1, ResultsNumbers
  <2> QED  BY <1>0, <1>6, <1>7, <2>1, <2>2, <2>3, ReloadKeeps
<1>9. CASE Results!SelectStage
  <2>1. PICK s \in 0 .. LastStage :
          /\ resultsDetail # "none" /\ stage' = s
          /\ Results!Reload(run, group, s, pinned, resultsAnswers, resultsLoading)
          /\ UNCHANGED <<run, resultsDetail, group, pinned, resultsShown, window, resultsListed, opening>>
    BY <1>9 DEF Results!SelectStage, Results!Listing, Results!Stages
  <2>2. resultsLoading \in BOOLEAN /\ pinned \in (0 .. LastStage) \cup {-1}
    BY DEF ResultsTyped
  <2> QED  BY <1>0, <1>6, <1>7, <2>1, <2>2, ReloadKeeps
<1>10. CASE Results!Pin
  <2>1. /\ resultsDetail # "none" /\ pinned' \in (0 .. LastStage) \cup {-1}
        /\ Results!Reload(run, group, stage, pinned', resultsAnswers, resultsLoading)
        /\ UNCHANGED <<run, resultsDetail, group, stage, resultsShown, window, resultsListed, opening>>
    BY <1>10 DEF Results!Pin, Results!Listing, Results!Stages, Results!NoPin
  <2>2. resultsLoading \in BOOLEAN /\ stage \in 0 .. LastStage
    BY DEF ResultsTyped
  <2> QED  BY <1>0, <1>6, <1>7, <2>1, <2>2, ReloadKeeps
<1>21. CASE Results!Unpin
  <2>1. /\ pinned' = -1
        /\ Results!Reload(run, group, stage, pinned', resultsAnswers, resultsLoading)
        /\ UNCHANGED <<run, resultsDetail, group, stage, resultsShown, window, resultsListed, opening>>
    BY <1>21 DEF Results!Unpin, Results!Listing, Results!NoPin
  <2>2. /\ resultsLoading \in BOOLEAN /\ stage \in 0 .. LastStage /\ pinned' \in (0 .. LastStage) \cup {-1}
        /\ resultsDetail \in Runs \cup {"none"}
    BY <2>1 DEF ResultsTyped
  <2>3. (run = "none" => group = "none") /\ (resultsDetail = "none" /\ group = "none" => resultsShown = <<>>)
    BY DEF ResultsHeld
  <2> QED  BY <1>0, <1>6, <1>7, <2>1, <2>2, <2>3, ReloadKeeps
<1>11. CASE Results!DetailAnswered
  <2>1. PICK a \in resultsAnswers :
          /\ a.kind = "detail"
          /\ \/ /\ resultsDetail' = a.run /\ stage' = LastStage /\ pinned' = -1
                /\ group' \in Results!GroupsAt(a.run)
                /\ wanted' = "none"
                /\ LET kept == resultsAnswers \ {a}
                       compared == [kind |-> "compared", pair |-> <<run, wanted>>] IN
                   IF wanted \in {"none", run}
                   THEN Results!Reload(run, group', LastStage, -1, kept, FALSE)
                   ELSE Results!Reload(run, group', LastStage, -1, kept \cup {compared}, FALSE)
                /\ UNCHANGED <<run, resultsShown, window, resultsListed, opening>>
             \/ /\ resultsLoading' = FALSE /\ resultsAnswers' = resultsAnswers \ {a}
                /\ UNCHANGED <<run, resultsDetail, group, stage, pinned, resultsShown, failed, window, reload,
                               resultsListed, opening>>
    BY <1>11, Zenon DEF Results!DetailAnswered, Results!Listing, Results!NoPin, Results!NotLoading
  <2>2. a.run \in Runs /\ run # "none"
    BY <2>1 DEF ResultsHeld, ResultsAnswer
  <2>3. ASSUME NEW kept, IsFiniteSet(kept), Cardinality(kept) <= MaxAnswers,
               \A b \in kept : b \in resultsAnswers \/ b.kind = "compared",
               resultsDetail' = a.run, stage' = LastStage, pinned' = -1,
               group' \in Results!GroupsAt(a.run),
               Results!Reload(run, group', LastStage, -1, kept, FALSE),
               UNCHANGED <<run, resultsShown, window, resultsListed, opening>>
        PROVE  ResultsInv'
    <3>1. group' \in GroupsOf[resultsDetail'] \cup {"none"} /\ stage' \in 0 .. LastStage /\ FALSE \in BOOLEAN
      BY <2>3, ResultsNumbers DEF Results!GroupsAt
    <3> QED  BY <2>2, <2>3, <3>1, ResultsNumbers, ReloadKeeps
  <2>4. ASSUME resultsLoading' = FALSE, resultsAnswers' = resultsAnswers \ {a},
               UNCHANGED <<run, resultsDetail, group, stage, pinned, resultsShown, failed, window, reload,
                           resultsListed, opening>>
        PROVE  ResultsInv'
    <3>1. ResultsHeld' /\ ResultsPosted'
      BY <1>0, <2>1, <2>4 DEF ResultsPosted, ResultsHeld, ShownFits, ResultsAnswer, NewestLoad, Selection
    <3> QED  BY <2>4, <3>1 DEF ResultsTyped
  <2>5. PICK c : c = [kind |-> "compared", pair |-> <<run, wanted>>]
    OBVIOUS
  <2>6. /\ IsFiniteSet((resultsAnswers \ {a}) \cup {c})
        /\ Cardinality((resultsAnswers \ {a}) \cup {c}) <= MaxAnswers
    BY <2>1, Swapped
  <2>7. \A b \in (resultsAnswers \ {a}) \cup {c} : b \in resultsAnswers \/ b.kind = "compared"
    BY <2>5
  <2> QED  BY <1>0, <2>1, <2>3, <2>4, <2>5, <2>6, <2>7
<1>12. CASE Results!Loaded
  <2>1. PICK a \in resultsAnswers :
          /\ a.kind = "loaded"
          /\ IF Results!IsStale(a)
             THEN resultsAnswers' = resultsAnswers \ {a} /\ UNCHANGED <<resultsShown, failed, drawn, resultsLoading>>
             ELSE /\ resultsLoading' = FALSE
                  /\ \/ /\ resultsShown' = a.view /\ drawn' = <<>> /\ failed' = FALSE
                        /\ Results!Post((resultsAnswers \ {a}) \cup {[kind |-> "pyramids", reload |-> reload]},
                                        Results!Reduction(a.view, window))
                     \/ failed' = TRUE /\ resultsAnswers' = resultsAnswers \ {a} /\ UNCHANGED <<resultsShown, drawn>>
          /\ UNCHANGED <<run, resultsDetail, group, stage, pinned, window, reload, resultsListed, opening>>
    BY <1>12 DEF Results!Loaded, Results!Listing
  <2>2. CASE Results!IsStale(a)
    <3>1. a.reload # reload
      BY <2>2 DEF Results!IsStale
    <3>2. ResultsHeld' /\ ResultsPosted'
      BY <1>0, <2>1, <2>2, <3>1 DEF ResultsPosted, ResultsHeld, ShownFits, ResultsAnswer, NewestLoad, Selection
    <3> QED  BY <2>1, <2>2, <3>2 DEF ResultsTyped
  <2>3. CASE ~Results!IsStale(a)
    <3>1. NewestLoad(a) /\ ResultsAnswer(a)
      BY <2>1, <2>3 DEF Results!IsStale, NewestLoad, ResultsHeld
    <3>2. CASE failed' = TRUE /\ resultsAnswers' = resultsAnswers \ {a} /\ resultsLoading' = FALSE
      <4>1. ResultsHeld' /\ ResultsPosted'
        BY <1>0, <2>1, <3>2 DEF ResultsPosted, ResultsHeld, ShownFits, ResultsAnswer, NewestLoad, Selection
      <4> QED  BY <2>1, <3>2, <4>1 DEF ResultsTyped
    <3>3. ASSUME resultsLoading' = FALSE, resultsShown' = a.view, failed' = FALSE,
                 Results!Post((resultsAnswers \ {a}) \cup {[kind |-> "pyramids", reload |-> reload]},
                              Results!Reduction(a.view, window))
          PROVE  ResultsInv'
      <4>1. PICK p, r : /\ p = [kind |-> "pyramids", reload |-> reload]
                        /\ r = Results!Reduction(a.view, window)
        OBVIOUS
      <4>2. p.kind = "pyramids" /\ r.kind = "reduced"
        BY <4>1 DEF Results!Reduction
      <4>3. resultsAnswers' = ((resultsAnswers \ {a}) \cup {p}) \cup {r} /\ ResultsPosted'
        BY <2>1, <3>3, <4>1, Swapped, Posts
      <4>4. \A b \in resultsAnswers' : ResultsAnswer(b)'
        BY <2>1, <4>2, <4>3 DEF ResultsHeld, ShownFits, ResultsAnswer, NewestLoad, Selection
      <4>5. ShownFits' /\ group # "none"
        BY <2>1, <3>1, <3>3 DEF ResultsAnswer, ShownFits, Selection
      <4>6. ResultsHeld'
        BY <2>1, <3>3, <4>4, <4>5 DEF ResultsHeld
      <4> QED  BY <2>1, <3>3, <4>3, <4>6 DEF ResultsTyped
    <3> QED  BY <2>1, <2>3, <3>2, <3>3
  <2> QED  BY <2>2, <2>3
\* What is drawn, compared and reduced does not touch what is read.
<1>13. ASSUME NEW a, a.kind \notin {"runs", "detail", "loaded"},
              NEW b, b.kind \notin {"runs", "detail", "loaded"},
              NEW kept, kept \in {resultsAnswers, resultsAnswers \ {a}},
              \/ resultsAnswers' = kept
              \/ Results!Post(kept, b),
              UNCHANGED <<run, resultsDetail, group, stage, pinned, resultsShown, failed, reload,
                          resultsLoading, resultsListed, opening>>,
              window' \in 0 .. 1
       PROVE  ResultsInv'
  <2>1. ResultsPosted' /\ resultsAnswers' \in {kept, kept \cup {b}}
    BY <1>0, <1>13, Posts DEF ResultsPosted
  <2>2. \A c \in resultsAnswers' : c \in resultsAnswers \/ c = b
    BY <1>13, <2>1
  <2>3. \A c \in resultsAnswers : c.kind \in {"runs", "detail", "loaded"} => c \in resultsAnswers'
    BY <1>13, <2>1
  <2>4. ResultsHeld'
    BY <1>13, <2>2, <2>3 DEF ResultsHeld, ShownFits, ResultsAnswer, NewestLoad, Selection
  <2> QED  BY <1>13, <2>1, <2>4 DEF ResultsTyped
<1>14. window \in 0 .. 1 /\ 1 - window \in 0 .. 1
  BY DEF ResultsTyped
<1>15. ASSUME NEW v, NEW w PROVE Results!Reduction(v, w).kind \notin {"runs", "detail", "loaded"}
  BY DEF Results!Reduction
<1>16. CASE Results!Gesture
  BY <1>13, <1>14, <1>15, <1>16 DEF Results!Gesture, Results!Invalidate, Results!Listing
<1>17. CASE Results!CompareWith \/ Results!ClearComparison
  <2>1. PICK z : z = [kind |-> "pyramids"]
    OBVIOUS
  <2>2. z.kind \notin {"runs", "detail", "loaded"}
    BY <2>1
  <2>3. ASSUME NEW c, c.kind = "compared", resultsAnswers' = resultsAnswers \/ Results!Post(resultsAnswers, c),
               UNCHANGED <<run, resultsDetail, group, stage, pinned, resultsShown, failed, window, reload,
                           resultsLoading, resultsListed, opening>>
        PROVE  ResultsInv'
    BY <1>13, <1>14, <2>2, <2>3
  <2>4. ASSUME NEW x PROVE [kind |-> "compared", pair |-> x].kind = "compared"
    OBVIOUS
  <2> QED  BY <1>17, <2>3, <2>4 DEF Results!CompareWith, Results!ClearComparison, Results!Compare, Results!Listing
<1>18. CASE Results!PyramidsBuilt
  BY <1>13, <1>14, <1>15, <1>18 DEF Results!PyramidsBuilt, Results!Invalidate, Results!Listing
<1>19. CASE Results!Reduced \/ Results!Compared
  BY <1>13, <1>14, <1>19 DEF Results!Reduced, Results!Compared, Results!Listing
<1> HIDE DEF ResultsInv
<1> QED  BY <1>1, <1>2, <1>3, <1>4, <1>5, <1>8, <1>9, <1>10, <1>11, <1>12, <1>16, <1>17, <1>18, <1>19, <1>21
         DEF Results!ResultsNext, Results!ResultsUser, Results!ResultsAnswers

LEMMA ResultsShows ==
  ASSUME ResultsInv
  PROVE  Results!ResultsTypeOK /\ Results!ViewIsSelected /\ Results!LoadingIsOwed
<1> USE DEF ResultsInv, Results!None, Results!NoPin
<1>1. Results!ResultsTypeOK
  BY ResultsCounts DEF Results!ResultsTypeOK, Results!Stages, ResultsTyped, ResultsPosted, ResultsHeld
<1>2. Results!ViewIsSelected /\ Results!LoadingIsOwed
  BY DEF Results!ViewIsSelected, Results!Settled, Results!LoadingIsOwed, Results!Nothing,
         ResultsHeld, ShownFits, NewestLoad, Selection
<1> QED  BY <1>1, <1>2

-----------------------------------------------------------------------------
(* The Library screen, all of it: a hit is found at the moment the query is       *)
(* asked, by filters that narrow one another.                                     *)

FoundMeans(found, q) ==
  found = {s \in LibrarySignals :
             /\ s.group \in q.held
             /\ q.word \subseteq {s.word}
             /\ q.tags \subseteq s.tags
             /\ q.key => Library!Means(q.value, s)}
LibraryAnswer(a) ==
  /\ a.kind = "detail" => a.detail.real \/ ~a.detail.shown
  /\ a.kind = "hits" /\ a.ok => FoundMeans(a.found, a.query)
LibraryFilters ==
  /\ search = {} \/ \E w \in LibraryWords : search = {w}
  /\ propValue \in FilterTexts \cup {[form |-> "empty"]}
LibraryPane ==
  /\ librarySelected # {} /\ detailError # {} => detailError = librarySelected
  /\ \A d \in libraryDetail : d.real \/ ~d.shown
LibraryInv == /\ Library!WaitsAreOwed /\ LibraryPane /\ LibraryFilters
              /\ \A a \in libraryAsked : LibraryAnswer(a)

\* What is typed selects the signals it means.
LEMMA ParsedMeans ==
  ASSUME LibraryFilters, NEW s \in LibrarySignals
  PROVE  LET q == Library!Parsed(propValue) IN
         (CASE q.kind = "exists" -> s.props.num \cup s.props.txt # {}
            [] q.kind = "equals" -> q.of \in s.props.txt
            [] OTHER -> \E v \in s.props.num : (\A m \in q.min : v >= m) /\ (\A m \in q.max : v <= m))
           <=> Library!Means(propValue, s)
<1>1. /\ s.props.num \in SUBSET Int /\ \A v, w \in s.props.num : v = w
      /\ \A v, w \in s.props.txt : v = w
  BY LibraryAssumed DEF Library!LibraryAssumption
<1>2. \/ propValue \in FilterTexts
      \/ propValue = [form |-> "empty"]
  BY DEF LibraryFilters
<1>3. propValue.form \in {"empty", "text", "above", "below", "range", "number"}
  BY <1>2, LibraryAssumed DEF Library!LibraryAssumption, Library!Forms
<1>4. CASE propValue.form = "empty"
  BY <1>4 DEF Library!Parsed, Library!Means
<1>5. CASE propValue.form = "text"
  BY <1>1, <1>5 DEF Library!Parsed, Library!Means
<1>6. CASE propValue.form = "above"
  BY <1>6 DEF Library!Parsed, Library!Means
<1>7. CASE propValue.form = "below"
  BY <1>7 DEF Library!Parsed, Library!Means
<1>8. CASE propValue.form = "range"
  <2>1. propValue \in FilterTexts /\ propValue.of \in Int /\ propValue.to \in Int
    BY <1>2, <1>8, LibraryAssumed DEF Library!LibraryAssumption
  <2> QED  BY <1>1, <1>8, <2>1 DEF Library!Parsed, Library!Means
<1>9. CASE propValue.form = "number"
  <2>1. propValue \in FilterTexts /\ propValue.of \in Int
    BY <1>2, <1>9, LibraryAssumed DEF Library!LibraryAssumption
  <2>2. \A v \in s.props.num : v >= propValue.of /\ v <= propValue.of <=> v = propValue.of
    BY <1>1, <2>1
  <2> QED  BY <1>1, <1>9, <2>2 DEF Library!Parsed, Library!Means
<1> QED  BY <1>3, <1>4, <1>5, <1>6, <1>7, <1>8, <1>9

LEMMA QueriedMeans ==
  ASSUME LibraryFilters, NEW tags, ~(search = {} /\ tags = {} /\ ~propKey)
  PROVE  FoundMeans(Library!Queried(search, tags, propKey, propValue),
                    [word |-> search, tags |-> tags, key |-> propKey, value |-> propValue, held |-> libraryHeld])
<1> DEFINE first == IF search = {} THEN {} ELSE {Library!ByWord(CHOOSE w \in search : TRUE)}
           second == IF tags = {} THEN first ELSE Library!Narrow(first, Library!ByTags(tags))
           third == IF propKey THEN Library!Narrow(second, Library!ByProp(Library!Parsed(propValue))) ELSE second
           W(s) == search \subseteq {s.word}
           T(s) == tags \subseteq s.tags
           P(s) == propKey => Library!Means(propValue, s)
           Here == {s \in LibrarySignals : s.group \in libraryHeld}
<1>1. Library!Present = Here
  BY DEF Library!Present
<1>2. \/ search = {} /\ first = {} /\ \A s : W(s)
      \/ first = {{s \in Here : W(s)}}
  <2>1. CASE search = {}
    BY <2>1
  <2>2. ASSUME NEW w, search = {w} PROVE first = {{s \in Here : W(s)}}
    <3>1. (CHOOSE x \in search : TRUE) = w
      BY <2>2
    <3>2. \A s : W(s) <=> s.word = w
      BY <2>2
    <3> QED  BY <1>1, <2>2, <3>1, <3>2 DEF Library!ByWord
  <2> QED  BY <2>1, <2>2 DEF LibraryFilters
<1> HIDE DEF first, W
<1>3. \/ second = {} /\ (\A s : W(s)) /\ (\A s : T(s)) /\ search = {} /\ tags = {}
      \/ second = {{s \in Here : W(s) /\ T(s)}}
  <2>1. CASE tags = {}
    <3>1. \A s : T(s)
      BY <2>1
    <3> QED  BY <1>2, <2>1, <3>1
  <2>2. CASE tags # {}
    <3>1. Library!ByTags(tags) = {s \in Here : T(s)}
      BY <1>1 DEF Library!ByTags
    <3> QED  BY <1>2, <2>2, <3>1 DEF Library!Narrow, Library!None
  <2> QED  BY <2>1, <2>2
<1> HIDE DEF second, T
<1>4. third = {{s \in Here : W(s) /\ T(s) /\ P(s)}}
  <2>1. CASE ~propKey
    <3>1. second = {{s \in Here : W(s) /\ T(s)}} /\ \A s : P(s)
      BY <1>3, <2>1
    <3> QED  BY <2>1, <3>1
  <2>2. CASE propKey
    <3>1. \A s \in LibrarySignals : Library!Means(propValue, s) <=> P(s)
      BY <2>2
    <3>2. Library!ByProp(Library!Parsed(propValue)) = {s \in Here : P(s)}
      BY <1>1, <3>1, ParsedMeans DEF Library!ByProp
    <3>3. third = Library!Narrow(second, {s \in Here : P(s)})
      BY <2>2, <3>2
    <3> HIDE DEF P, third
    <3>4. CASE second = {} /\ (\A s : W(s)) /\ (\A s : T(s))
      <4>1. third = {{s \in Here : P(s)}}
        BY <3>3, <3>4 DEF Library!Narrow, Library!None
      <4>2. {s \in Here : P(s)} = {s \in Here : W(s) /\ T(s) /\ P(s)}
        BY <3>4
      <4> QED  BY <4>1, <4>2
    <3>5. CASE second = {{s \in Here : W(s) /\ T(s)}}
      <4> DEFINE M == {s \in Here : W(s) /\ T(s)}
                 N == {s \in Here : P(s)}
      <4>1. third = {{s \in N : s \in M}}
        <5> HIDE DEF M, N
        <5>1. second = {M} /\ second # {}
          BY <3>5 DEF M
        <5>2. third = Library!Narrow(second, N)
          BY <3>3 DEF N
        <5> QED  BY <5>1, <5>2 DEF Library!Narrow, Library!None
      <4>2. {s \in N : s \in M} = {s \in Here : W(s) /\ T(s) /\ P(s)}
        OBVIOUS
      <4> QED  BY <4>1, <4>2
    <3> QED  BY <1>3, <3>4, <3>5
  <2> QED  BY <2>1, <2>2
<1>5. Library!Queried(search, tags, propKey, propValue) = UNION third
  BY DEF Library!Queried, Library!None, first, second
<1> HIDE DEF third, P
<1>6. UNION third = {s \in Here : W(s) /\ T(s) /\ P(s)}
  BY <1>4
<1> QED  BY <1>5, <1>6 DEF FoundMeans, W, T, P

LEMMA LibraryStarts == Library!LibScreenInit => LibraryInv
BY DEF Library!LibScreenInit, Library!None, LibraryInv, LibraryPane, LibraryFilters, Library!WaitsAreOwed

LibraryTree == <<libraryLoading, index, librarySelected, libraryDetail, detailError>>
LibraryTyped == <<search, propValue>>

\* What is asked for: an answer is one more that waits, and none is taken away.
LEMMA AskKeeps ==
  ASSUME LibraryInv, NEW a, libraryAsked' = libraryAsked \cup {a}, LibraryAnswer(a),
         UNCHANGED <<LibraryTyped, libraryDetail>>,
         (librarySelected' = librarySelected /\ detailError' = detailError) \/ detailError' = {},
         UNCHANGED libraryLoading \/ a.kind = "index",
         UNCHANGED libraryNotice \/ a.kind = "export"
  PROVE  LibraryInv'
BY DEF LibraryInv, LibraryPane, LibraryFilters, LibraryTyped, LibraryAnswer, FoundMeans, Library!WaitsAreOwed

\* What is typed and ticked, and what the library gains: nothing of the tree moves.
LEMMA TypingKeeps ==
  ASSUME LibraryInv, UNCHANGED <<libraryAsked, LibraryTree, libraryNotice>>,
         search' = {} \/ \E w \in LibraryWords : search' = {w},
         propValue' \in FilterTexts \cup {[form |-> "empty"]}
  PROVE  LibraryInv'
BY DEF LibraryInv, LibraryPane, LibraryFilters, LibraryTree, LibraryAnswer, FoundMeans, Library!WaitsAreOwed

\* An answer is in.
LEMMA AnswerKeeps ==
  ASSUME LibraryInv, NEW a \in libraryAsked, libraryAsked' = libraryAsked \ {a},
         UNCHANGED LibraryTyped, LibraryPane',
         (UNCHANGED libraryLoading /\ a.kind # "index") \/ libraryLoading' = FALSE,
         (UNCHANGED libraryNotice /\ a.kind # "export") \/ libraryNotice' # "exporting"
  PROVE  LibraryInv'
BY DEF LibraryInv, LibraryFilters, LibraryTyped, LibraryAnswer, FoundMeans, Library!WaitsAreOwed

LEMMA QueryKeeps ==
  ASSUME LibraryInv, NEW tags, NEW ok, Library!Query(tags, ok), UNCHANGED <<LibraryTree, LibraryTyped, libraryNotice>>
  PROVE  LibraryInv'
<1>1. CASE search = {} /\ tags = {} /\ ~propKey
  <2>1. UNCHANGED libraryAsked
    BY <1>1 DEF Library!Query, Library!None
  <2> QED  BY <2>1, TypingKeeps DEF LibraryTyped, LibraryInv, LibraryFilters
<1>2. CASE ~(search = {} /\ tags = {} /\ ~propKey)
  <2>0. PICK a : a = IF ok THEN [kind |-> "hits", ok |-> TRUE, found |-> Library!Queried(search, tags, propKey, propValue),
                                query |-> [word |-> search, tags |-> tags, key |-> propKey, value |-> propValue,
                                           held |-> libraryHeld]]
                          ELSE [kind |-> "hits", ok |-> FALSE]
    OBVIOUS
  <2>1. /\ libraryAsked' = libraryAsked \cup {a} /\ a.kind = "hits"
        /\ \/ /\ a.query = [word |-> search, tags |-> tags, key |-> propKey, value |-> propValue, held |-> libraryHeld]
              /\ a.found = Library!Queried(search, tags, propKey, propValue)
           \/ ~a.ok
    <3>1. libraryAsked' = libraryAsked \cup {a}
      BY <1>2, <2>0 DEF Library!Query, Library!Ask, Library!None
    <3> QED  BY <2>0, <3>1
  <2>2. LibraryAnswer(a)
    BY <1>2, <2>1, QueriedMeans DEF LibraryAnswer, LibraryInv
  <2> QED  BY <2>1, <2>2, AskKeeps DEF LibraryTree
<1> QED  BY <1>1, <1>2

LEMMA LibraryKeeps ==
  ASSUME LibraryInv, Library!TreeNext \/ Library!FiltersNext \/ UNCHANGED LibraryVars
  PROVE  LibraryInv'
<1> USE DEF LibraryTree, LibraryTyped, Library!tree, Library!filters, Library!None
<1>0. LibraryFilters
  BY DEF LibraryInv
<1>1. CASE UNCHANGED LibraryVars
  BY <1>0, <1>1, TypingKeeps DEF LibraryVars, LibraryFilters
<1>2. CASE Library!Load \/ Library!LoadFails
  <2>1. PICK a : a.kind = "index" /\ libraryAsked' = libraryAsked \cup {a}
    BY <1>2 DEF Library!Load, Library!LoadFails, Library!Ask
  <2>2. UNCHANGED <<LibraryTyped, librarySelected, libraryDetail, detailError, libraryNotice>>
    BY <1>2 DEF Library!Load, Library!LoadFails
  <2> QED  BY <2>1, <2>2, AskKeeps DEF LibraryAnswer
<1>3. ASSUME NEW id, Library!Grow(id) PROVE LibraryInv'
  BY <1>0, <1>3, TypingKeeps DEF Library!Grow, LibraryFilters
<1>4. ASSUME NEW id \in Library!GroupIds, NEW ok, Library!SelectGroup(id, ok) PROVE LibraryInv'
  <2>0. PICK d, a : /\ d = Library!DetailOf(id, Library!ReadAs(id))
                    /\ a = [kind |-> "detail", id |-> id, ok |-> ok, detail |-> d]
    OBVIOUS
  <2>1. libraryAsked' = libraryAsked \cup {a}
    BY <1>4, <2>0 DEF Library!SelectGroup, Library!Ask
  <2>2. d.real \/ ~d.shown
    <3>1. Library!GroupOf(id).pulse \in BOOLEAN
      BY LibraryAssumed DEF Library!GroupOf, Library!GroupIds, Library!LibraryAssumption
    <3>2. ASSUME NEW p, p = Library!GroupOf(id).pulse, NEW i, i = Library!InIndex(id) PROVE d.real \/ ~d.shown
      <4>1. d = [id |-> id, pulse |-> (i /\ p), shown |-> i, real |-> (p = (i /\ p))]
        BY <2>0, <3>2 DEF Library!DetailOf, Library!ReadAs
      <4>2. d.shown = i /\ d.real = (p = (i /\ p)) /\ p \in BOOLEAN
        BY <3>1, <3>2, <4>1
      <4> QED  BY <4>2, Zenon
    <3> QED  BY <3>2
  <2>4. a.kind = "detail" /\ a.detail = d
    BY <2>0
  <2>5. LibraryAnswer(a)
    BY <2>2, <2>4 DEF LibraryAnswer
  <2>3. detailError' = {} /\ UNCHANGED <<LibraryTyped, libraryDetail, libraryLoading, libraryNotice>>
    BY <1>4 DEF Library!SelectGroup, Library!Forget
  <2> QED  BY <2>1, <2>3, <2>5, AskKeeps
<1>5. ASSUME NEW id, NEW ok, Library!ExportTo(id, ok) PROVE LibraryInv'
  <2>0. PICK a : a = [kind |-> "export", ok |-> ok]
    OBVIOUS
  <2>1. libraryAsked' = libraryAsked \cup {a} /\ a.kind = "export"
    BY <1>5, <2>0 DEF Library!ExportTo, Library!Ask
  <2>2. UNCHANGED <<LibraryTyped, librarySelected, libraryDetail, detailError, libraryLoading>>
    BY <1>5 DEF Library!ExportTo
  <2> QED  BY <2>1, <2>2, AskKeeps DEF LibraryAnswer
<1>6. ASSUME NEW a \in libraryAsked, Library!Loaded(a) PROVE LibraryInv'
  <2>1. /\ libraryAsked' = libraryAsked \ {a} /\ a.kind = "index" /\ libraryLoading' = FALSE
        /\ UNCHANGED <<LibraryTyped, detailError, libraryNotice>>
        /\ librarySelected' \in {librarySelected, {}} /\ libraryDetail' \in {libraryDetail, {}}
    BY <1>6 DEF Library!Loaded, Library!NotLoading
  <2>2. LibraryPane'
    BY <2>1 DEF LibraryInv, LibraryPane
  <2> QED  BY <2>1, <2>2, AnswerKeeps
<1>7. ASSUME NEW a \in libraryAsked, Library!DetailLoaded(a) PROVE LibraryInv'
  <2>1. /\ libraryAsked' = libraryAsked \ {a} /\ a.kind = "detail"
        /\ UNCHANGED <<LibraryTyped, librarySelected, libraryLoading, libraryNotice>>
        /\ libraryDetail' \in {libraryDetail, {a.detail}}
        /\ detailError' = detailError \/ (detailError' = {a.id} /\ librarySelected = {a.id})
    BY <1>7 DEF Library!DetailLoaded, Library!OfSelected
  <2>2. a.detail.real \/ ~a.detail.shown
    BY <2>1 DEF LibraryInv, LibraryAnswer
  <2>3. LibraryPane'
    BY <2>1, <2>2 DEF LibraryInv, LibraryPane
  <2> QED  BY <2>1, <2>3, AnswerKeeps
<1>8. ASSUME NEW a \in libraryAsked, Library!Exported(a) PROVE LibraryInv'
  <2>1. /\ libraryAsked' = libraryAsked \ {a} /\ a.kind = "export"
        /\ UNCHANGED <<LibraryTyped, librarySelected, libraryDetail, detailError, libraryLoading>>
        /\ libraryNotice' # "exporting"
    BY <1>8 DEF Library!Exported, Library!Notice
  <2>2. LibraryPane'
    BY <2>1 DEF LibraryInv, LibraryPane
  <2> QED  BY <2>1, <2>2, AnswerKeeps
<1>9. ASSUME NEW a \in libraryAsked, Library!SearchDone(a) PROVE LibraryInv'
  <2>1. /\ libraryAsked' = libraryAsked \ {a} /\ a.kind = "hits"
        /\ UNCHANGED <<LibraryTree, LibraryTyped, libraryNotice>>
    BY <1>9 DEF Library!SearchDone
  <2>2. LibraryPane'
    BY <2>1 DEF LibraryInv, LibraryPane
  <2> QED  BY <2>1, <2>2, AnswerKeeps
<1>10. CASE Library!ClearSearch
  BY <1>0, <1>10, TypingKeeps DEF Library!ClearSearch, LibraryFilters
<1>11. ASSUME NEW w \in {{}} \cup {{w} : w \in LibraryWords}, Library!SearchChanged(w) PROVE LibraryInv'
  BY <1>0, <1>11, TypingKeeps DEF Library!SearchChanged, LibraryFilters
<1>12. ASSUME NEW k, Library!PropKeyChanged(k) PROVE LibraryInv'
  BY <1>0, <1>12, TypingKeeps DEF Library!PropKeyChanged, LibraryFilters
<1>13. ASSUME NEW v \in FilterTexts, Library!PropValueChanged(v) PROVE LibraryInv'
  BY <1>0, <1>13, TypingKeeps DEF Library!PropValueChanged, LibraryFilters
<1>14. ASSUME NEW ok, Library!Search(ok) PROVE LibraryInv'
  BY <1>14, QueryKeeps DEF Library!Search
<1>15. ASSUME NEW t, NEW ok, Library!ToggleTag(t, ok) PROVE LibraryInv'
  <2>1. PICK tags : tagFilter' = tags
    OBVIOUS
  <2> QED  BY <1>15, <2>1, QueryKeeps DEF Library!ToggleTag
<1> QED  BY <1>1, <1>2, <1>3, <1>4, <1>5, <1>6, <1>7, <1>8, <1>9, <1>10, <1>11, <1>12, <1>13, <1>14, <1>15
         DEF Library!TreeNext, Library!FiltersNext

LEMMA LibraryShows ==
  ASSUME LibraryInv
  PROVE  Library!WaitsAreOwed /\ Library!PaneIsSelected /\ Library!HitsSatisfyAll
BY DEF LibraryInv, LibraryPane, LibraryAnswer, FoundMeans, Library!PaneIsSelected, Library!HitsSatisfyAll, Library!None

-----------------------------------------------------------------------------
(* The settings: no stage library is listed twice and each that is listed loads, *)
(* so that what a start reads back is what was saved.                            *)

LibLists == {l \in Seq(Loadable) : \A i, j \in DOMAIN l : l[i] = l[j] => i = j}
SettingsOf(rates, binCounts, retentions) ==
  [is : {"settings"}, theme : {"dark", "light"}, rate : rates, mode : {"tolerant", "strict"}, bins : binCounts,
   quality : {"fast", "balanced", "fine"}, retention : retentions,
   cap : {"unlimited", "4096", "1024", "256", "0"}, libs : LibLists,
   folder : Folders \cup {"none"}, file : Files \cup {"none"}]
AppSettings == SettingsOf(Nat \ {0}, 8 .. 256, Nat \ {100})
StoredSettings == SettingsOf(Nat, Nat, Nat)
SettingsInv ==
  /\ app \in AppSettings /\ chosenShown = app
  /\ disk.is = "settings" => disk \in StoredSettings
  /\ draft \in Nat /\ adopted \in Nat /\ (adopted = 0 => app.folder = "none")
  /\ Chosen!UsedIsSet /\ Chosen!ListedLoads
  /\ \A w \in saving : w = [what |-> Chosen!Validated(app), temp |-> w.temp]

LEMMA SettingsCounts == \A S : Chosen!Cardinality(S) = Cardinality(S)
BY DEF Chosen!Cardinality, Cardinality

LEMMA SettingIs ==
  ASSUME NEW rates, NEW binCounts, NEW retentions, NEW s \in SettingsOf(rates, binCounts, retentions)
  PROVE  /\ s.is \in {"settings"} /\ s.theme \in {"dark", "light"} /\ s.rate \in rates
         /\ s.mode \in {"tolerant", "strict"} /\ s.bins \in binCounts
         /\ s.quality \in {"fast", "balanced", "fine"} /\ s.retention \in retentions
         /\ s.cap \in {"unlimited", "4096", "1024", "256", "0"} /\ s.libs \in LibLists
         /\ s.folder \in Folders \cup {"none"} /\ s.file \in Files \cup {"none"}
<1>1. s.is \in {"settings"} /\ s.theme \in {"dark", "light"} /\ s.rate \in rates
  BY DEF SettingsOf
<1>2. s.mode \in {"tolerant", "strict"} /\ s.bins \in binCounts /\ s.quality \in {"fast", "balanced", "fine"}
  BY DEF SettingsOf
<1>3. s.retention \in retentions /\ s.cap \in {"unlimited", "4096", "1024", "256", "0"} /\ s.libs \in LibLists
  BY DEF SettingsOf
<1>4. s.folder \in Folders \cup {"none"} /\ s.file \in Files \cup {"none"}
  BY DEF SettingsOf
<1> QED  BY <1>1, <1>2, <1>3, <1>4

\* What is left of a list is in it, each entry once.
LEMMA KeptIsOfList ==
  ASSUME NEW l \in LibLists, NEW places \in SUBSET (DOMAIN l)
  PROVE  Chosen!Kept(l, places) \in LibLists
<1> DEFINE n == Len(l)
           Upto(i) == {j \in places : j <= i}
           N == 1 .. Cardinality(places)
           rank == [i \in places |-> Cardinality(Upto(i))]
<1>1. l \in Seq(Loadable) /\ n \in Nat /\ DOMAIN l = 1 .. n /\ \A i, j \in DOMAIN l : l[i] = l[j] => i = j
  BY DEF LibLists
<1>2. IsFiniteSet(1 .. n) /\ places \in SUBSET (1 .. n)
  BY <1>1, FS_Interval
<1>3. IsFiniteSet(places) /\ Cardinality(places) \in Nat
  BY <1>2, FS_Subset, FS_CardinalityType
<1>4. ASSUME NEW i \in places
      PROVE  /\ IsFiniteSet(Upto(i)) /\ Cardinality(Upto(i)) \in Nat
             /\ Cardinality(Upto(i)) <= Cardinality(places) /\ 1 <= Cardinality(Upto(i))
  <2>1. Upto(i) \in SUBSET places /\ i \in Upto(i)
    BY <1>2
  <2>2. /\ IsFiniteSet(Upto(i)) /\ Cardinality(Upto(i)) \in Nat
        /\ Cardinality(Upto(i)) <= Cardinality(places)
    BY <1>3, <2>1, FS_Subset, FS_CardinalityType
  <2>3. Cardinality(Upto(i)) # 0
    BY <2>1, <2>2, FS_EmptySet
  <2> HIDE DEF Upto
  <2> QED  BY <2>2, <2>3
<1>5. ASSUME NEW i \in places, NEW j \in places, i < j
      PROVE  Cardinality(Upto(i)) < Cardinality(Upto(j))
  <2>1. Upto(i) \in SUBSET Upto(j) /\ j \in Upto(j) /\ j \notin Upto(i)
    BY <1>2, <1>5
  <2>2. Upto(i) # Upto(j)
    BY <2>1
  <2> HIDE DEF Upto
  <2> QED  BY <1>4, <2>1, <2>2, FS_Subset
<1>6. rank \in Injection(places, N)
  <2>1. \A i \in places : Cardinality(Upto(i)) \in N
    <3> HIDE DEF Upto
    <3> QED  BY <1>3, <1>4
  <2>2. \A i, j \in places : i # j => i < j \/ j < i
    BY <1>2
  <2>3. \A i, j \in places : i # j => Cardinality(Upto(i)) # Cardinality(Upto(j))
    <3> HIDE DEF Upto
    <3> QED  BY <1>4, <1>5, <2>2
  <2> HIDE DEF Upto, N
  <2> QED  BY <2>1, <2>3 DEF Injection, IsInjective
<1>7. rank \in Surjection(places, N)
  <2>1. IsFiniteSet(N) /\ Cardinality(N) = Cardinality(places)
    BY <1>3, FS_Interval
  <2> HIDE DEF rank, N
  <2> QED  BY <1>6, <2>1, FS_Injection
<1>8. \A k \in N : \E i \in places : Cardinality(Upto(i)) = k
  <2> HIDE DEF N, Upto
  <2> QED  BY <1>7 DEF Surjection
<1> DEFINE at(k) == CHOOSE i \in places : Cardinality(Upto(i)) = k
<1>9. \A k \in N : at(k) \in places /\ Cardinality(Upto(at(k))) = k
  <2> HIDE DEF N, Upto
  <2> QED  BY <1>8
<1>10. Chosen!Kept(l, places) = [k \in N |-> l[at(k)]]
  BY DEF Chosen!Kept, Chosen!Cardinality, Cardinality
<1> HIDE DEF N, at, Upto
<1>11. \A k \in N : l[at(k)] \in Loadable
  BY <1>1, <1>2, <1>9
<1>12. [k \in N |-> l[at(k)]] \in Seq(Loadable)
  <2>1. PICK f : f = [k \in N |-> l[at(k)]]
    OBVIOUS
  <2>2. f \in [N -> Loadable]
    BY <1>11, <2>1
  <2>3. f \in Seq(Loadable)
    BY <1>3, <2>2, SeqDef DEF N
  <2> QED  BY <2>1, <2>3
<1>13. \A i, j \in N : l[at(i)] = l[at(j)] => i = j
  BY <1>1, <1>2, <1>9
<1> QED  BY <1>10, <1>12, <1>13 DEF LibLists

\* What is written and read back is within its ranges.
LEMMA ValidatedFits ==
  ASSUME NEW s \in StoredSettings
  PROVE  Chosen!Validated(s) \in AppSettings
<1>1. /\ s.rate \in Nat /\ s.bins \in Nat /\ s.retention \in Nat /\ s.libs \in LibLists
      /\ DOMAIN s = {"is", "theme", "rate", "mode", "bins", "quality", "retention", "cap", "libs", "folder", "file"}
  BY DEF StoredSettings, SettingsOf
<1>2. PICK r, b, k, l : /\ r = IF s.rate = 0 THEN 1 ELSE s.rate
                        /\ b = Chosen!Clamp(s.bins)
                        /\ k = IF s.retention = 100 THEN 1 ELSE s.retention
                        /\ l = Chosen!Dedup(s.libs)
  OBVIOUS
<1>3. r \in Nat \ {0} /\ k \in Nat \ {100}
  BY <1>1, <1>2
<1>4. b \in 8 .. 256
  BY <1>1, <1>2 DEF Chosen!Clamp, Chosen!MIN_BINS, Chosen!MAX_BINS
<1>5. l \in LibLists
  <2>1. {i \in DOMAIN s.libs : i = 1 \/ s.libs[i] # s.libs[i - 1]} \in SUBSET (DOMAIN s.libs)
    OBVIOUS
  <2> QED  BY <1>1, <1>2, <2>1, KeptIsOfList DEF Chosen!Dedup
<1>6. Chosen!Validated(s) = [s EXCEPT !.rate = r, !.bins = b, !.libs = l, !.retention = k]
  BY <1>1, <1>2 DEF Chosen!Validated, Chosen!Defaults
<1>7. [s EXCEPT !.rate = r, !.bins = b, !.libs = l, !.retention = k]
        = [is |-> s.is, theme |-> s.theme, rate |-> r, mode |-> s.mode, bins |-> b, quality |-> s.quality,
           retention |-> k, cap |-> s.cap, libs |-> l, folder |-> s.folder, file |-> s.file]
  <2>1. s = [is |-> s.is, theme |-> s.theme, rate |-> s.rate, mode |-> s.mode, bins |-> s.bins, quality |-> s.quality,
             retention |-> s.retention, cap |-> s.cap, libs |-> s.libs, folder |-> s.folder, file |-> s.file]
    BY DEF StoredSettings, SettingsOf
  <2>2. PICK t, m, q, c, d, e : t = s.theme /\ m = s.mode /\ q = s.quality /\ c = s.cap /\ d = s.folder /\ e = s.file
    OBVIOUS
  <2>3. PICK i, r0, b0, k0, l0 : i = s.is /\ r0 = s.rate /\ b0 = s.bins /\ k0 = s.retention /\ l0 = s.libs
    OBVIOUS
  <2>4. s = [is |-> i, theme |-> t, rate |-> r0, mode |-> m, bins |-> b0, quality |-> q,
             retention |-> k0, cap |-> c, libs |-> l0, folder |-> d, file |-> e]
    BY ONLY <2>1, <2>2, <2>3
  <2>5. [s EXCEPT !.rate = r, !.bins = b, !.libs = l, !.retention = k]
          = [is |-> i, theme |-> t, rate |-> r, mode |-> m, bins |-> b, quality |-> q,
             retention |-> k, cap |-> c, libs |-> l, folder |-> d, file |-> e]
    <3>1. PICK u1 : u1 = [s EXCEPT !.rate = r]
      OBVIOUS
    <3>2. PICK u2 : u2 = [u1 EXCEPT !.bins = b]
      OBVIOUS
    <3>3. PICK u3 : u3 = [u2 EXCEPT !.libs = l]
      OBVIOUS
    <3>4. u1 = [is |-> i, theme |-> t, rate |-> r, mode |-> m, bins |-> b0, quality |-> q,
               retention |-> k0, cap |-> c, libs |-> l0, folder |-> d, file |-> e]
      BY ONLY <2>4, <3>1
    <3>5. u2 = [is |-> i, theme |-> t, rate |-> r, mode |-> m, bins |-> b, quality |-> q,
               retention |-> k0, cap |-> c, libs |-> l0, folder |-> d, file |-> e]
      BY ONLY <3>2, <3>4
    <3>6. u3 = [is |-> i, theme |-> t, rate |-> r, mode |-> m, bins |-> b, quality |-> q,
               retention |-> k0, cap |-> c, libs |-> l, folder |-> d, file |-> e]
      BY ONLY <3>3, <3>5
    <3>7. [u3 EXCEPT !.retention = k] = [is |-> i, theme |-> t, rate |-> r, mode |-> m, bins |-> b, quality |-> q,
               retention |-> k, cap |-> c, libs |-> l, folder |-> d, file |-> e]
      BY ONLY <3>6
    <3> QED  BY ONLY <3>1, <3>2, <3>3, <3>7
  <2> QED  BY ONLY <2>2, <2>3, <2>5
<1>8. /\ s.is \in {"settings"} /\ s.theme \in {"dark", "light"} /\ s.mode \in {"tolerant", "strict"}
      /\ s.quality \in {"fast", "balanced", "fine"} /\ s.cap \in {"unlimited", "4096", "1024", "256", "0"}
      /\ s.folder \in Folders \cup {"none"} /\ s.file \in Files \cup {"none"}
  BY SettingIs DEF StoredSettings
<1>9. [is |-> s.is, theme |-> s.theme, rate |-> r, mode |-> s.mode, bins |-> b, quality |-> s.quality,
       retention |-> k, cap |-> s.cap, libs |-> l, folder |-> s.folder, file |-> s.file] \in AppSettings
  BY <1>3, <1>4, <1>5, <1>8 DEF AppSettings, SettingsOf
<1> QED  BY <1>6, <1>7, <1>9

LEMMA AppIsStored ==
  ASSUME NEW s \in AppSettings
  PROVE  s \in StoredSettings
<1> DEFINE t == [is |-> s.is, theme |-> s.theme, rate |-> s.rate, mode |-> s.mode, bins |-> s.bins, quality |-> s.quality,
                 retention |-> s.retention, cap |-> s.cap, libs |-> s.libs, folder |-> s.folder, file |-> s.file]
<1>1. s = t
  BY DEF AppSettings, SettingsOf
<1>2. s.rate \in Nat /\ s.bins \in 8 .. 256 /\ s.retention \in Nat /\ s.libs \in LibLists
  BY SettingIs DEF AppSettings
<1>3. s.bins \in Nat
  BY <1>2
<1>4. /\ s.is \in {"settings"} /\ s.theme \in {"dark", "light"} /\ s.mode \in {"tolerant", "strict"}
      /\ s.quality \in {"fast", "balanced", "fine"} /\ s.cap \in {"unlimited", "4096", "1024", "256", "0"}
      /\ s.folder \in Folders \cup {"none"} /\ s.file \in Files \cup {"none"}
  BY SettingIs DEF AppSettings
<1>5. t \in StoredSettings
  BY <1>2, <1>3, <1>4 DEF StoredSettings, SettingsOf
<1> QED  BY <1>1, <1>5

\* What a start or a change puts to work.
LEMMA AppliedIsSet ==
  ASSUME NEW s \in AppSettings
  PROVE  /\ Chosen!Applied(s).rate = s.rate /\ Chosen!Applied(s).mode = s.mode
         /\ Chosen!Applied(s).cap = s.cap /\ Chosen!Applied(s).pipelineLibs = s.libs
         /\ Chosen!Applied(s).folder = s.folder
         /\ Chosen!Listed(s) \subseteq Chosen!Mapped(s.libs)
<1>1. \A i \in DOMAIN s.libs : s.libs[i] \in Loadable
  BY DEF AppSettings, SettingsOf, LibLists
<1> QED  BY <1>1 DEF Chosen!Applied, Chosen!Listed, Chosen!Mapped

SettingsMoves == Chosen!NeverTorn /\ Chosen!CensusIsOnce

LEMMA SettingsStutter ==
  ASSUME SettingsInv, UNCHANGED <<disk, saving, app, chosenShown, draft, used, adopted, loadedLibs>>
  PROVE  SettingsInv' /\ SettingsMoves
BY DEF SettingsInv, SettingsMoves, Chosen!NeverTorn, Chosen!CensusIsOnce, Chosen!UsedIsSet, Chosen!ListedLoads

\* A save is of the settings of the process that runs, and leaves the file alone
\* until it is renamed over it.
LEMMA SavesIsSound ==
  ASSUME SettingsInv, NEW s, Chosen!Saves(s), app' = s
  PROVE  /\ disk'.is = "settings" => disk' \in StoredSettings
         /\ \A w \in saving' : w = [what |-> Chosen!Validated(app'), temp |-> w.temp]
         /\ Chosen!NeverTorn
<1>1. disk' = disk /\ saving' = {[what |-> Chosen!Validated(s), temp |-> "before"]}
  BY DEF Chosen!Saves
<1>2. ASSUME NEW w \in saving' PROVE w = [what |-> Chosen!Validated(app'), temp |-> w.temp]
  <2>1. PICK v : v = Chosen!Validated(s)
    OBVIOUS
  <2>2. w = [what |-> v, temp |-> "before"]
    BY <1>1, <1>2, <2>1
  <2>3. Chosen!Validated(app') = v
    BY <2>1
  <2> QED  BY <2>2, <2>3
<1> QED  BY <1>1, <1>2 DEF SettingsInv, Chosen!NeverTorn

LEMMA SaveStepKeeps ==
  ASSUME SettingsInv, Chosen!OpenTemp \/ Chosen!WriteTemp \/ Chosen!RenameTemp \/ Chosen!SaveFails
  PROVE  SettingsInv' /\ SettingsMoves
<1>1. UNCHANGED <<app, chosenShown, draft, used, adopted, loadedLibs>>
  BY DEF Chosen!OpenTemp, Chosen!WriteTemp, Chosen!RenameTemp, Chosen!SaveFails, Chosen!Aside
<1>2. PICK v : v = Chosen!Validated(app)
  OBVIOUS
<1>3. v \in StoredSettings
  BY <1>2, AppIsStored, ValidatedFits DEF SettingsInv
<1>4. \A w \in saving : w = [what |-> v, temp |-> w.temp]
  BY <1>2 DEF SettingsInv
<1>5. (\A w \in saving' : w = [what |-> v, temp |-> w.temp]) /\ (disk' # disk => disk' = v)
  <2>1. CASE Chosen!RenameTemp
    BY <1>4, <2>1 DEF Chosen!RenameTemp, Chosen!Renameable
  <2>2. CASE Chosen!SaveFails
    BY <2>2 DEF Chosen!SaveFails
  <2>3. ASSUME NEW w \in saving, NEW t, saving' = {[w EXCEPT !.temp = t]}
        PROVE  \A x \in saving' : x = [what |-> v, temp |-> x.temp]
    <3>1. PICK u : u = w.temp
      OBVIOUS
    <3>2. w = [what |-> v, temp |-> u]
      BY <1>4, <3>1
    <3> QED  BY <2>3, <3>2
  <2>4. CASE Chosen!OpenTemp \/ Chosen!WriteTemp
    BY <2>3, <2>4 DEF Chosen!OpenTemp, Chosen!WriteTemp
  <2> QED  BY <2>1, <2>2, <2>4
<1>6. Chosen!Validated(app') = v
  BY <1>1, <1>2
<1>7. Chosen!UsedIsSet' /\ Chosen!ListedLoads' /\ Chosen!CensusIsOnce
  BY <1>1 DEF SettingsInv, Chosen!UsedIsSet, Chosen!ListedLoads, Chosen!CensusIsOnce
<1>8. disk'.is = "settings" => disk' \in StoredSettings
  BY <1>3, <1>5 DEF SettingsInv
<1> QED  BY <1>1, <1>2, <1>5, <1>6, <1>7, <1>8 DEF SettingsInv, SettingsMoves, Chosen!NeverTorn

LEMMA TakeChangedKeeps ==
  ASSUME SettingsInv, NEW s \in AppSettings, Chosen!TakeChanged(s), draft' \in Nat
  PROVE  SettingsInv' /\ SettingsMoves
<1> USE DEF SettingsInv
<1>1. /\ chosenShown' = s /\ app' = s /\ used' = Chosen!Applied(s) /\ Chosen!Saves(s)
      /\ adopted' = (IF used.folder # s.folder /\ s.folder # "none" THEN adopted + 1 ELSE adopted)
      /\ loadedLibs' = loadedLibs \cup Chosen!Mapped(s.libs)
  BY DEF Chosen!TakeChanged, Chosen!Repointed, Chosen!None
<1>3. /\ disk'.is = "settings" => disk' \in StoredSettings
      /\ \A w \in saving' : w = [what |-> Chosen!Validated(app'), temp |-> w.temp]
      /\ Chosen!NeverTorn
  BY <1>1, SavesIsSound
<1>4. Chosen!UsedIsSet' /\ Chosen!ListedLoads'
  BY <1>1, AppliedIsSet DEF Chosen!UsedIsSet, Chosen!ListedLoads
<1>5. used.folder = app.folder
  BY DEF Chosen!UsedIsSet
<1>6. adopted' \in Nat /\ (adopted' = 0 => app'.folder = "none") /\ Chosen!CensusIsOnce
  BY <1>1, <1>5 DEF Chosen!CensusIsOnce
<1> QED  BY <1>1, <1>3, <1>4, <1>6 DEF SettingsMoves

\* The settings with one of them changed.
LEMMA ChangedFits ==
  ASSUME SettingsInv
  PROVE  /\ \A v \in {"dark", "light"} : [app EXCEPT !.theme = v] \in AppSettings
         /\ \A v \in {"tolerant", "strict"} : [app EXCEPT !.mode = v] \in AppSettings
         /\ \A v \in {"fast", "balanced", "fine"} : [app EXCEPT !.quality = v] \in AppSettings
         /\ \A v \in Nat \ {100} : [app EXCEPT !.retention = v] \in AppSettings
         /\ \A v \in {"unlimited", "4096", "1024", "256", "0"} : [app EXCEPT !.cap = v] \in AppSettings
         /\ \A v \in 8 .. 256 : [app EXCEPT !.bins = v] \in AppSettings
         /\ \A v \in Nat \ {0} : [app EXCEPT !.rate = v] \in AppSettings
         /\ \A v \in Folders \cup {"none"} : [app EXCEPT !.folder = v] \in AppSettings
         /\ \A v \in LibLists : [app EXCEPT !.libs = v] \in AppSettings
         /\ \A v \in Files \cup {"none"} : [app EXCEPT !.file = v] \in AppSettings
<1>1. \A v \in {"dark", "light"} : [app EXCEPT !.theme = v] \in AppSettings
  BY DEF SettingsInv, AppSettings, SettingsOf
<1>2. \A v \in {"tolerant", "strict"} : [app EXCEPT !.mode = v] \in AppSettings
  BY DEF SettingsInv, AppSettings, SettingsOf
<1>3. \A v \in {"fast", "balanced", "fine"} : [app EXCEPT !.quality = v] \in AppSettings
  BY DEF SettingsInv, AppSettings, SettingsOf
<1>4. \A v \in Nat \ {100} : [app EXCEPT !.retention = v] \in AppSettings
  BY DEF SettingsInv, AppSettings, SettingsOf
<1>5. \A v \in {"unlimited", "4096", "1024", "256", "0"} : [app EXCEPT !.cap = v] \in AppSettings
  BY DEF SettingsInv, AppSettings, SettingsOf
<1>6. \A v \in 8 .. 256 : [app EXCEPT !.bins = v] \in AppSettings
  BY DEF SettingsInv, AppSettings, SettingsOf
<1>7. \A v \in Nat \ {0} : [app EXCEPT !.rate = v] \in AppSettings
  BY DEF SettingsInv, AppSettings, SettingsOf
<1>8. \A v \in Folders \cup {"none"} : [app EXCEPT !.folder = v] \in AppSettings
  BY DEF SettingsInv, AppSettings, SettingsOf
<1>9. \A v \in LibLists : [app EXCEPT !.libs = v] \in AppSettings
  BY DEF SettingsInv, AppSettings, SettingsOf
<1>10. \A v \in Files \cup {"none"} : [app EXCEPT !.file = v] \in AppSettings
  BY DEF SettingsInv, AppSettings, SettingsOf
<1> QED  BY <1>1, <1>2, <1>3, <1>4, <1>5, <1>6, <1>7, <1>8, <1>9, <1>10

LEMMA NoLibraries == <<>> \in LibLists
<1>1. <<>> \in Seq(Loadable) /\ Len(<<>>) = 0 /\ DOMAIN <<>> = 1 .. Len(<<>>) /\ 1 .. 0 = {}
  OBVIOUS
<1> QED  BY <1>1 DEF LibLists

\* A start: what is read is sound, whatever was on disk.
LEMMA BootedFits ==
  ASSUME disk.is = "settings" => disk \in StoredSettings
  PROVE  Chosen!Load(disk) \in AppSettings
<1>1. Chosen!Defaults \in AppSettings
  BY NoLibraries DEF Chosen!Defaults, Chosen!None, AppSettings, SettingsOf
<1> QED  BY <1>1, ValidatedFits DEF Chosen!Load

LEMMA BootIsSound ==
  ASSUME NEW s \in AppSettings, NEW a, a = IF s.folder = "none" THEN 0 ELSE 1
  PROVE  a \in Nat /\ (a = 0 => s.folder = "none") /\ s.rate \in Nat
<1>1. s.rate \in Nat \ {0}
  BY SettingIs DEF AppSettings
<1> QED  BY <1>1

\* A file edited by hand is still one of settings.
LEMMA EditedByHand == [Chosen!Defaults EXCEPT !.rate = 0, !.bins = 500, !.retention = 100] \in StoredSettings
<1>1. Chosen!Defaults \in StoredSettings
  BY NoLibraries DEF Chosen!Defaults, Chosen!None, StoredSettings, SettingsOf
<1>2. \A t \in StoredSettings : [t EXCEPT !.rate = 0] \in StoredSettings
  BY DEF StoredSettings, SettingsOf
<1>3. \A t \in StoredSettings : [t EXCEPT !.bins = 500] \in StoredSettings
  BY DEF StoredSettings, SettingsOf
<1>4. \A t \in StoredSettings : [t EXCEPT !.retention = 100] \in StoredSettings
  BY DEF StoredSettings, SettingsOf
<1> DEFINE d1 == [Chosen!Defaults EXCEPT !.rate = 0]
           d2 == [d1 EXCEPT !.bins = 500]
<1>5. d1 \in StoredSettings
  BY <1>1, <1>2
<1> HIDE DEF d1
<1>6. d2 \in StoredSettings
  BY <1>3, <1>5
<1> HIDE DEF d2
<1>7. [d2 EXCEPT !.retention = 100] \in StoredSettings
  BY <1>4, <1>6
<1> QED  BY <1>7 DEF d1, d2

LEMMA SettingsStarts == Chosen!SettingsInit => SettingsInv
<1> SUFFICES ASSUME NEW d, disk = d, saving = {}, Chosen!Booted(d, 0),
                    d \in {Chosen!Absent, Chosen!Truncated,
                           [Chosen!Defaults EXCEPT !.rate = 0, !.bins = 500, !.retention = 100]}
             PROVE  SettingsInv
  BY DEF Chosen!SettingsInit
<1>1. [Chosen!Defaults EXCEPT !.rate = 0, !.bins = 500, !.retention = 100] \in StoredSettings
  BY EditedByHand
<1>2. disk.is = "settings" => disk \in StoredSettings
  BY <1>1 DEF Chosen!Absent, Chosen!Truncated
<1>3. PICK s : s = Chosen!Load(disk)
  OBVIOUS
<1>4. s \in AppSettings
  BY <1>2, <1>3, BootedFits
<1>5. /\ app = s /\ chosenShown = s /\ used = Chosen!Applied(s) /\ draft = s.rate /\ saving = {}
      /\ adopted = (IF s.folder = "none" THEN 0 ELSE 1) /\ loadedLibs = Chosen!Mapped(s.libs)
  BY <1>3 DEF Chosen!Booted, Chosen!None
<1>6. Chosen!UsedIsSet /\ Chosen!ListedLoads
  BY <1>4, <1>5, AppliedIsSet DEF Chosen!UsedIsSet, Chosen!ListedLoads
<1> QED  BY <1>2, <1>4, <1>5, <1>6, BootIsSound DEF SettingsInv

LEMMA RestartKeeps ==
  ASSUME SettingsInv, Chosen!Restart
  PROVE  SettingsInv' /\ SettingsMoves
<1>1. PICK s : s = Chosen!Load(disk)
  OBVIOUS
<1>2. s \in AppSettings /\ (disk.is = "settings" => disk \in StoredSettings)
  BY <1>1, BootedFits DEF SettingsInv
<1>3. /\ app' = s /\ chosenShown' = s /\ used' = Chosen!Applied(s) /\ draft' = s.rate /\ disk' = disk /\ saving' = {}
      /\ adopted' = (IF s.folder = "none" THEN 0 ELSE 1) /\ loadedLibs' = Chosen!Mapped(s.libs)
  BY <1>1 DEF Chosen!Restart, Chosen!None
<1>4. Chosen!UsedIsSet' /\ Chosen!ListedLoads'
  BY <1>2, <1>3, AppliedIsSet DEF Chosen!UsedIsSet, Chosen!ListedLoads
<1>5. adopted' > adopted => app'.folder # app.folder
  BY <1>2, <1>3 DEF SettingsInv
<1> QED  BY <1>2, <1>3, <1>4, <1>5, BootIsSound DEF SettingsInv, SettingsMoves, Chosen!NeverTorn, Chosen!CensusIsOnce

\* Another library is opened: the settings that have nothing to do with it stay.
LEMMA LibraryChosenKeeps ==
  ASSUME SettingsInv, NEW f \in Files \cup {"none"}, Chosen!LibraryChosen(f)
  PROVE  SettingsInv' /\ SettingsMoves
<1>1. PICK s : s = [app EXCEPT !.file = f]
  OBVIOUS
<1>2. s \in AppSettings
  BY <1>1, ChangedFits
<1>3. /\ s.rate = app.rate /\ s.mode = app.mode /\ s.cap = app.cap /\ s.libs = app.libs /\ s.folder = app.folder
  BY <1>1 DEF SettingsInv, AppSettings, SettingsOf
<1>4. /\ chosenShown' = s /\ app' = s /\ used' = Chosen!Reset(Chosen!Applied(s)) /\ Chosen!Saves(s)
      /\ UNCHANGED <<draft, adopted, loadedLibs>>
  BY <1>1 DEF Chosen!LibraryChosen, SettingsInv
<1>5. /\ used'.rate = s.rate /\ used'.mode = s.mode /\ used'.cap = s.cap
      /\ used'.pipelineLibs = s.libs /\ used'.folder = s.folder
  BY <1>4 DEF Chosen!Reset, Chosen!Applied
<1>6. Chosen!UsedIsSet' /\ Chosen!ListedLoads'
  BY <1>3, <1>4, <1>5 DEF SettingsInv, Chosen!UsedIsSet, Chosen!ListedLoads, Chosen!Listed
<1>7. /\ disk'.is = "settings" => disk' \in StoredSettings
      /\ \A w \in saving' : w = [what |-> Chosen!Validated(app'), temp |-> w.temp]
      /\ Chosen!NeverTorn
  BY <1>4, SavesIsSound
<1>8. draft' \in Nat /\ adopted' \in Nat /\ (adopted' = 0 => app'.folder = "none") /\ Chosen!CensusIsOnce
  BY <1>3, <1>4 DEF SettingsInv, Chosen!CensusIsOnce
<1> QED  BY <1>2, <1>4, <1>6, <1>7, <1>8 DEF SettingsInv, SettingsMoves

LEMMA ToggleThemeKeeps ==
  ASSUME SettingsInv, Chosen!ToggleTheme
  PROVE  SettingsInv' /\ SettingsMoves
<1>1. PICK v : v = IF app.theme = "dark" THEN "light" ELSE "dark"
  OBVIOUS
<1>2. PICK s : s = [app EXCEPT !.theme = v]
  OBVIOUS
<1>3. s \in AppSettings
  BY <1>1, <1>2, ChangedFits
<1>4. /\ s.rate = app.rate /\ s.mode = app.mode /\ s.cap = app.cap /\ s.libs = app.libs /\ s.folder = app.folder
  BY <1>2 DEF SettingsInv, AppSettings, SettingsOf
<1>5. /\ chosenShown' = s /\ app' = s /\ draft' = s.rate /\ Chosen!Saves(s)
      /\ UNCHANGED <<used, adopted, loadedLibs>>
  BY <1>1, <1>2 DEF Chosen!ToggleTheme, Chosen!Adopted
<1>6. Chosen!UsedIsSet' /\ Chosen!ListedLoads'
  BY <1>4, <1>5 DEF SettingsInv, Chosen!UsedIsSet, Chosen!ListedLoads, Chosen!Listed
<1>7. /\ disk'.is = "settings" => disk' \in StoredSettings
      /\ \A w \in saving' : w = [what |-> Chosen!Validated(app'), temp |-> w.temp]
      /\ Chosen!NeverTorn
  BY <1>5, SavesIsSound
<1>8. draft' \in Nat /\ adopted' \in Nat /\ (adopted' = 0 => app'.folder = "none") /\ Chosen!CensusIsOnce
  <2>1. s.rate \in Nat
    BY <1>3, SettingIs DEF AppSettings
  <2> QED  BY <1>4, <1>5, <2>1 DEF SettingsInv, Chosen!CensusIsOnce
<1> QED  BY <1>3, <1>5, <1>6, <1>7, <1>8 DEF SettingsInv, SettingsMoves

\* One setting picked: what is saved is what was picked.
LEMMA PickKeeps ==
  ASSUME SettingsInv, NEW s \in AppSettings, Chosen!Pick(s)
  PROVE  SettingsInv' /\ SettingsMoves
<1>1. Chosen!TakeChanged(s) /\ draft' \in Nat
  BY DEF Chosen!Pick, SettingsInv
<1> QED  BY <1>1, TakeChangedKeeps

LEMMA PicksKeep ==
  ASSUME SettingsInv,
         \/ \E v \in Chosen!Offered.themes : Chosen!ThemePicked(v)
         \/ \E v \in Chosen!Offered.modes : Chosen!ModePicked(v)
         \/ \E v \in Chosen!Offered.qualities : Chosen!QualityPicked(v)
         \/ \E v \in Chosen!Offered.retentions : Chosen!RetentionPicked(v)
         \/ \E v \in Chosen!Offered.caps : Chosen!CapPicked(v)
         \/ \E n \in Chosen!Offered.bins : Chosen!UseHistogramBins(n)
         \/ Chosen!RateCommitted
  PROVE  SettingsInv' /\ SettingsMoves
<1>0. chosenShown = app /\ draft \in Nat
  BY DEF SettingsInv
<1>1. ASSUME NEW v \in Chosen!Offered.themes, Chosen!ThemePicked(v)
      PROVE  \E s \in AppSettings : Chosen!Pick(s)
  BY <1>0, <1>1, ChangedFits DEF Chosen!Offered, Chosen!ThemePicked
<1>2. ASSUME NEW v \in Chosen!Offered.modes, Chosen!ModePicked(v)
      PROVE  \E s \in AppSettings : Chosen!Pick(s)
  BY <1>0, <1>2, ChangedFits DEF Chosen!Offered, Chosen!ModePicked
<1>3. ASSUME NEW v \in Chosen!Offered.qualities, Chosen!QualityPicked(v)
      PROVE  \E s \in AppSettings : Chosen!Pick(s)
  BY <1>0, <1>3, ChangedFits DEF Chosen!Offered, Chosen!QualityPicked
<1>4. ASSUME NEW v \in Chosen!Offered.retentions, Chosen!RetentionPicked(v)
      PROVE  \E s \in AppSettings : Chosen!Pick(s)
  <2>1. v \in Nat \ {100}
    BY DEF Chosen!Offered
  <2> QED  BY <1>0, <1>4, <2>1, ChangedFits DEF Chosen!RetentionPicked
<1>5. ASSUME NEW v \in Chosen!Offered.caps, Chosen!CapPicked(v)
      PROVE  \E s \in AppSettings : Chosen!Pick(s)
  BY <1>0, <1>5, ChangedFits DEF Chosen!Offered, Chosen!CapPicked
<1>6. ASSUME NEW v \in Chosen!Offered.bins, Chosen!UseHistogramBins(v)
      PROVE  \E s \in AppSettings : Chosen!Pick(s)
  <2>1. Chosen!Clamp(v) \in 8 .. 256
    BY DEF Chosen!Offered, Chosen!Clamp, Chosen!MIN_BINS, Chosen!MAX_BINS
  <2> QED  BY <1>0, <1>6, <2>1, ChangedFits DEF Chosen!UseHistogramBins
<1>7. ASSUME Chosen!RateCommitted
      PROVE  \E s \in AppSettings : Chosen!Pick(s)
  BY <1>0, <1>7, ChangedFits DEF Chosen!RateCommitted
<1>8. PICK s \in AppSettings : Chosen!Pick(s)
  BY <1>1, <1>2, <1>3, <1>4, <1>5, <1>6, <1>7
<1> QED  BY <1>8, PickKeeps

\* The folder that is watched, and the stage libraries that are listed.
LEMMA ListsKeep ==
  ASSUME SettingsInv,
         \/ \E f \in Folders : Chosen!WatchFolderChosen(f)
         \/ Chosen!StopWatching
         \/ \E p \in Paths : Chosen!ExternalLibraryChosen(p) \/ Chosen!RemoveExternalLibrary(p)
  PROVE  SettingsInv' /\ SettingsMoves
<1>0. chosenShown = app /\ draft \in Nat /\ app \in AppSettings /\ app.libs \in LibLists
  BY SettingIs DEF SettingsInv, AppSettings
<1>1. CASE Chosen!StopWatching \/ \E f \in Folders : Chosen!WatchFolderChosen(f)
  <2>1. PICK f \in Folders \cup {"none"} : Chosen!TakeChanged([app EXCEPT !.folder = f]) /\ UNCHANGED draft
    BY <1>0, <1>1 DEF Chosen!StopWatching, Chosen!WatchFolderChosen, Chosen!None
  <2>2. [app EXCEPT !.folder = f] \in AppSettings /\ draft' \in Nat
    BY <1>0, <2>1, ChangedFits
  <2> QED  BY <2>1, <2>2, TakeChangedKeeps
<1>2. ASSUME NEW p \in Paths, Chosen!RemoveExternalLibrary(p)
      PROVE  SettingsInv' /\ SettingsMoves
  <2>1. PICK l : l = Chosen!Kept(app.libs, {i \in DOMAIN app.libs : app.libs[i] # p})
    OBVIOUS
  <2>2. l \in LibLists
    <3>1. {i \in DOMAIN app.libs : app.libs[i] # p} \in SUBSET (DOMAIN app.libs)
      OBVIOUS
    <3> QED  BY <1>0, <2>1, <3>1, KeptIsOfList
  <2>3. Chosen!TakeChanged([app EXCEPT !.libs = l]) /\ draft' \in Nat
    <3>1. [app EXCEPT !.libs = l] = [app EXCEPT !.libs = Chosen!Kept(@, {i \in DOMAIN @ : @[i] # p})]
      BY <2>1
    <3> QED  BY <1>0, <1>2, <3>1 DEF Chosen!RemoveExternalLibrary
  <2>4. [app EXCEPT !.libs = l] \in AppSettings
    BY <2>2, ChangedFits
  <2> QED  BY <2>3, <2>4, TakeChangedKeeps
<1>3. ASSUME NEW p \in Paths, Chosen!ExternalLibraryChosen(p)
      PROVE  SettingsInv' /\ SettingsMoves
  <2>1. CASE /\ p \notin Chosen!Listed(chosenShown) /\ Chosen!Opens(p)
             /\ Chosen!TakeChanged([chosenShown EXCEPT !.libs = Append(@, p)])
             /\ UNCHANGED draft
    <3>1. PICK l : l = Append(app.libs, p)
      OBVIOUS
    <3>2. l \in LibLists
      <4>1. /\ app.libs \in Seq(Loadable) /\ p \in Loadable /\ \A i \in DOMAIN app.libs : app.libs[i] # p
            /\ \A i, j \in DOMAIN app.libs : app.libs[i] = app.libs[j] => i = j
        BY <1>0, <2>1 DEF Chosen!Opens, Chosen!Listed, LibLists
      <4>2. l \in Seq(Loadable)
        BY <3>1, <4>1
      <4>3. \A i, j \in DOMAIN l : l[i] = l[j] => i = j
        BY <3>1, <4>1
      <4> QED  BY <4>2, <4>3 DEF LibLists
    <3>3. Chosen!TakeChanged([app EXCEPT !.libs = l]) /\ draft' \in Nat
      BY <1>0, <2>1, <3>1
    <3>4. [app EXCEPT !.libs = l] \in AppSettings
      BY <3>2, ChangedFits
    <3> QED  BY <3>3, <3>4, TakeChangedKeeps
  <2>2. CASE UNCHANGED <<disk, saving, app, chosenShown, draft, used, adopted, loadedLibs>>
    BY <2>2, SettingsStutter
  <2> QED  BY <1>3, <2>1, <2>2 DEF Chosen!ExternalLibraryChosen
<1> QED  BY <1>1, <1>2, <1>3

LEMMA SettingsKeeps ==
  ASSUME SettingsInv, Chosen!SettingsNext \/ UNCHANGED ChosenVars
  PROVE  SettingsInv' /\ SettingsMoves
<1>1. CASE UNCHANGED ChosenVars
  BY <1>1, SettingsStutter DEF ChosenVars
<1>2. ASSUME NEW v \in 0 .. 2, Chosen!RateChanged(v) PROVE SettingsInv' /\ SettingsMoves
  BY <1>2 DEF Chosen!RateChanged, SettingsInv, SettingsMoves, Chosen!NeverTorn, Chosen!CensusIsOnce, Chosen!UsedIsSet, Chosen!ListedLoads
<1>3. ASSUME Chosen!UseDefaultLibrary PROVE SettingsInv' /\ SettingsMoves
  BY <1>3, LibraryChosenKeeps DEF Chosen!UseDefaultLibrary, Chosen!None
<1> QED  BY <1>1, <1>2, <1>3, PicksKeep, ListsKeep, ToggleThemeKeeps, LibraryChosenKeeps, RestartKeeps, SaveStepKeeps
         DEF Chosen!SettingsNext, Chosen!Edit

LEMMA SettingsShows ==
  ASSUME SettingsInv
  PROVE  Chosen!CopiesAgree /\ Chosen!UsedIsSet /\ Chosen!InRange /\ Chosen!ListedLoads
<1>1. app.rate \in Nat \ {0} /\ app.bins \in 8 .. 256 /\ app.retention \in Nat \ {100} /\ app.libs \in LibLists
  BY SettingIs DEF SettingsInv, AppSettings
<1>2. \A i \in 1 .. (Len(app.libs) - 1) : app.libs[i] # app.libs[i + 1]
  <2>1. /\ Len(app.libs) \in Nat /\ DOMAIN app.libs = 1 .. Len(app.libs)
        /\ \A i, j \in DOMAIN app.libs : app.libs[i] = app.libs[j] => i = j
    BY <1>1, LenProperties DEF LibLists
  <2> QED  BY <2>1
<1>3. Chosen!InRange
  BY <1>1, <1>2 DEF Chosen!InRange, Chosen!MIN_BINS, Chosen!MAX_BINS
<1> QED  BY <1>3 DEF SettingsInv, Chosen!CopiesAgree

-----------------------------------------------------------------------------
(* For any ids, names and number of answers under way: accepting a run under a  *)
(* name keeps how the name is compared, and the run a baseline names stays.     *)
(* The first rests on a name standing for one baseline.                         *)


\* A baseline is a name, a run and how it is compared.
Baselines == \A b \in baselines : /\ b = [name |-> b.name, id |-> b.id, exact |-> b.exact]
                                  /\ b.exact \in BOOLEAN
\* A name stands for one baseline.
OnePerName == \A b, c \in baselines : b.name = c.name => b = c

RInv == Baselines /\ OnePerName

\* What is on screen moves alone: no message but the writes reaches a baseline.
Elsewhere == UNCHANGED <<runs, baselines, recorded>>

\* Every step leaves the library alone but for these four.
LEMMA OnlyTheseWrite ==
  ASSUME [RunsNext]_runsVars
  PROVE  \/ Elsewhere
         \/ Record
         \/ \E b \in baselines : Loosen(b)
         \/ \E j \in jobs : PromoteRuns(j) \/ DeleteRuns(j)
<1>1. CASE UNCHANGED runsVars
  BY <1>1 DEF runsVars, library, Elsewhere
<1>2. CASE RunsNext
  <2>1. CASE Refresh \/ ListRead \/ ListFails \/ ToggleFailuresOnly \/ ClearAgainst
    BY <2>1 DEF Refresh, ListRead, ListFails, ToggleFailuresOnly, ClearAgainst, library, Elsewhere
  <2>2. ASSUME NEW e \in entries, Select(e) \/ Mark(e) PROVE Elsewhere
    BY <2>2 DEF Select, Mark, library, Elsewhere
  <2>3. ASSUME NEW id \in RunIds, Promote(id) \/ Delete(id) PROVE Elsewhere
    BY <2>3 DEF Promote, Delete, library, Elsewhere
  <2>4. ASSUME NEW n \in Names, PromoteAs(n) PROVE Elsewhere
    BY <2>4 DEF PromoteAs, library, Elsewhere
  <2>5. ASSUME NEW j \in jobs, Loaded(j) \/ DetailRead(j) \/ DetailFails(j) \/ DetailLoaded(j) \/ Done(j)
        PROVE  Elsewhere
    BY <2>5 DEF Loaded, DetailRead, DetailFails, DetailLoaded, Done, library, Elsewhere
  <2> QED  BY <1>2, <2>1, <2>2, <2>3, <2>4, <2>5 DEF RunsNext, TableNext, MarksNext, PromotionsNext
<1> QED  BY <1>1, <1>2

LEMMA RInvInit == RunsInit => RInv
BY DEF RunsInit, RInv, Baselines, OnePerName

LEMMA RInvStep == RInv /\ [RunsNext]_runsVars => RInv'
<1> SUFFICES ASSUME RInv, [RunsNext]_runsVars PROVE RInv'
  OBVIOUS
<1> USE DEF RInv, Baselines, OnePerName
<1>1. CASE Elsewhere \/ Record
  BY <1>1 DEF Elsewhere, Record
<1>2. ASSUME NEW b \in baselines, Loosen(b) PROVE RInv'
  <2> DEFINE l == [name |-> b.name, id |-> b.id, exact |-> FALSE]
  <2>2. baselines' = (baselines \ {b}) \cup {l}
    BY <1>2 DEF Loosen
  <2>3. l = [name |-> l.name, id |-> l.id, exact |-> l.exact] /\ l.exact \in BOOLEAN /\ l.name = b.name
    OBVIOUS
  <2> HIDE DEF l
  <2>4. Baselines'
    BY <2>2, <2>3
  <2>5. OnePerName'
    BY <2>2, <2>3
  <2> QED  BY <2>4, <2>5
<1>3. ASSUME NEW j \in jobs, PromoteRuns(j) PROVE RInv'
  <2> DEFINE p == [name |-> j.name, id |-> j.id, exact |-> Tolerance(j.name)]
  <2>1. Tolerance(j.name) \in BOOLEAN
    BY DEF Tolerance
  <2>2. baselines' = baselines \/ baselines' = (baselines \ Named(j.name)) \cup {p}
    BY <1>3 DEF PromoteRuns, Promoted
  <2> QED  BY <2>1, <2>2 DEF Named
<1>4. ASSUME NEW j \in jobs, DeleteRuns(j) PROVE RInv'
  BY <1>4 DEF DeleteRuns
<1> QED  BY <1>1, <1>2, <1>3, <1>4, OnlyTheseWrite

\* A step that gives a name to another run.
LEMMA KeepsStep ==
  ASSUME RInv, [RunsNext]_runsVars,
         NEW b \in baselines, NEW c \in baselines', b.name = c.name, b.id # c.id
  PROVE  b.exact = c.exact
<1> USE DEF RInv, Baselines, OnePerName
<1>1. CASE baselines' = baselines
  BY <1>1
<1>2. ASSUME NEW a \in baselines, Loosen(a) PROVE FALSE
  <2>2. c \in baselines \/ c = [name |-> a.name, id |-> a.id, exact |-> FALSE]
    BY <1>2 DEF Loosen
  <2> QED  BY <2>2
<1>3. ASSUME NEW j \in jobs, PromoteRuns(j) PROVE b.exact = c.exact
  <2>1. c \in baselines \/ c = [name |-> j.name, id |-> j.id, exact |-> Tolerance(j.name)]
    BY <1>3 DEF PromoteRuns, Promoted
  <2>2. ASSUME c = [name |-> j.name, id |-> j.id, exact |-> Tolerance(j.name)]
        PROVE  b.exact = c.exact
    <3>1. Named(j.name) = {b}
      BY <2>2 DEF Named
    <3> QED  BY <2>2, <3>1 DEF Tolerance
  <2> QED  BY <2>1, <2>2
<1> QED  BY <1>1, <1>2, <1>3, OnlyTheseWrite DEF Elsewhere, Record, DeleteRuns

LEMMA HeldStep == BaselinesHaveRuns /\ [RunsNext]_runsVars => BaselinesHaveRuns'
<1> SUFFICES ASSUME BaselinesHaveRuns, [RunsNext]_runsVars PROVE BaselinesHaveRuns'
  OBVIOUS
<1> USE DEF BaselinesHaveRuns, IdsOf
<1>1. CASE Elsewhere \/ Record
  BY <1>1 DEF Elsewhere, Record
<1>2. ASSUME NEW b \in baselines, Loosen(b) PROVE BaselinesHaveRuns'
  BY <1>2 DEF Loosen
<1>3. ASSUME NEW j \in jobs, PromoteRuns(j) PROVE BaselinesHaveRuns'
  BY <1>3 DEF PromoteRuns, Promoted
<1>4. ASSUME NEW j \in jobs, DeleteRuns(j) PROVE BaselinesHaveRuns'
  BY <1>4 DEF DeleteRuns, Deletable
<1> QED  BY <1>1, <1>2, <1>3, <1>4, OnlyTheseWrite


\* The screen of the runs: what is marked is listed, and who waits is owed an answer.
RunsInv == RInv /\ BaselinesHaveRuns /\ MarkedAreListed /\ DetailWasWanted /\ LoadingIsOwed

LEMMA RunsStart == RunsInit => RunsInv
BY DEF RunsInit, RunsInv, RInv, Baselines, OnePerName, BaselinesHaveRuns, MarkedAreListed, DetailWasWanted,
       LoadingIsOwed, IdsOf, None

LEMMA MarkedStep == MarkedAreListed /\ [RunsNext]_runsVars => MarkedAreListed'
<1> SUFFICES ASSUME MarkedAreListed, [RunsNext]_runsVars PROVE MarkedAreListed'
  OBVIOUS
<1> USE DEF MarkedAreListed
<1>1. CASE UNCHANGED <<entries, selected, against>>
  BY <1>1 DEF IdsOf
<1>2. CASE UNCHANGED runsVars
  BY <1>1, <1>2 DEF runsVars, panel
<1>3. CASE Record \/ Refresh \/ ListRead \/ ListFails \/ ToggleFailuresOnly
  BY <1>1, <1>3 DEF Record, Refresh, ListRead, ListFails, ToggleFailuresOnly, panel
<1>4. CASE ClearAgainst
  BY <1>4 DEF ClearAgainst, None, IdsOf
<1>5. ASSUME NEW e \in entries, Select(e) \/ Mark(e) PROVE MarkedAreListed'
  BY <1>5 DEF Select, Mark, None, IdsOf
<1>6. ASSUME NEW id \in RunIds, Promote(id) \/ Delete(id) PROVE MarkedAreListed'
  BY <1>1, <1>6 DEF Promote, Delete, panel
<1>7. ASSUME NEW n \in Names, PromoteAs(n) PROVE MarkedAreListed'
  BY <1>1, <1>7 DEF PromoteAs
<1>8. ASSUME NEW b \in baselines, Loosen(b) PROVE MarkedAreListed'
  BY <1>1, <1>8 DEF Loosen, panel
<1>9. ASSUME NEW j \in jobs, DetailRead(j) \/ DetailFails(j) \/ DetailLoaded(j) \/ Done(j) \/ PromoteRuns(j) \/ DeleteRuns(j)
      PROVE  MarkedAreListed'
  BY <1>1, <1>9 DEF DetailRead, DetailFails, DetailLoaded, Done, PromoteRuns, DeleteRuns, panel
<1>10. ASSUME NEW j \in jobs, Loaded(j) PROVE MarkedAreListed'
  <2>1. entries' = j.entries /\ selected' = Kept(selected, IdsOf(j.entries)) /\ against' = Kept(against, IdsOf(j.entries))
    BY <1>10 DEF Loaded
  <2> QED  BY <2>1 DEF Kept, IdsOf
<1> QED  BY <1>2, <1>3, <1>4, <1>5, <1>6, <1>7, <1>8, <1>9, <1>10 DEF RunsNext, TableNext, MarksNext, PromotionsNext

LEMMA WantedStep == DetailWasWanted /\ [RunsNext]_runsVars => DetailWasWanted'
<1> SUFFICES ASSUME DetailWasWanted, [RunsNext]_runsVars PROVE DetailWasWanted'
  OBVIOUS
<1> USE DEF DetailWasWanted
<1>1. CASE UNCHANGED detail \/ detail' = None
  BY <1>1 DEF None
<1>2. CASE UNCHANGED runsVars
  BY <1>1, <1>2 DEF runsVars, panel
<1>3. CASE Record \/ Refresh \/ ListRead \/ ListFails \/ ToggleFailuresOnly \/ ClearAgainst
  BY <1>1, <1>3 DEF Record, Refresh, ListRead, ListFails, ToggleFailuresOnly, ClearAgainst, panel
<1>4. ASSUME NEW e \in entries, Select(e) \/ Mark(e) PROVE DetailWasWanted'
  BY <1>1, <1>4 DEF Select, Mark
<1>5. ASSUME NEW id \in RunIds, Promote(id) \/ Delete(id) PROVE DetailWasWanted'
  BY <1>1, <1>5 DEF Promote, Delete, panel
<1>6. ASSUME NEW n \in Names, PromoteAs(n) PROVE DetailWasWanted'
  BY <1>1, <1>6 DEF PromoteAs
<1>7. ASSUME NEW b \in baselines, Loosen(b) PROVE DetailWasWanted'
  BY <1>1, <1>7 DEF Loosen, panel
<1>8. ASSUME NEW j \in jobs, DetailRead(j) \/ DetailFails(j) \/ Loaded(j) \/ Done(j) \/ PromoteRuns(j) \/ DeleteRuns(j)
      PROVE  DetailWasWanted'
  BY <1>1, <1>8 DEF DetailRead, DetailFails, Loaded, Done, PromoteRuns, DeleteRuns, panel
<1>9. ASSUME NEW j \in jobs, DetailLoaded(j) PROVE DetailWasWanted'
  BY <1>9 DEF DetailLoaded, Mine
<1> QED  BY <1>2, <1>3, <1>4, <1>5, <1>6, <1>7, <1>8, <1>9 DEF RunsNext, TableNext, MarksNext, PromotionsNext

\* An answer is awaited, and it is the answers to the read of the list that end the wait.
LEMMA OwedStep == LoadingIsOwed /\ [RunsNext]_runsVars => LoadingIsOwed'
<1> SUFFICES ASSUME LoadingIsOwed, [RunsNext]_runsVars PROVE LoadingIsOwed'
  OBVIOUS
<1> USE DEF LoadingIsOwed
<1>1. CASE UNCHANGED loading /\ jobs \subseteq jobs'
  BY <1>1
<1>2. CASE UNCHANGED runsVars
  BY <1>1, <1>2 DEF runsVars
<1>3. CASE Record \/ ToggleFailuresOnly \/ ClearAgainst
  BY <1>1, <1>3 DEF Record, ToggleFailuresOnly, ClearAgainst
<1> DEFINE read == [kind |-> "list"]
<1>4. CASE Refresh
  <2>1. read \in jobs' /\ read.kind = "list"
    BY <1>4 DEF Refresh
  <2> HIDE DEF read
  <2> QED  BY <2>1
<1>5. CASE ListRead
  <2>1. History \in jobs' /\ History.kind = "history"
    BY <1>5 DEF ListRead, History
  <2> QED  BY <2>1
<1>6. CASE ListFails
  BY <1>6 DEF ListFails
<1>7. ASSUME NEW e \in entries, Select(e) \/ Mark(e) PROVE LoadingIsOwed'
  BY <1>1, <1>7 DEF Select, Mark
<1>8. ASSUME NEW id \in RunIds, Promote(id) \/ Delete(id) PROVE LoadingIsOwed'
  BY <1>1, <1>8 DEF Promote, Delete
<1>9. ASSUME NEW n \in Names, PromoteAs(n) PROVE LoadingIsOwed'
  BY <1>1, <1>9 DEF PromoteAs
<1>10. ASSUME NEW b \in baselines, Loosen(b) PROVE LoadingIsOwed'
  BY <1>1, <1>10 DEF Loosen
<1>11. ASSUME NEW j \in jobs, Loaded(j) \/ Done(j) PROVE LoadingIsOwed'
  <2>1. CASE Loaded(j)
    BY <2>1 DEF Loaded
  <2>2. CASE Done(j)
    <3>1. Reread \in jobs' /\ Reread.kind = "list"
      BY <2>2 DEF Done, Again, Reread
    <3> QED  BY <3>1
  <2> QED  BY <1>11, <2>1, <2>2
<1>12. ASSUME NEW j \in jobs, DetailRead(j) \/ DetailFails(j) \/ DetailLoaded(j) \/ PromoteRuns(j) \/ DeleteRuns(j)
       PROVE  LoadingIsOwed'
  <2>1. /\ j.kind \notin {"list", "history"} /\ loading' = loading
        /\ jobs \ {j} \subseteq jobs'
    BY <1>12 DEF DetailRead, DetailFails, DetailLoaded, PromoteRuns, DeleteRuns
  <2> QED  BY <2>1
<1> QED  BY <1>2, <1>3, <1>4, <1>5, <1>6, <1>7, <1>8, <1>9, <1>10, <1>11, <1>12
            DEF RunsNext, TableNext, MarksNext, PromotionsNext

LEMMA RunsKeep == RunsInv /\ [RunsNext]_runsVars => RunsInv'
BY RInvStep, HeldStep, MarkedStep, WantedStep, OwedStep DEF RunsInv

\* Whatever is promoted on the Runs screen, deleted and loosened meanwhile: a name that
\* is given to another run is compared as before (runs.rs Promote, sp-store regress.rs
\* promote).
THEOREM PromotionIsFaithful == RunsSpec => PromotionKeepsTolerances
<1>1. RInv /\ [RunsNext]_runsVars
        => [\A b \in baselines, c \in baselines' : b.name = c.name /\ b.id # c.id => b.exact = c.exact]_runsVars
  BY KeepsStep
<1> QED  BY <1>1, RInvInit, RInvStep, PTL DEF RunsSpec, PromotionKeepsTolerances

\* In whichever order a promotion and a deletion run: a run a baseline names is
\* there (sp-store runs.rs delete_run, regress.rs promote).
THEOREM BaselinesKeepTheirRuns == RunsSpec => []BaselinesHaveRuns
<1>1. RunsInit => BaselinesHaveRuns
  BY DEF RunsInit, BaselinesHaveRuns, IdsOf
<1> QED  BY <1>1, HeldStep, PTL DEF RunsSpec

-----------------------------------------------------------------------------
(* Keys and the window.  An action that answers a key is one of those asked for,  *)
(* whatever keys are bound; what was pressed is read back from what was written.  *)

LEMMA LeastPlace ==
  ASSUME NEW S \in SUBSET Nat, S # {}
  PROVE  \E m \in S : \A n \in S : m <= n
<1>1. PICK m \in S : \A n \in S : ~(<<n, m>> \in OpToRel(<, Nat))
  BY NatLessThanWellFounded, WFMin
<1>2. \A n \in S : ~(n < m)
  BY <1>1 DEF OpToRel
<1> QED  BY <1>2

Verb(s, i) == <<s, Window!Verbs[s][i]>>
ActionNames == {<<"Global", n>> : n \in Window!ScreenNames \cup {"OpenPalette", "ToggleTheme"}}
               \cup {Verb(s, i) : s \in Window!ScreenNames, i \in Nat}

LEMMA ScreensNamed ==
  Window!ScreenNames = {"Library", "Inspector", "Properties", "Import", "Generate",
                      "Pipeline", "Results", "Runs", "Scope", "Settings"}
<1>1. Window!ScreenNames = {Window!AllScreens[i] : i \in 1 .. 10}
  BY DEF Window!ScreenNames, Window!AllScreens, Window!ToSet
<1>2. \A i \in 1 .. 10 : i \in {1, 2, 3, 4, 5, 6, 7, 8, 9, 10}
  OBVIOUS
<1> QED  BY <1>1, <1>2 DEF Window!AllScreens

LEMMA VerbsAreListed == \A s \in Window!ScreenNames : Len(Window!Verbs[s]) \in Nat
BY ScreensNamed DEF Window!Verbs

LEMMA ScreensListed == \A s \in Window!ScreenNames : Window!ActionsOf(s) \in Seq(ActionNames)
<1> SUFFICES ASSUME NEW s \in Window!ScreenNames PROVE Window!ActionsOf(s) \in Seq(ActionNames)
  OBVIOUS
<1>1. PICK n \in Nat : n = Len(Window!Verbs[s])
  BY VerbsAreListed
<1>2. PICK f : f = [i \in 1 .. n |-> Verb(s, i)]
  OBVIOUS
<1>3. f \in [1 .. n -> ActionNames]
  BY <1>2 DEF ActionNames
<1>4. f \in Seq(ActionNames)
  BY <1>3, SeqDef
<1>5. Window!ActionsOf(s) = f
  BY <1>1, <1>2 DEF Window!ActionsOf, Verb
<1> QED  BY <1>4, <1>5

LEMMA ActionsListed == Window!AllActions \in Seq(ActionNames)
<1> DEFINE first == <<Window!OpenPalette, Window!ToggleTheme>>
           second == [i \in 1 .. 10 |-> Window!Navigate(Window!AllScreens[i])]
<1>1. first \in Seq(ActionNames)
  <2>1. Window!OpenPalette \in ActionNames /\ Window!ToggleTheme \in ActionNames
    BY DEF Window!OpenPalette, Window!ToggleTheme, ActionNames
  <2> QED  BY <2>1
<1>2. second \in Seq(ActionNames)
  <2>1. \A i \in 1 .. 10 : Window!AllScreens[i] \in Window!ScreenNames
    BY DEF Window!ScreenNames, Window!AllScreens, Window!ToSet
  <2>2. second \in [1 .. 10 -> ActionNames]
    BY <2>1 DEF Window!Navigate, ActionNames
  <2> HIDE DEF second
  <2> QED  BY <2>2, SeqDef
<1>3. \A s, t : s \in Seq(ActionNames) /\ t \in Seq(ActionNames) => s \o t \in Seq(ActionNames)
  OBVIOUS
<1> HIDE DEF first, second
<1>4. first \o second \in Seq(ActionNames)
  BY <1>1, <1>2, <1>3
<1>5. /\ Window!ActionsOf("Library") \in Seq(ActionNames) /\ Window!ActionsOf("Inspector") \in Seq(ActionNames)
      /\ Window!ActionsOf("Properties") \in Seq(ActionNames) /\ Window!ActionsOf("Import") \in Seq(ActionNames)
      /\ Window!ActionsOf("Generate") \in Seq(ActionNames) /\ Window!ActionsOf("Pipeline") \in Seq(ActionNames)
      /\ Window!ActionsOf("Results") \in Seq(ActionNames) /\ Window!ActionsOf("Runs") \in Seq(ActionNames)
      /\ Window!ActionsOf("Scope") \in Seq(ActionNames) /\ Window!ActionsOf("Settings") \in Seq(ActionNames)
  BY ScreensNamed, ScreensListed
<1> QED  BY <1>3, <1>4, <1>5 DEF first, second, Window!AllActions

\* The action that is found for a key is one of those that answer it.
LEMMA FirstIsOf ==
  ASSUME NEW S, Window!FirstOf(S) # Window!NoAction
  PROVE  Window!FirstOf(S) \in S
<1> DEFINE at == {i \in DOMAIN Window!AllActions : Window!AllActions[i] \in S}
<1>1. at \in SUBSET Nat
  <2>1. DOMAIN Window!AllActions = 1 .. Len(Window!AllActions) /\ Len(Window!AllActions) \in Nat
    BY ActionsListed, LenProperties
  <2> QED  BY <2>1
<1>2. Window!FirstOf(S) = IF at = {} THEN Window!NoAction ELSE Window!AllActions[CHOOSE i \in at : \A j \in at : i <= j]
  BY DEF Window!FirstOf, Window!FirstAt
<1>3. \A i \in at : Window!AllActions[i] \in S
  OBVIOUS
<1> HIDE DEF at
<1>4. PICK i \in at : \A j \in at : i <= j
  BY <1>1, <1>2, LeastPlace
<1> QED  BY <1>2, <1>3, <1>4

LEMMA AnsweringBelongs ==
  ASSUME NEW c, NEW s, NEW o, Window!ActionFor(c, s, o) # Window!NoAction
  PROVE  /\ Window!ActionFor(c, s, o) \in Window!ActionSet
         /\ Window!ScreenOf(Window!ActionFor(c, s, o)) \in {s, "Global"}
         /\ Window!ChordIn(Window!ActionFor(c, s, o), o) = c
<1> DEFINE Of(at) == {a \in Window!ActionSet : Window!ScreenOf(a) = at /\ Window!ChordIn(a, o) = c}
<1>1. \A at : Window!Answering(c, at, o) = Window!FirstOf(Of(at))
  BY DEF Window!Answering
<1>2. \A at : \A a \in Of(at) : a \in Window!ActionSet /\ Window!ScreenOf(a) = at /\ Window!ChordIn(a, o) = c
  OBVIOUS
<1> HIDE DEF Of
<1>3. \/ Window!ActionFor(c, s, o) \in Of(s)
      \/ Window!ActionFor(c, s, o) \in Of("Global")
  BY <1>1, FirstIsOf DEF Window!ActionFor, Window!OrElse
<1> QED  BY <1>2, <1>3

\* A key that is not taken for a rebinding runs what it is bound to, or nothing.
LEMMA KeyRuns ==
  ASSUME NEW c, Window!OnKey(c), ~palette.open, ran' # Window!Idle
  PROVE  /\ Window!ScreenOf(ran') \in {screen, "Global"}
         /\ ~(screen = "Settings" /\ rebinding # Window!NoAction)
         /\ ~(screen = "Scope" /\ typing /\ Window!IsTypeable(c))
<1>1. ~(screen = "Settings" /\ rebinding # Window!NoAction)
  BY DEF Window!OnKey, Window!Captured
<1>2. PICK a : a = Window!ActionFor(c, screen, windowOverrides)
  OBVIOUS
<1>3. /\ Window!IsTypeable(c) => Window!AcceptsTypeable
      /\ a # Window!NoAction /\ ran' = a
  BY <1>1, <1>2 DEF Window!OnKey, Window!Mapped, Window!RunIf, Window!Still, Window!Run
<1>4. Window!ScreenOf(a) \in {screen, "Global"}
  BY <1>2, <1>3, AnsweringBelongs
<1> QED  BY <1>1, <1>3, <1>4 DEF Window!AcceptsTypeable

LEMMA WindowKeysBelong == Window!KeysBelong
BY KeyRuns DEF Window!KeysBelong, Window!Press

\* What moves on the window: a file at a time.
HintInv == drag \in Nat /\ hovering \in Nat /\ hovering <= drag

LEMMA HintStarts == Window!ShellInit => HintInv
BY DEF Window!ShellInit, HintInv

\* A binding is changed where keys are bound, or by the command that resets them.
BoundWhereBound == windowOverrides' # windowOverrides => screen = "Settings" \/ ran' = <<"Settings", "ResetKeymap">>

LEMMA RunBinds ==
  ASSUME NEW a, Window!Run(a)
  PROVE  BoundWhereBound
BY DEF Window!Run, BoundWhereBound

LEMMA ChosenBinds ==
  ASSUME NEW p, NEW e, Window!Chosen(p, e)
  PROVE  BoundWhereBound
BY DEF Window!Chosen, Window!Resets, BoundWhereBound

LEMMA KeyBinds ==
  ASSUME NEW c, Window!OnKey(c)
  PROVE  BoundWhereBound
<1>1. CASE screen = "Settings" /\ rebinding # Window!NoAction
  BY <1>1 DEF BoundWhereBound
<1>2. CASE ~(screen = "Settings" /\ rebinding # Window!NoAction) /\ palette.open
  <2>1. Window!PaletteKey(c)
    BY <1>2 DEF Window!OnKey
  <2>2. Window!Still => BoundWhereBound
    BY DEF Window!Still, BoundWhereBound
  <2>3. \/ Window!Still \/ Window!Run(Window!OpenPalette)
        \/ \E p, e : Window!Chosen(p, e)
    BY <2>1, Zenon DEF Window!PaletteKey
  <2> QED  BY <2>2, <2>3, RunBinds, ChosenBinds
<1>3. CASE ~(screen = "Settings" /\ rebinding # Window!NoAction) /\ ~palette.open
  <2>1. Window!Still \/ Window!Run(Window!ActionFor(c, screen, windowOverrides))
    BY <1>3 DEF Window!OnKey, Window!Mapped, Window!RunIf
  <2> QED  BY <2>1, RunBinds DEF Window!Still, BoundWhereBound
<1> QED  BY <1>1, <1>2, <1>3

\* What does not come from the files over the window leaves them, and keeps the keys.
WindowKeeps == UNCHANGED <<hovering, drag>> /\ BoundWhereBound

LEMMA AroundKeeps ==
  ASSUME Window!Around \/ (\E c \in ShellChords : Window!Press(c))
         \/ (\E a \in ShellBound : Window!Rebind(a) \/ Window!Clear(a))
         \/ (\E s \in Window!ScreenNames : Window!Button(Window!Navigate(s)))
         \/ Window!Button(Window!OpenPalette) \/ Window!Button(Window!ToggleTheme)
         \/ Window!FilterTyped \/ Window!Inspect \/ Window!OpenRun \/ Window!Listed \/ Window!OpenLibrary
  PROVE  WindowKeeps
<1>1. ASSUME NEW a, Window!Button(a) PROVE WindowKeeps
  BY <1>1, RunBinds DEF Window!Button, Window!Away, WindowKeeps
<1>2. ASSUME NEW c, Window!Press(c) PROVE WindowKeeps
  BY <1>2, KeyBinds DEF Window!Press, Window!Away, WindowKeeps
<1>3. ASSUME NEW a, Window!Rebind(a) \/ Window!Clear(a) PROVE WindowKeeps
  BY <1>3 DEF Window!Rebind, Window!Clear, Window!Away, WindowKeeps, BoundWhereBound
<1>4. CASE Window!FilterTyped \/ Window!Inspect \/ Window!OpenRun \/ Window!Listed \/ Window!OpenLibrary
  BY <1>4 DEF Window!FilterTyped, Window!Inspect, Window!OpenRun, Window!Listed, Window!OpenLibrary,
              Window!Away, WindowKeeps, BoundWhereBound
<1>5. CASE Window!Around
  BY <1>1, <1>5 DEF Window!Around
<1> QED  BY <1>1, <1>2, <1>3, <1>4, <1>5

LEMMA PaletteKeeps ==
  ASSUME \/ \E q \in Queries : Window!PaletteType(q)
         \/ \E r \in 0 .. (VISIBLE - 1) : Window!PalettePick(r)
  PROVE  WindowKeeps
BY ChosenBinds DEF Window!PaletteType, Window!PalettePick, Window!Away, WindowKeeps

LEMMA WindowKeepsHint ==
  ASSUME HintInv, Window!KeysNext \/ Window!PaletteNext \/ Window!DragNext \/ UNCHANGED WindowVars
  PROVE  HintInv' /\ BoundWhereBound
<1>1. CASE UNCHANGED WindowVars
  BY <1>1 DEF WindowVars, HintInv, BoundWhereBound
<1>2. CASE WindowKeeps
  BY <1>2 DEF WindowKeeps, HintInv
<1>3. CASE Window!FileHovered \/ Window!FileDropped \/ Window!FilesHoveredLeft
  BY <1>3 DEF Window!FileHovered, Window!FileDropped, Window!FilesHoveredLeft, Window!Dropped, HintInv, BoundWhereBound
<1>4. CASE Window!KeysNext
  BY <1>2, <1>4, AroundKeeps DEF Window!KeysNext
<1>5. CASE Window!PaletteNext
  BY <1>2, <1>5, AroundKeeps, PaletteKeeps DEF Window!PaletteNext
<1>6. CASE Window!DragNext
  BY <1>2, <1>3, <1>6, AroundKeeps DEF Window!DragNext
<1> QED  BY <1>1, <1>4, <1>5, <1>6

LEMMA HintShows == HintInv => Window!HintSettles
BY DEF HintInv, Window!HintSettles

-----------------------------------------------------------------------------
(* The writer's queue, which the forms append to and the writer takes from.        *)

IsQueue(q) == Len(q) \in Nat /\ q = [i \in 1 .. Len(q) |-> q[i]]

LEMMA NoWrites == IsQueue(<<>>) /\ DOMAIN <<>> = {}
BY DEF IsQueue

LEMMA QueueIsSeq ==
  ASSUME NEW q, IsQueue(q)
  PROVE  q \in Seq({q[i] : i \in DOMAIN q})
<1> DEFINE S == {q[i] : i \in DOMAIN q}
<1>1. \A i \in 1 .. Len(q) : q[i] \in S
  BY DEF IsQueue
<1>2. [i \in 1 .. Len(q) |-> q[i]] \in [1 .. Len(q) -> S]
  BY <1>1
<1> QED  BY <1>2, SeqDef DEF IsQueue

LEMMA Queued ==
  ASSUME NEW q, NEW w, IsQueue(q)
  PROVE  /\ IsQueue(Append(q, w))
         /\ \A i \in DOMAIN Append(q, w) : Append(q, w)[i] = w \/ (i \in DOMAIN q /\ Append(q, w)[i] = q[i])
         /\ \A i \in DOMAIN q : i \in DOMAIN Append(q, w) /\ Append(q, w)[i] = q[i]
         /\ \E i \in DOMAIN Append(q, w) : Append(q, w)[i] = w
<1> DEFINE S == {q[i] : i \in DOMAIN q} \cup {w}
<1>1. q \in Seq({q[i] : i \in DOMAIN q})
  BY QueueIsSeq
<1>2. q \in Seq(S)
  BY <1>1, SeqDef
<1>3. w \in S
  OBVIOUS
<1> HIDE DEF S
<1> DEFINE p == Append(q, w)
<1>4. /\ p \in Seq(S) /\ Len(p) = Len(q) + 1
      /\ \A i \in 1 .. Len(q) : p[i] = q[i]
      /\ p[Len(q) + 1] = w
  BY <1>2, <1>3, AppendProperties
<1>5. /\ Len(p) \in Nat /\ p \in [1 .. Len(p) -> S] /\ DOMAIN p = 1 .. Len(p)
      /\ Len(q) \in Nat /\ DOMAIN q = 1 .. Len(q)
  BY <1>2, <1>4, LenProperties
<1> HIDE DEF p
<1>6. p = [i \in 1 .. Len(p) |-> p[i]]
  BY <1>5
<1>7. /\ \A i \in DOMAIN p : p[i] = w \/ (i \in DOMAIN q /\ p[i] = q[i])
      /\ \A i \in DOMAIN q : i \in DOMAIN p /\ p[i] = q[i]
      /\ Len(q) + 1 \in DOMAIN p
  BY <1>4, <1>5
<1> QED  BY <1>4, <1>5, <1>6, <1>7 DEF IsQueue, p

LEMMA Dequeued ==
  ASSUME NEW q, IsQueue(q), q # <<>>
  PROVE  /\ IsQueue(Tail(q)) /\ 1 \in DOMAIN q /\ Head(q) = q[1]
         /\ \A i \in DOMAIN Tail(q) : i + 1 \in DOMAIN q /\ Tail(q)[i] = q[i + 1]
         /\ \A i \in DOMAIN q : i # 1 => i - 1 \in DOMAIN Tail(q) /\ Tail(q)[i - 1] = q[i]
<1> DEFINE S == {q[i] : i \in DOMAIN q}
<1>1. q \in Seq(S)
  BY QueueIsSeq
<1> HIDE DEF S
<1> DEFINE p == Tail(q)
<1>2. /\ p \in Seq(S) /\ Len(p) = Len(q) - 1
      /\ \A i \in 1 .. Len(p) : p[i] = q[i + 1]
  BY <1>1, HeadTailProperties
<1>3. /\ Len(p) \in Nat /\ p \in [1 .. Len(p) -> S] /\ DOMAIN p = 1 .. Len(p)
      /\ Len(q) \in Nat \ {0} /\ DOMAIN q = 1 .. Len(q)
  BY <1>1, <1>2, LenProperties, EmptySeq
<1>4. Head(q) = q[1]
  BY <1>1
<1> HIDE DEF p
<1>5. p = [i \in 1 .. Len(p) |-> p[i]]
  BY <1>3
<1>6. /\ \A i \in DOMAIN p : i + 1 \in DOMAIN q /\ p[i] = q[i + 1]
      /\ \A i \in DOMAIN q : i # 1 => i - 1 \in DOMAIN p /\ p[i - 1] = q[i]
      /\ 1 \in DOMAIN q
  BY <1>2, <1>3
<1> QED  BY <1>3, <1>4, <1>5, <1>6 DEF IsQueue, p

-----------------------------------------------------------------------------
(* The form that declares a property.  Everything declared went through a write,  *)
(* and every write was made of a complete form.                                    *)

\* A definition made of a complete form.
OfForm(d) == d.kind.min = {} /\ d.key # "" /\ d.default = Props!Null

Posted == /\ IsQueue(propsWrites)
          /\ \A i \in DOMAIN propsWrites : /\ propsWrites[i].do \in {"insert", "delete"}
                                           /\ propsWrites[i].do = "insert" => OfForm(propsWrites[i].def)
Formed == \A d \in declared : OfForm(d)
PropsInv == Posted /\ Formed /\ Props!KeysAreSound /\ Props!BusyIsOwed

LEMMA DeclaredStay ==
  ASSUME Formed, Props!KeysAreSound, declared' = declared
  PROVE  Formed' /\ Props!KeysAreSound'
BY DEF Formed, Props!KeysAreSound

LEMMA PropsStarts == Props!PropInit => PropsInv
BY NoWrites DEF Props!PropInit, PropsInv, Posted, Formed, Props!KeysAreSound, Props!BusyIsOwed

LEMMA FormIsOfAForm ==
  ASSUME Props!Complete(form)
  PROVE  OfForm(Props!ToDef(form))
BY DEF Props!Complete, OfForm, Props!ToDef, Props!ToKind, Props!Kind

LEMMA EditKeeps ==
  ASSUME PropsInv, NEW f, Props!Edit(f)
  PROVE  PropsInv'
BY DEF PropsInv, Posted, Formed, Props!Edit, Props!KeysAreSound, Props!BusyIsOwed

LEMMA SubmitKeeps ==
  ASSUME PropsInv, Props!Submit
  PROVE  PropsInv'
<1>1. CASE UNCHANGED propsWrites /\ UNCHANGED <<declared, propsBusy, propsAnswers>>
  BY <1>1 DEF PropsInv, Posted, Formed, Props!KeysAreSound, Props!Same, Props!BusyIsOwed
<1>2. CASE /\ Props!Complete(form) /\ propsBusy'
           /\ propsWrites' = Append(propsWrites, [do |-> "insert", def |-> Props!ToDef(form)])
           /\ UNCHANGED <<declared, form, propsListed, propsNotice, propsAnswers>>
  <2> DEFINE w == [do |-> "insert", def |-> Props!ToDef(form)]
  <2>1. OfForm(w.def) /\ w.do = "insert"
    BY <1>2, FormIsOfAForm
  <2>2. propsWrites' = Append(propsWrites, w)
    BY <1>2
  <2> HIDE DEF w
  <2>3. /\ IsQueue(propsWrites')
        /\ \A i \in DOMAIN propsWrites' : propsWrites'[i] = w \/ (i \in DOMAIN propsWrites /\ propsWrites'[i] = propsWrites[i])
        /\ \E i \in DOMAIN propsWrites' : propsWrites'[i] = w
    BY <2>2, Queued DEF PropsInv, Posted, Formed
  <2>4. Posted'
    BY <2>1, <2>3 DEF PropsInv, Posted, Formed
  <2>5. Props!BusyIsOwed'
    BY <2>1, <2>3 DEF Props!BusyIsOwed
  <2>6. declared' = declared
    BY <1>2
  <2> QED  BY <2>4, <2>5, <2>6, DeclaredStay DEF PropsInv
<1> QED  BY <1>1, <1>2 DEF Props!Submit

LEMMA DeleteKeeps ==
  ASSUME PropsInv, NEW d, Props!Delete(d)
  PROVE  PropsInv'
<1> DEFINE w == [do |-> "delete", def |-> d]
<1>1. w.do = "delete"
  OBVIOUS
<1>2. propsWrites' = Append(propsWrites, w) /\ UNCHANGED <<declared, propsBusy, propsAnswers>>
  BY DEF Props!Delete
<1> HIDE DEF w
<1>3. /\ IsQueue(propsWrites')
      /\ \A i \in DOMAIN propsWrites' : propsWrites'[i] = w \/ (i \in DOMAIN propsWrites /\ propsWrites'[i] = propsWrites[i])
      /\ \A i \in DOMAIN propsWrites : i \in DOMAIN propsWrites' /\ propsWrites'[i] = propsWrites[i]
  BY <1>2, Queued DEF PropsInv, Posted, Formed
<1>4. Posted'
  BY <1>1, <1>3 DEF PropsInv, Posted, Formed
<1>5. Props!BusyIsOwed'
  BY <1>2, <1>3 DEF Props!BusyIsOwed, PropsInv
<1> QED  BY <1>2, <1>4, <1>5, DeclaredStay DEF PropsInv

LEMMA PropsWriteKeeps ==
  ASSUME PropsInv, Props!Write
  PROVE  PropsInv'
<1> DEFINE w == Head(propsWrites)
           ok == w.do = "insert" => Props!Insertable(w.def)
<1>1. propsWrites # <<>> /\ propsWrites' = Tail(propsWrites) /\ propsBusy' = propsBusy
  BY DEF Props!Write
<1>2. declared' = CASE w.do = "delete" -> {e \in declared : ~Props!Same(e, w.def)}
                    [] w.do = "insert" /\ ok -> declared \cup {w.def}
                    [] OTHER -> declared
  BY DEF Props!Write
<1>3. propsAnswers' = propsAnswers \cup {[kind |-> w.do, ok |-> ok, key |-> w.def.key]}
  BY DEF Props!Write
<1>4. /\ IsQueue(propsWrites') /\ 1 \in DOMAIN propsWrites /\ w = propsWrites[1]
      /\ \A i \in DOMAIN propsWrites' : i + 1 \in DOMAIN propsWrites /\ propsWrites'[i] = propsWrites[i + 1]
      /\ \A i \in DOMAIN propsWrites : i # 1 => i - 1 \in DOMAIN propsWrites' /\ propsWrites'[i - 1] = propsWrites[i]
  BY <1>1, Dequeued DEF PropsInv, Posted, Formed
<1>5. Posted'
  BY <1>4 DEF PropsInv, Posted, Formed
<1>6. w.do \in {"insert", "delete"} /\ (w.do = "insert" => OfForm(w.def))
  BY <1>4 DEF PropsInv, Posted, Formed
<1>7. CASE w.do = "delete"
  <2>1. declared' = {e \in declared : ~Props!Same(e, w.def)}
    BY <1>2, <1>7, Zenon
  <2>2. Props!BusyIsOwed'
    BY <1>1, <1>3, <1>4, <1>7 DEF Props!BusyIsOwed, PropsInv
  <2> QED  BY <1>4, <1>5, <2>1, <2>2 DEF PropsInv, Posted, Formed, Props!KeysAreSound, Props!Same
<1>8. CASE w.do = "insert"
  <2>1. Props!BusyIsOwed'
    <3>1. PICK a : a = [kind |-> w.do, ok |-> ok, key |-> w.def.key]
      OBVIOUS
    <3>2. a \in propsAnswers' /\ a.kind = "insert"
      BY <1>3, <1>8, <3>1
    <3> QED  BY <3>2 DEF Props!BusyIsOwed
  <2>2. declared' = declared \/ (Props!Insertable(w.def) /\ declared' = declared \cup {w.def})
    <3>1. CASE ok
      BY <1>2, <1>8, <3>1, Zenon
    <3>2. CASE ~ok
      BY <1>2, <1>8, <3>2, Zenon
    <3> QED  BY <3>1, <3>2
  <2>3. \A d \in declared' : OfForm(d) /\ d.snake /\ d.key # ""
    BY <1>6, <1>8, <2>2 DEF PropsInv, Posted, Formed, Props!KeysAreSound, Props!Same, Props!Insertable, OfForm
  <2>4. \A d, e \in declared' : Props!Same(d, e) => d = e
    BY <2>2 DEF PropsInv, Posted, Formed, Props!KeysAreSound, Props!Same, Props!Insertable, Props!Same
  <2> QED  BY <1>4, <1>5, <2>1, <2>3, <2>4 DEF PropsInv, Posted, Formed, Props!KeysAreSound, Props!Same
<1> QED  BY <1>6, <1>7, <1>8

\* An answer taken: a save's, once taken, owes no other.
LEMMA PropsAnswerKeeps ==
  ASSUME PropsInv, NEW a, Props!Saved(a) \/ Props!Deleted(a) \/ Props!Loaded(a)
  PROVE  PropsInv'
<1>1. UNCHANGED <<declared, propsWrites>>
  BY DEF Props!Saved, Props!Deleted, Props!Loaded
<1>2. Props!BusyIsOwed'
  <2>1. CASE Props!Saved(a)
    BY <2>1 DEF Props!Saved, Props!Settled, Props!BusyIsOwed
  <2>2. CASE Props!Deleted(a) \/ Props!Loaded(a)
    <3>1. propsBusy' = propsBusy /\ \A b \in propsAnswers : b.kind = "insert" => b \in propsAnswers'
      BY <2>2 DEF Props!Deleted, Props!Loaded
    <3> QED  BY <1>1, <3>1 DEF Props!BusyIsOwed, PropsInv
  <2> QED  BY <2>1, <2>2
<1> QED  BY <1>1, <1>2 DEF PropsInv, Posted, Formed, Props!KeysAreSound, Props!Same

LEMMA PropsKeeps ==
  ASSUME PropsInv, Props!PropNext \/ UNCHANGED PropsVars
  PROVE  PropsInv'
<1>1. CASE UNCHANGED PropsVars
  BY <1>1, DeclaredStay DEF PropsVars, PropsInv, Posted, Props!BusyIsOwed
<1>2. CASE Props!PropNext
  BY <1>2, EditKeeps, SubmitKeeps, PropsWriteKeeps, DeleteKeeps, PropsAnswerKeeps
  DEF Props!PropNext, Props!KeyChanged, Props!LabelChanged, Props!VariantsChanged,
      Props!ScopePicked, Props!KindPicked, Props!RequiredToggled
<1> QED  BY <1>1, <1>2

\* What a text is, and the values a text can be read as.
LEMMA TextIs ==
  ASSUME NEW raw \in Props!Texts(PropWords)
  PROVE  /\ raw.is \in {"whole", "fraction"} => raw.n \in Int
         /\ raw # Props!Empty => raw.is # "empty"
         /\ raw.is \in {"empty", "nonfinite", "whole", "fraction", "truth", "word"}
BY DEF Props!Texts, Props!Empty

LEMMA NullIsNotRefused == Props!Null # Props!Refused /\ Props!Null.json = "null" /\ Props!Refused.json = "refused"
<1>1. Props!Null.json = "null" /\ Props!Refused.json = "refused"
  BY DEF Props!Null, Props!Refused
<1> QED  BY <1>1

LEMMA KindsApart ==
  \A n : /\ n \in Props!Numbers => n \notin Props!Integral /\ n # "bool"
         /\ n \in Props!Integral => n # "bool"
BY DEF Props!Numbers, Props!Integral

\* What is accepted was valid.
LEMMA AcceptedIsValid ==
  ASSUME NEW def, NEW raw, Props!Parse(def, raw) # Props!Refused
  PROVE  /\ Props!Valid(def, Props!Parse(def, raw))
         /\ raw # Props!Empty => Props!Parse(def, raw) = Props!Read(def, raw)
<1> DEFINE x == IF raw = Props!Empty THEN def.default ELSE Props!Read(def, raw)
<1>1. Props!Parse(def, raw) = IF x # Props!Refused /\ Props!Valid(def, x) THEN x ELSE Props!Refused
  BY DEF Props!Parse, Props!Accepted
<1>2. x # Props!Refused /\ Props!Valid(def, x) /\ Props!Parse(def, raw) = x
  BY <1>1
<1> QED  BY <1>2

LEMMA NullIsOptional ==
  ASSUME NEW def, Props!Valid(def, Props!Null)
  PROVE  ~def.required
BY DEF Props!Valid

LEMMA NumbersAreNumbers ==
  ASSUME NEW def, OfForm(def), NEW raw \in Props!Texts(PropWords), raw # Props!Empty,
         def.kind.name \in Props!Numbers,
         Props!Read(def, raw) # Props!Refused, Props!Valid(def, Props!Read(def, raw))
  PROVE  /\ Props!Read(def, raw).json \in {"number", "null"}
         /\ def.kind.name \in {"freq_hz", "duration_s"} => ~Props!Negative(Props!Read(def, raw))
<1> DEFINE v == Props!Read(def, raw)
<1>1. v = Props!AsNumber(raw)
  BY KindsApart, Zenon DEF Props!Read
<1>2. CASE raw.is \in {"whole", "fraction"}
  <2>1. v = [json |-> "number", n |-> raw.n]
    BY <1>1, <1>2, Zenon DEF Props!AsNumber, Props!Num
  <2>2. v.json = "number" /\ v.n = raw.n /\ v # Props!Null
    BY <2>1 DEF Props!Null
  <2> HIDE DEF v
  <2>3. ASSUME def.kind.name \in {"freq_hz", "duration_s"} PROVE ~Props!Negative(v)
    <3>1. Props!Floor(def.kind) = {0}
      <4>1. def.kind.min = {}
        BY DEF OfForm
      <4> QED  BY <2>3, <4>1 DEF Props!Floor
    <3>2. Props!Within(v.n, Props!Floor(def.kind), def.kind.max)
      <4>1. /\ def.kind.name # "ratio" /\ def.kind.name \in Props!Numbers \ {"ratio"}
        BY <2>3 DEF Props!Numbers
      <4>2. Props!Valid(def, v)
        BY DEF v
      <4> QED  BY <2>2, <4>1, <4>2, Zenon DEF Props!Valid
    <3>3. v.n \in Int
      BY <1>2, <2>2, TextIs
    <3>4. v.n >= 0
      BY <3>1, <3>2 DEF Props!Within
    <3> QED  BY <3>3, <3>4 DEF Props!Negative
  <2> QED  BY <2>2, <2>3 DEF v
<1>3. CASE raw.is = "nonfinite"
  <2>1. v = Props!Null
    BY <1>1, <1>3, Zenon DEF Props!AsNumber
  <2>2. v.json = "null"
    BY <2>1, NullIsNotRefused
  <2> HIDE DEF v
  <2>3. ~Props!Negative(v)
    BY <2>2 DEF Props!Negative, Props!Numeric
  <2> QED  BY <2>2, <2>3 DEF v
<1>4. CASE raw.is \notin {"whole", "fraction", "nonfinite"}
  <2>1. v = Props!Refused
    BY <1>1, <1>4, Zenon DEF Props!AsNumber
  <2> QED  BY <2>1
<1> QED  BY <1>2, <1>3, <1>4

LEMMA OthersAreTheirKind ==
  ASSUME NEW def, OfForm(def), NEW raw \in Props!Texts(PropWords), raw # Props!Empty,
         def.kind.name \notin Props!Numbers,
         Props!Read(def, raw) # Props!Refused, Props!Valid(def, Props!Read(def, raw))
  PROVE  /\ Props!Read(def, raw).json \in Props!TypeOf(def)
         /\ def.kind.name = "enum" => Props!Read(def, raw).w \in def.kind.variants
<1> DEFINE v == Props!Read(def, raw)
<1>1. CASE def.kind.name \in Props!Integral
  <2>1. v = IF raw.is = "whole" THEN Props!Whole(raw.n) ELSE Props!Refused
    BY <1>1, KindsApart, Zenon DEF Props!Read
  <2>2. v.json = "integer"
    BY <2>1 DEF Props!Whole
  <2>3. Props!TypeOf(def) = {"integer"}
    BY <1>1, KindsApart, Zenon DEF Props!TypeOf
  <2> QED  BY <1>1, <2>2, <2>3 DEF Props!Integral
<1>2. CASE def.kind.name = "bool"
  <2>1. def.kind.name \notin Props!Integral
    BY <1>2 DEF Props!Integral
  <2>2. v = Props!AsTruth(raw)
    BY <1>2, <2>1, Zenon DEF Props!Read
  <2>3. v.json = "bool"
    <3>1. CASE raw.is = "truth"
      <4>1. v = Props!Truth(raw.t)
        BY <2>2, <3>1, Zenon DEF Props!AsTruth
      <4> QED  BY <4>1 DEF Props!Truth
    <3>2. CASE raw.is = "whole" /\ raw.n \in {0, 2}
      <4>1. v = Props!Truth(raw.n = 2)
        BY <2>2, <3>2, Zenon DEF Props!AsTruth
      <4> QED  BY <4>1 DEF Props!Truth
    <3>3. CASE ~(raw.is = "truth") /\ ~(raw.is = "whole" /\ raw.n \in {0, 2})
      BY <2>2, <3>3, Zenon DEF Props!AsTruth
    <3> QED  BY <3>1, <3>2, <3>3
  <2>4. Props!TypeOf(def) = {"bool"}
    BY <1>2, <2>1, Zenon DEF Props!TypeOf
  <2> QED  BY <1>2, <2>3, <2>4
<1>3. CASE def.kind.name \notin Props!Integral \cup {"bool"}
  <2>1. v = Props!AsString(raw)
    BY <1>3, Zenon DEF Props!Read
  <2>2. v.json = "string"
    BY <2>1 DEF Props!AsString, Props!Str
  <2>3. Props!TypeOf(def) = {"string"}
    BY <1>3, Zenon DEF Props!TypeOf
  <2>4. ASSUME def.kind.name = "enum" PROVE v.w \in def.kind.variants
    <3>1. v # Props!Null
      BY <2>2, NullIsNotRefused
    <3>2. /\ def.kind.name # "ratio" /\ def.kind.name \notin Props!Numbers \ {"ratio"}
          /\ def.kind.name # "int" /\ def.kind.name # "signal_ref" /\ def.kind.name # "bool"
      BY <2>4
    <3> HIDE DEF v
    <3>3. Props!Valid(def, v)
      BY DEF v
    <3> QED  BY <2>4, <3>1, <3>2, <3>3, Zenon DEF Props!Valid
  <2> QED  BY <2>2, <2>3, <2>4
<1> QED  BY <1>1, <1>2, <1>3

LEMMA ParsedFits ==
  ASSUME NEW def, OfForm(def), NEW raw \in Props!Texts(PropWords),
         NEW value, value = Props!Parse(def, raw)
  PROVE  /\ value = Props!Null => ~def.required
         /\ value # Props!Refused /\ raw # Props!Empty =>
              /\ value.json \in Props!TypeOf(def)
              /\ def.kind.name \in {"freq_hz", "duration_s"} => ~Props!Negative(value)
              /\ def.kind.name = "enum" => value.w \in def.kind.variants
<1>1. ASSUME value = Props!Null PROVE ~def.required
  BY <1>1, NullIsNotRefused, AcceptedIsValid, NullIsOptional
<1>2. ASSUME value # Props!Refused, raw # Props!Empty
      PROVE  /\ value.json \in Props!TypeOf(def)
             /\ def.kind.name \in {"freq_hz", "duration_s"} => ~Props!Negative(value)
             /\ def.kind.name = "enum" => value.w \in def.kind.variants
  <2>1. value = Props!Read(def, raw) /\ Props!Valid(def, value)
    BY <1>2, AcceptedIsValid
  <2>2. CASE def.kind.name \in Props!Numbers
    <3>1. /\ value.json \in {"number", "null"}
          /\ def.kind.name \in {"freq_hz", "duration_s"} => ~Props!Negative(value)
      BY <1>2, <2>1, <2>2, NumbersAreNumbers
    <3>2. Props!TypeOf(def) = {"number", "null"}
      BY <2>2, KindsApart, Zenon DEF Props!TypeOf
    <3>3. def.kind.name # "enum"
      BY <2>2 DEF Props!Numbers
    <3> QED  BY <3>1, <3>2, <3>3
  <2>3. CASE def.kind.name \notin Props!Numbers
    <3>1. /\ value.json \in Props!TypeOf(def)
          /\ def.kind.name = "enum" => value.w \in def.kind.variants
      BY <1>2, <2>1, <2>3, OthersAreTheirKind
    <3>2. def.kind.name \notin {"freq_hz", "duration_s"}
      BY <2>3 DEF Props!Numbers
    <3> QED  BY <3>1, <3>2
  <2> QED  BY <2>2, <2>3
<1> QED  BY <1>1, <1>2

LEMMA RowOfParsed ==
  ASSUME NEW def, NEW raw, NEW r, Props!Parse(def, raw) # Props!Refused,
         DOMAIN r = {def.key}, r[def.key] = Props!Parse(def, raw)
  PROVE  Props!Broken({def}, r) = {} /\ Props!Unrecognised({def}, r) = {}
<1>1. Props!Valid(def, Props!Parse(def, raw))
  BY AcceptedIsValid
<1> QED  BY <1>1 DEF Props!Broken, Props!Unrecognised

LEMMA RowWithoutIt ==
  ASSUME NEW def, OfForm(def), def.required
  PROVE  Props!Broken({def}, <<>>) = {def}
<1>1. DOMAIN <<>> = {} /\ def.default = Props!Null
  BY NoWrites DEF OfForm
<1> QED  BY <1>1 DEF Props!Broken

LEMMA PropsShows ==
  ASSUME PropsInv
  PROVE  /\ Props!BusyIsOwed /\ Props!KeysAreSound
         /\ Props!ParsedIsOfItsKind /\ Props!RowsOfParsedAreValid
<1>1. Props!ParsedIsOfItsKind
  BY ParsedFits DEF PropsInv, Formed, Props!ParsedIsOfItsKind
<1>2. Props!RowsOfParsedAreValid
  <2>1. ASSUME NEW def \in declared, NEW raw
        PROVE  /\ Props!Parse(def, raw) # Props!Refused =>
                    /\ Props!Broken({def}, [k \in {def.key} |-> Props!Parse(def, raw)]) = {}
                    /\ Props!Unrecognised({def}, [k \in {def.key} |-> Props!Parse(def, raw)]) = {}
               /\ def.required => Props!Broken({def}, <<>>) = {def}
    <3>1. PICK r : r = [k \in {def.key} |-> Props!Parse(def, raw)]
      OBVIOUS
    <3>2. DOMAIN r = {def.key} /\ r[def.key] = Props!Parse(def, raw)
      BY <3>1
    <3>3. Props!Parse(def, raw) # Props!Refused =>
            Props!Broken({def}, r) = {} /\ Props!Unrecognised({def}, r) = {}
      BY <3>2, RowOfParsed
    <3>4. def.required => Props!Broken({def}, <<>>) = {def}
      BY RowWithoutIt DEF PropsInv, Formed
    <3> QED  BY <3>1, <3>3, <3>4, Zenon
  <2> QED  BY <2>1, Zenon DEF Props!RowsOfParsedAreValid
<1> QED  BY <1>1, <1>2 DEF PropsInv

LEMMA RefusalKeepsForm == Props!RefusedKeepsForm
BY DEF Props!RefusedKeepsForm, Props!Saved, Props!Reset

-----------------------------------------------------------------------------
(* The inspector.  Reads are of signals and start at a page; the row that is shown *)
(* and the form over it are the target's; a write carries the form of its signal.  *)

IsPage(n) == \E k \in Nat : n = PAGE * k
OnPage(t, n) == IsPage(n) /\ (n = 0 \/ n < Count[t])

\* A row as the library has it: what no definition declares is still there.
WholeRow(r) == r = [name |-> r.name, tags |-> r.tags, props |-> r.props] /\ r.props["origin"] = 1

SoundRead(r) == /\ r.of \in Targets
                /\ r.kind = "values" => OnPage(r.of, r.start)
InspectQueued ==
  /\ \A r \in inspectReads : SoundRead(r)
  /\ \A a \in inspectAnswers : /\ SoundRead(a.read)
                               /\ \A r \in a.row : WholeRow(r)
                               /\ a.read.kind = "detail" => a.row # {}
InspectStored == row = [t \in Targets |-> row[t]] /\ \A t \in Targets : WholeRow(row[t])
InspectShown ==
  /\ inspectTarget \subseteq Targets
  /\ \A d \in inspectDetail : /\ inspectTarget = {d.of} /\ WholeRow(d.row)
                              /\ nameDraft.of = d.of
                              /\ \A k \in Inspect!Declared : inspectDrafts[k].of = d.of
  /\ \A p \in profile : inspectTarget = {p.of}
  /\ \A v \in values : inspectTarget = {v.of} /\ v.start = pageStart /\ OnPage(v.of, v.start)
  /\ IsPage(pageStart)
InspectDrafted ==
  /\ nameDraft = [of |-> nameDraft.of, text |-> nameDraft.text]
  /\ inspectDrafts = [k \in Inspect!Declared |-> inspectDrafts[k]]
  /\ \A k \in Inspect!Declared : inspectDrafts[k] = [of |-> inspectDrafts[k].of, text |-> inspectDrafts[k].text]
SoundWrite(w) ==
  /\ w.kind \in {"name", "tag", "untag", "props"}
  /\ w.kind = "name" => w.draft.of = w.to
  /\ w.kind = "props" => /\ \A k \in Inspect!Declared : w.drafts[k].of = w.to
                         /\ w.props["origin"] = 1
InspectPosted == IsQueue(inspectWrites) /\ \A i \in DOMAIN inspectWrites : SoundWrite(inspectWrites[i])
InspectOwed ==
  profiling => \/ \E r \in inspectReads : r.kind = "profile" /\ inspectTarget = {r.of}
               \/ \E a \in inspectAnswers : a.read.kind = "profile" /\ inspectTarget = {a.read.of}

InspectInv == /\ InspectQueued /\ InspectStored /\ InspectShown
              /\ InspectDrafted /\ InspectPosted /\ InspectOwed

LEMMA PageSize == PAGE \in Nat /\ PAGE > 0 /\ \A t \in Targets : Count[t] \in Nat
BY InspectAssumed DEF Inspect!InspectorAssumption

\* What dividing by the length of a page leaves.
LEMMA PageOf ==
  ASSUME NEW n \in Nat
  PROVE  /\ n \div PAGE \in Nat /\ (n \div PAGE) * PAGE \in Nat /\ (n \div PAGE) * PAGE <= n
         /\ IsPage((n \div PAGE) * PAGE)
<1>1. n \div PAGE \in Nat /\ n % PAGE \in Nat /\ n = PAGE * (n \div PAGE) + (n % PAGE)
  BY PageSize, SMTT(30)
<1> DEFINE q == n \div PAGE
<1> HIDE DEF q
<1>2. q * PAGE = PAGE * q /\ PAGE * q \in Nat
  BY <1>1, PageSize DEF q
<1>3. PAGE * q <= n
  BY <1>1, <1>2 DEF q
<1>4. IsPage(q * PAGE)
  BY <1>1, <1>2 DEF IsPage, q
<1> QED  BY <1>1, <1>2, <1>3, <1>4 DEF q

LEMMA PagesDivide ==
  ASSUME NEW n, IsPage(n)
  PROVE  n \in Nat /\ n % PAGE = 0
<1>1. PICK k \in Nat : n = PAGE * k
  BY DEF IsPage
<1> DEFINE q == n \div PAGE
           m == n % PAGE
<1>2. n \in Nat
  BY <1>1, PageSize
<1>3. q \in Int /\ m \in Int /\ 0 <= m /\ m < PAGE /\ n = PAGE * q + m
  BY <1>2, PageSize, SMTT(30)
<1> HIDE DEF q, m
<1> DEFINE d == k - q
<1>4. d \in Int /\ PAGE * d = PAGE * k - PAGE * q
  BY <1>3, PageSize
<1>5. PAGE * d = m
  BY <1>1, <1>3, <1>4, PageSize
<1> HIDE DEF d
<1>6. CASE d = 0
  BY <1>2, <1>4, <1>5, <1>6, PageSize DEF m
<1>7. CASE d >= 1
  <2>1. PAGE * d >= PAGE
    BY <1>4, <1>7, PageSize
  <2> QED  BY <1>3, <1>5, <2>1, PageSize
<1>8. CASE d <= -1
  <2>1. PAGE * d <= -PAGE
    BY <1>4, <1>8, PageSize
  <2> QED  BY <1>3, <1>5, <2>1, PageSize
<1> QED  BY <1>4, <1>6, <1>7, <1>8

LEMMA NextPage ==
  ASSUME NEW n, IsPage(n)
  PROVE  /\ IsPage(0) /\ IsPage(n + PAGE)
         /\ n - PAGE >= 0 => IsPage(n - PAGE)
<1>1. PICK k \in Nat : n = PAGE * k
  BY DEF IsPage
<1>2. n \in Nat /\ PAGE * 0 = 0
  BY <1>1, PageSize
<1>3. n + PAGE = PAGE * (k + 1)
  BY <1>1, PageSize
<1>4. ASSUME n - PAGE >= 0 PROVE IsPage(n - PAGE)
  <2>1. k # 0
    BY <1>1, <1>2, <1>4, PageSize
  <2>2. k - 1 \in Nat /\ n - PAGE = PAGE * (k - 1)
    BY <1>1, <2>1, PageSize
  <2> QED  BY <2>2 DEF IsPage
<1> QED  BY <1>2, <1>3, <1>4 DEF IsPage

LEMMA InspectStarts == Inspect!InspectorInit => InspectInv
<1> SUFFICES ASSUME Inspect!InspectorInit PROVE InspectInv
  OBVIOUS
<1>1. InspectQueued
  BY DEF Inspect!InspectorInit, InspectQueued
<1>2. InspectStored
  <2> DEFINE p == [k \in Inspect!Keys |-> IF k \in Inspect!Declared THEN 0 ELSE 1]
  <2>1. row = [t \in Targets |-> [name |-> 1, tags |-> {}, props |-> p]]
    BY DEF Inspect!InspectorInit
  <2>2. "origin" \in Inspect!Keys /\ "origin" \notin Inspect!Declared
    BY DEF Inspect!Keys, Inspect!Declared
  <2>3. p["origin"] = 1
    BY <2>2
  <2> HIDE DEF p
  <2>4. \A t \in Targets : WholeRow(row[t])
    <3> SUFFICES ASSUME NEW t \in Targets PROVE WholeRow(row[t])
      OBVIOUS
    <3>1. PICK r : r = [name |-> 1, tags |-> {}, props |-> p]
      OBVIOUS
    <3>2. row[t] = r
      BY <2>1, <3>1
    <3>3. WholeRow(r)
      BY <2>3, <3>1 DEF WholeRow
    <3> QED  BY <3>2, <3>3
  <2>5. row = [t \in Targets |-> row[t]]
    BY <2>1
  <2> QED  BY <2>4, <2>5 DEF InspectStored
<1>3. InspectShown
  <2>1. /\ inspectTarget = {} /\ inspectDetail = {} /\ profile = {} /\ values = {} /\ pageStart = 0
    BY DEF Inspect!InspectorInit, Inspect!Nothing
  <2>2. IsPage(0)
    BY PageSize DEF IsPage
  <2> QED  BY <2>1, <2>2 DEF InspectShown
<1>4. InspectDrafted
  BY DEF Inspect!InspectorInit, InspectDrafted
<1>5. InspectPosted
  BY NoWrites DEF Inspect!InspectorInit, InspectPosted
<1>6. InspectOwed
  BY DEF Inspect!InspectorInit, InspectOwed
<1> QED  BY <1>1, <1>2, <1>3, <1>4, <1>5, <1>6 DEF InspectInv

\* What does not change a part of the screen keeps what is said of it.
LEMMA InspectFrame ==
  ASSUME InspectInv
  PROVE  /\ UNCHANGED <<inspectReads, inspectAnswers>> => InspectQueued'
         /\ UNCHANGED row => InspectStored'
         /\ UNCHANGED <<inspectTarget, inspectDetail, nameDraft, inspectDrafts, profile, values, pageStart>> => InspectShown'
         /\ UNCHANGED <<nameDraft, inspectDrafts>> => InspectDrafted'
         /\ UNCHANGED inspectWrites => InspectPosted'
         /\ UNCHANGED <<profiling, inspectReads, inspectAnswers, inspectTarget>> => InspectOwed'
<1>1. UNCHANGED <<inspectReads, inspectAnswers>> => InspectQueued'
  BY DEF InspectInv, InspectQueued
<1>2. UNCHANGED row => InspectStored'
  BY DEF InspectInv, InspectStored
<1>3. UNCHANGED <<inspectTarget, inspectDetail, nameDraft, inspectDrafts, profile, values, pageStart>> => InspectShown'
  BY DEF InspectInv, InspectShown
<1>4. UNCHANGED <<nameDraft, inspectDrafts>> => InspectDrafted'
  BY DEF InspectInv, InspectDrafted
<1>5. UNCHANGED inspectWrites => InspectPosted'
  BY DEF InspectInv, InspectPosted
<1>6. UNCHANGED <<profiling, inspectReads, inspectAnswers, inspectTarget>> => InspectOwed'
  BY DEF InspectInv, InspectOwed
<1> QED  BY <1>1, <1>2, <1>3, <1>4, <1>5, <1>6

LEMMA MoreReads ==
  ASSUME InspectInv, UNCHANGED <<inspectAnswers, inspectTarget, profiling>>,
         \A r \in inspectReads : r \in inspectReads',
         \A r \in inspectReads' : r \in inspectReads \/ SoundRead(r)
  PROVE  InspectQueued' /\ InspectOwed'
<1>1. InspectQueued'
  BY DEF InspectInv, InspectQueued
<1>2. InspectOwed'
  BY DEF InspectInv, InspectOwed
<1> QED  BY <1>1, <1>2

LEMMA FirstReads ==
  ASSUME NEW t \in Targets, NEW b
  PROVE  /\ SoundRead(Inspect!DetailRead(t)) /\ SoundRead(Inspect!ProfileRead(t, b))
         /\ SoundRead(Inspect!ValuesRead(t, 0))
         /\ Inspect!ProfileRead(t, b).kind = "profile" /\ Inspect!ProfileRead(t, b).of = t
BY NextPage, PageSize, PageOf DEF SoundRead, OnPage, Inspect!DetailRead, Inspect!ProfileRead, Inspect!ValuesRead

LEMMA ReloadReads ==
  ASSUME InspectInv, NEW t \in Targets, Inspect!Reload(t), inspectTarget' = {t}, UNCHANGED inspectAnswers
  PROVE  InspectQueued' /\ InspectOwed'
<1>1. inspectReads' = inspectReads \cup {Inspect!DetailRead(t), Inspect!ProfileRead(t, bins), Inspect!ValuesRead(t, 0)}
  BY DEF Inspect!Reload
<1>2. InspectQueued'
  BY <1>1, FirstReads DEF InspectInv, InspectQueued
<1>3. InspectOwed'
  <2>1. Inspect!ProfileRead(t, bins) \in inspectReads'
    BY <1>1
  <2> QED  BY <2>1, FirstReads DEF InspectOwed
<1> QED  BY <1>2, <1>3

LEMMA ShowKeeps ==
  ASSUME InspectInv, NEW t \in Targets, Inspect!Show(t)
  PROVE  InspectInv'
<1>1. /\ inspectTarget' = {t} /\ inspectDetail' = {} /\ profile' = {} /\ values' = {} /\ pageStart' = 0
      /\ inspectDrafts' = [k \in Inspect!Declared |-> [of |-> t, text |-> 0]]
      /\ Inspect!Reload(t) /\ UNCHANGED <<row, nameDraft, inspectAnswers, inspectWrites>>
  BY DEF Inspect!Show, Inspect!Cleared, Inspect!Nothing
<1>2. InspectQueued' /\ InspectOwed'
  BY <1>1, ReloadReads
<1>3. InspectShown'
  <2>1. IsPage(0)
    BY PageSize DEF IsPage
  <2> QED  BY <1>1, <2>1 DEF InspectShown
<1>4. InspectDrafted'
  BY <1>1 DEF InspectInv, InspectDrafted
<1> QED  BY <1>1, <1>2, <1>3, <1>4, InspectFrame DEF InspectInv

LEMMA RefreshKeeps ==
  ASSUME InspectInv, Inspect!Refresh
  PROVE  InspectInv'
<1>1. /\ UNCHANGED <<row, inspectTarget, inspectDetail, profile, values, pageStart, nameDraft, inspectDrafts, inspectAnswers, inspectWrites>>
      /\ inspectDetail # {}
  BY DEF Inspect!Refresh, Inspect!form, Inspect!Nothing
<1>2. PICK t \in inspectTarget : Inspect!Reload(t)
  BY DEF Inspect!Refresh
<1>3. t \in Targets /\ inspectTarget' = {t}
  BY <1>1 DEF InspectInv, InspectShown
<1>4. InspectQueued' /\ InspectOwed'
  BY <1>1, <1>2, <1>3, ReloadReads
<1> QED  BY <1>1, <1>4, InspectFrame DEF InspectInv

LEMMA SetBinsKeeps ==
  ASSUME InspectInv, NEW b, Inspect!SetBins(b)
  PROVE  InspectInv'
<1>1. UNCHANGED <<row, inspectTarget, inspectDetail, profiling, profile, values, pageStart, nameDraft, inspectDrafts, inspectAnswers, inspectWrites>>
  BY DEF Inspect!SetBins, Inspect!form
<1>2. inspectReads' = inspectReads \/ inspectReads' = inspectReads \cup {Inspect!ProfileRead(t, b) : t \in inspectTarget}
  BY DEF Inspect!SetBins
<1>3. \A t \in inspectTarget : SoundRead(Inspect!ProfileRead(t, b))
  BY FirstReads DEF InspectInv, InspectShown
<1>4. InspectQueued' /\ InspectOwed'
  BY <1>1, <1>2, <1>3, MoreReads
<1> QED  BY <1>1, <1>4, InspectFrame DEF InspectInv

LEMMA InspectReadKeeps ==
  ASSUME InspectInv, NEW r \in inspectReads, NEW ok, Inspect!Read(r, ok)
  PROVE  InspectInv'
<1>1. PICK a : a = [read |-> r, ok |-> ok, row |-> IF r.kind = "detail" THEN {row[r.of]} ELSE {}]
  OBVIOUS
<1>2. /\ inspectReads' = inspectReads \ {r} /\ inspectAnswers' = inspectAnswers \cup {a}
      /\ UNCHANGED <<row, inspectTarget, inspectDetail, profiling, profile, values, pageStart, nameDraft, inspectDrafts, inspectWrites>>
  BY <1>1 DEF Inspect!Read, Inspect!shown, Inspect!form
<1>3. a.read = r /\ SoundRead(r) /\ (\A x \in a.row : WholeRow(x)) /\ (r.kind = "detail" => a.row # {})
  <2>1. SoundRead(r)
    BY DEF InspectInv, InspectQueued
  <2>2. WholeRow(row[r.of])
    BY <2>1 DEF SoundRead, InspectInv, InspectStored
  <2>3. a.read = r /\ a.row = IF r.kind = "detail" THEN {row[r.of]} ELSE {}
    BY <1>1
  <2> QED  BY <2>1, <2>2, <2>3
<1>4. InspectQueued'
  BY <1>2, <1>3 DEF InspectInv, InspectQueued
<1>5. InspectOwed'
  BY <1>2, <1>3 DEF InspectInv, InspectOwed
<1> QED  BY <1>2, <1>4, <1>5, InspectFrame DEF InspectInv

LEMMA DropKeeps ==
  ASSUME InspectInv, NEW a, Inspect!Drop(a)
  PROVE  InspectQueued' /\ InspectStored' /\ InspectPosted'
<1>1. inspectAnswers' = inspectAnswers \ {a} /\ UNCHANGED <<row, inspectReads, inspectWrites>>
  BY DEF Inspect!Drop
<1>2. InspectQueued'
  BY <1>1 DEF InspectInv, InspectQueued
<1> QED  BY <1>1, <1>2, InspectFrame

\* An answer that is not the profile's is not the one that is waited for.
LEMMA DropOwes ==
  ASSUME InspectInv, NEW a, Inspect!Drop(a), a.read.kind # "profile" \/ inspectTarget # {a.read.of},
         UNCHANGED <<profiling, inspectTarget>>
  PROVE  InspectOwed'
BY DEF InspectInv, InspectOwed, Inspect!Drop

LEMMA LateKeeps ==
  ASSUME InspectInv, NEW a, Inspect!Late(a)
  PROVE  InspectInv'
<1>1. /\ Inspect!Drop(a) /\ inspectTarget # {a.read.of}
      /\ UNCHANGED <<inspectTarget, inspectDetail, profiling, profile, values, pageStart, nameDraft, inspectDrafts>>
  BY DEF Inspect!Late, Inspect!OfTarget, Inspect!shown, Inspect!form
<1> QED  BY <1>1, DropKeeps, DropOwes, InspectFrame DEF InspectInv

LEMMA LoadedKeeps ==
  ASSUME InspectInv, NEW a \in inspectAnswers, Inspect!Loaded(a)
  PROVE  InspectInv'
<1>1. /\ a.read.kind = "detail" /\ inspectTarget = {a.read.of} /\ Inspect!Drop(a)
      /\ UNCHANGED <<inspectTarget, profiling, profile, values, pageStart>>
  BY DEF Inspect!Loaded, Inspect!OfTarget
<1>2. InspectQueued' /\ InspectStored' /\ InspectPosted' /\ InspectOwed'
  BY <1>1, DropKeeps, DropOwes
<1>3. CASE ~a.ok
  <2>1. UNCHANGED <<inspectDetail, nameDraft, inspectDrafts>>
    BY <1>3 DEF Inspect!Loaded
  <2> QED  BY <1>1, <1>2, <2>1, InspectFrame DEF InspectInv
<1>4. CASE a.ok
  <2> DEFINE r == CHOOSE x \in a.row : TRUE
  <2>1. WholeRow(r)
    BY <1>1 DEF InspectInv, InspectQueued
  <2>2. /\ inspectDetail' = {[of |-> a.read.of, row |-> r]}
        /\ nameDraft' = [of |-> a.read.of, text |-> r.name]
        /\ inspectDrafts' = Inspect!DraftsOf(a.read.of, r)
    BY <1>4 DEF Inspect!Loaded
  <2> HIDE DEF r
  <2>3. inspectDrafts' = [k \in Inspect!Declared |-> [of |-> a.read.of, text |-> r.props[k]]]
    BY <2>2 DEF Inspect!DraftsOf
  <2>4. InspectDrafted'
    BY <2>2, <2>3 DEF InspectDrafted
  <2>5. /\ \A d \in inspectDetail' : d.of = a.read.of /\ d.row = r
        /\ nameDraft'.of = a.read.of
        /\ \A k \in Inspect!Declared : inspectDrafts'[k].of = a.read.of
    BY <2>2, <2>3
  <2>6. InspectShown'
    BY <1>1, <2>1, <2>5 DEF InspectInv, InspectShown
  <2> QED  BY <1>2, <2>4, <2>6 DEF InspectInv
<1> QED  BY <1>3, <1>4

LEMMA ProfiledKeeps ==
  ASSUME InspectInv, NEW a \in inspectAnswers, Inspect!Profiled(a)
  PROVE  InspectInv'
<1>1. /\ inspectTarget = {a.read.of} /\ Inspect!Drop(a)
      /\ profiling' = FALSE
      /\ profile' = IF a.ok THEN {[of |-> a.read.of, bins |-> a.read.bins]} ELSE profile
      /\ UNCHANGED <<inspectTarget, inspectDetail, values, pageStart, nameDraft, inspectDrafts>>
  BY DEF Inspect!Profiled, Inspect!OfTarget, Inspect!Settled
<1>2. InspectQueued' /\ InspectStored' /\ InspectPosted'
  BY <1>1, DropKeeps
<1>3. InspectOwed'
  BY <1>1 DEF InspectOwed
<1>4. \A p \in profile' : p \in profile \/ p.of = a.read.of
  BY <1>1
<1>5. InspectShown'
  BY <1>1, <1>4 DEF InspectInv, InspectShown
<1> QED  BY <1>1, <1>2, <1>3, <1>5, InspectFrame DEF InspectInv

LEMMA ValuesLoadedKeeps ==
  ASSUME InspectInv, NEW a \in inspectAnswers, Inspect!ValuesLoaded(a)
  PROVE  InspectInv'
<1>1. /\ a.read.kind = "values" /\ inspectTarget = {a.read.of} /\ Inspect!Drop(a)
      /\ values' = IF a.ok THEN {[of |-> a.read.of, start |-> a.read.start]} ELSE values
      /\ pageStart' = IF a.ok THEN a.read.start ELSE pageStart
      /\ UNCHANGED <<inspectTarget, inspectDetail, profiling, profile, nameDraft, inspectDrafts>>
  BY DEF Inspect!ValuesLoaded, Inspect!OfTarget
<1>2. InspectQueued' /\ InspectStored' /\ InspectPosted' /\ InspectOwed'
  BY <1>1, DropKeeps, DropOwes
<1>3. OnPage(a.read.of, a.read.start)
  BY <1>1 DEF InspectInv, InspectQueued, SoundRead
<1>4. IsPage(pageStart')
  BY <1>1, <1>3 DEF InspectInv, InspectShown, OnPage
<1>5. \A v \in values' : inspectTarget' = {v.of} /\ v.start = pageStart' /\ OnPage(v.of, v.start)
  BY <1>1, <1>3 DEF InspectInv, InspectShown
<1>6. InspectShown'
  BY <1>1, <1>4, <1>5 DEF InspectInv, InspectShown
<1> QED  BY <1>1, <1>2, <1>6, InspectFrame DEF InspectInv

\* The row shown is of a signal that has been read, and the last page is one of its.
LEMMA LastPageIs ==
  ASSUME InspectInv, NEW t \in inspectTarget, inspectDetail # {}
  PROVE  /\ IsPage(Inspect!LastPage) /\ OnPage(t, Inspect!LastPage)
         /\ \A n \in Nat : n <= Inspect!LastPage => n = 0 \/ n < Count[t]
<1> DEFINE d == CHOOSE d \in inspectDetail : TRUE
           n == Count[t]
<1>1. d \in inspectDetail
  OBVIOUS
<1>2. inspectTarget = {d.of} /\ t \in Targets /\ d.of = t
  BY <1>1 DEF InspectInv, InspectShown
<1>3. Inspect!RowCount = n /\ n \in Nat
  BY <1>2, PageSize DEF Inspect!RowCount, Inspect!Nothing
<1> HIDE DEF d, n
<1>4. CASE n = 0
  <2>1. Inspect!LastPage = 0
    BY <1>3, <1>4 DEF Inspect!LastPage
  <2>2. IsPage(0)
    BY PageSize DEF IsPage
  <2> QED  BY <2>1, <2>2 DEF OnPage
<1>5. CASE n # 0
  <2> DEFINE m == n - 1
             p == (m \div PAGE) * PAGE
  <2>1. Inspect!LastPage = p
    BY <1>3, <1>5 DEF Inspect!LastPage
  <2>2. m \in Nat
    BY <1>3, <1>5
  <2> HIDE DEF m
  <2>3. p \in Nat /\ p <= m /\ IsPage(p)
    BY <2>2, PageOf
  <2> HIDE DEF p
  <2>4. p < n
    BY <1>3, <2>2, <2>3 DEF m
  <2> QED  BY <1>3, <2>1, <2>3, <2>4 DEF OnPage, n
<1> QED  BY <1>4, <1>5

LEMMA GoToKeeps ==
  ASSUME InspectInv, NEW start, IsPage(start), Inspect!GoTo(start)
  PROVE  InspectInv'
<1> DEFINE s == Inspect!Clamped(start)
<1>1. /\ inspectDetail # {}
      /\ inspectReads' = inspectReads \cup {Inspect!ValuesRead(t, s) : t \in inspectTarget}
      /\ UNCHANGED <<row, inspectTarget, inspectDetail, profiling, profile, values, pageStart, nameDraft, inspectDrafts, inspectAnswers, inspectWrites>>
  BY DEF Inspect!GoTo, Inspect!shown, Inspect!form, Inspect!Nothing
<1>2. ASSUME NEW t \in inspectTarget PROVE SoundRead(Inspect!ValuesRead(t, s))
  <2>1. OnPage(t, s)
    <3>1. start \in Nat
      BY PagesDivide
    <3> QED  BY <1>1, <3>1, LastPageIs DEF OnPage, Inspect!Clamped
  <2>2. t \in Targets
    BY DEF InspectInv, InspectShown
  <2> HIDE DEF s
  <2> QED  BY <2>1, <2>2 DEF SoundRead, Inspect!ValuesRead
<1> HIDE DEF s
<1>3. InspectQueued' /\ InspectOwed'
  BY <1>1, <1>2, MoreReads
<1> QED  BY <1>1, <1>3, InspectFrame DEF InspectInv

LEMMA PagesKeep ==
  ASSUME InspectInv, Inspect!PageNext, ~Inspect!Reads
  PROVE  InspectInv'
<1>1. ASSUME NEW delta \in {-1, 1}, Inspect!Page(delta) PROVE InspectInv'
  <2> DEFINE start == IF pageStart + delta * PAGE < 0 THEN 0 ELSE pageStart + delta * PAGE
  <2>1. IsPage(pageStart)
    BY DEF InspectInv, InspectShown
  <2>2. pageStart \in Nat
    BY <2>1, PagesDivide
  <2>3. IsPage(start)
    <3>1. CASE delta = 1
      BY <2>1, <2>2, <3>1, NextPage, PageSize
    <3>2. CASE delta = -1
      <4>1. pageStart + delta * PAGE = pageStart - PAGE
        BY <2>2, <3>2, PageSize
      <4> QED  BY <2>1, <2>2, <4>1, NextPage, PageSize
    <3> QED  BY <3>1, <3>2
  <2>4. Inspect!GoTo(start)
    BY <1>1 DEF Inspect!Page
  <2> HIDE DEF start
  <2> QED  BY <2>3, <2>4, GoToKeeps
<1>2. ASSUME NEW i \in 0 .. (2 * PAGE), Inspect!Jump(i) PROVE InspectInv'
  <2>1. i \in Nat
    BY PageSize
  <2>2. IsPage((i \div PAGE) * PAGE)
    BY <2>1, PageOf
  <2> QED  BY <1>2, <2>2, GoToKeeps DEF Inspect!Jump
<1> QED  BY <1>1, <1>2 DEF Inspect!PageNext

-----------------------------------------------------------------------------
(* The form of the inspector.                                                      *)

LEMMA PostKeeps ==
  ASSUME InspectInv, NEW w, Inspect!Write(w), SoundWrite(w)
  PROVE  InspectPosted'
<1>1. inspectWrites' = Append(inspectWrites, w)
  BY DEF Inspect!Write
<1>2. /\ IsQueue(Append(inspectWrites, w))
      /\ \A i \in DOMAIN Append(inspectWrites, w) :
           \/ Append(inspectWrites, w)[i] = w
           \/ i \in DOMAIN inspectWrites /\ Append(inspectWrites, w)[i] = inspectWrites[i]
  BY Queued DEF InspectInv, InspectPosted
<1> QED  BY <1>1, <1>2 DEF InspectInv, InspectPosted

LEMMA NameChangedKeeps ==
  ASSUME InspectInv, NEW text, Inspect!NameChanged(text)
  PROVE  InspectInv'
<1>1. /\ nameDraft' = [nameDraft EXCEPT !.text = text]
      /\ UNCHANGED <<row, inspectTarget, inspectDetail, profiling, profile, values, pageStart, inspectDrafts, inspectReads, inspectAnswers, inspectWrites>>
  BY DEF Inspect!NameChanged, Inspect!shown
<1>2. nameDraft = [of |-> nameDraft.of, text |-> nameDraft.text]
  BY DEF InspectInv, InspectDrafted
<1>3. nameDraft' = [of |-> nameDraft.of, text |-> text]
  BY <1>1, <1>2
<1>4. nameDraft'.of = nameDraft.of /\ nameDraft' = [of |-> nameDraft'.of, text |-> nameDraft'.text]
  BY <1>3
<1>5. InspectShown'
  BY <1>1, <1>4 DEF InspectInv, InspectShown
<1>6. InspectDrafted'
  BY <1>1, <1>4 DEF InspectInv, InspectDrafted
<1> QED  BY <1>1, <1>5, <1>6, InspectFrame DEF InspectInv

LEMMA PropChangedKeeps ==
  ASSUME InspectInv, NEW k \in Inspect!Declared, NEW text, Inspect!PropChanged(k, text)
  PROVE  InspectInv'
<1>1. /\ inspectDrafts' = [inspectDrafts EXCEPT ![k].text = text]
      /\ UNCHANGED <<row, inspectTarget, inspectDetail, profiling, profile, values, pageStart, nameDraft, inspectReads, inspectAnswers, inspectWrites>>
  BY DEF Inspect!PropChanged, Inspect!shown
<1>2. /\ inspectDrafts = [j \in Inspect!Declared |-> inspectDrafts[j]]
      /\ \A j \in Inspect!Declared : inspectDrafts[j] = [of |-> inspectDrafts[j].of, text |-> inspectDrafts[j].text]
  BY DEF InspectInv, InspectDrafted
<1>3. PICK d : d = [inspectDrafts[k] EXCEPT !.text = text]
  OBVIOUS
<1>4. d = [of |-> inspectDrafts[k].of, text |-> text]
  BY <1>2, <1>3
<1>5. d.of = inspectDrafts[k].of /\ d = [of |-> d.of, text |-> d.text]
  BY <1>4
<1>6. inspectDrafts' = [inspectDrafts EXCEPT ![k] = d]
  BY <1>1, <1>3, Zenon
<1>7. /\ inspectDrafts' = [j \in Inspect!Declared |-> inspectDrafts'[j]]
      /\ \A j \in Inspect!Declared : inspectDrafts'[j] = IF j = k THEN d ELSE inspectDrafts[j]
  BY <1>2, <1>6
<1>8. \A j \in Inspect!Declared : /\ inspectDrafts'[j].of = inspectDrafts[j].of
                                  /\ inspectDrafts'[j] = [of |-> inspectDrafts'[j].of, text |-> inspectDrafts'[j].text]
  <2> SUFFICES ASSUME NEW j \in Inspect!Declared
               PROVE  /\ inspectDrafts'[j].of = inspectDrafts[j].of
                      /\ inspectDrafts'[j] = [of |-> inspectDrafts'[j].of, text |-> inspectDrafts'[j].text]
    OBVIOUS
  <2>1. CASE j = k
    BY <1>5, <1>7, <2>1
  <2>2. CASE j # k
    BY <1>2, <1>7, <2>2
  <2> QED  BY <2>1, <2>2
<1>9. InspectShown'
  BY <1>1, <1>8 DEF InspectInv, InspectShown
<1>10. InspectDrafted'
  BY <1>1, <1>2, <1>7, <1>8 DEF InspectInv, InspectDrafted
<1> QED  BY <1>1, <1>9, <1>10, InspectFrame DEF InspectInv

LEMMA RenameKeeps ==
  ASSUME InspectInv, Inspect!Rename
  PROVE  InspectInv'
<1>1. /\ inspectDetail # {}
      /\ UNCHANGED <<row, inspectTarget, inspectDetail, profiling, profile, values, pageStart, nameDraft, inspectDrafts, inspectReads, inspectAnswers>>
  BY DEF Inspect!Rename, Inspect!shown, Inspect!Editing, Inspect!Nothing
<1>2. CASE UNCHANGED inspectWrites
  BY <1>1, <1>2, InspectFrame DEF InspectInv
<1>3. CASE \E t \in inspectTarget : Inspect!Write([kind |-> "name", to |-> t, draft |-> nameDraft])
  <2>1. PICK t \in inspectTarget : Inspect!Write([kind |-> "name", to |-> t, draft |-> nameDraft])
    BY <1>3
  <2>2. PICK w : w = [kind |-> "name", to |-> t, draft |-> nameDraft]
    OBVIOUS
  <2>3. nameDraft.of = t
    BY <1>1 DEF InspectInv, InspectShown
  <2>4. SoundWrite(w)
    BY <2>2, <2>3 DEF SoundWrite
  <2>5. InspectPosted'
    BY <2>1, <2>2, <2>4, PostKeeps
  <2> QED  BY <1>1, <2>5, InspectFrame DEF InspectInv
<1> QED  BY <1>2, <1>3 DEF Inspect!Rename

LEMMA TagsKeep ==
  ASSUME InspectInv, Inspect!AddTag \/ Inspect!RemoveTag
  PROVE  InspectInv'
<1>1. UNCHANGED <<row, inspectTarget, inspectDetail, profiling, profile, values, pageStart, nameDraft, inspectDrafts, inspectReads, inspectAnswers>>
  BY DEF Inspect!AddTag, Inspect!RemoveTag, Inspect!shown, Inspect!form
<1>2. PICK w : Inspect!Write(w) /\ w.kind \in {"tag", "untag"}
  <2>1. CASE Inspect!AddTag
    <3>1. PICK t \in inspectTarget : Inspect!Write([kind |-> "tag", to |-> t])
      BY <2>1 DEF Inspect!AddTag
    <3> QED  BY <3>1
  <2>2. CASE Inspect!RemoveTag
    <3>1. PICK t \in inspectTarget : Inspect!Write([kind |-> "untag", to |-> t])
      BY <2>2 DEF Inspect!RemoveTag
    <3> QED  BY <3>1
  <2> QED  BY <2>1, <2>2
<1>3. InspectPosted'
  BY <1>2, PostKeeps DEF SoundWrite
<1> QED  BY <1>1, <1>3, InspectFrame DEF InspectInv

LEMMA SavePropertiesKeeps ==
  ASSUME InspectInv, Inspect!SaveProperties
  PROVE  InspectInv'
<1>1. UNCHANGED <<row, inspectTarget, inspectDetail, profiling, profile, values, pageStart, nameDraft, inspectDrafts, inspectReads, inspectAnswers>>
  BY DEF Inspect!SaveProperties, Inspect!shown
<1>2. PICK d \in inspectDetail :
        \/ UNCHANGED inspectWrites
        \/ Inspect!Write([kind |-> "props", to |-> d.of, drafts |-> inspectDrafts, props |-> Inspect!Edited(d)])
  BY DEF Inspect!SaveProperties
<1>3. CASE UNCHANGED inspectWrites
  BY <1>1, <1>3, InspectFrame DEF InspectInv
<1>4. CASE Inspect!Write([kind |-> "props", to |-> d.of, drafts |-> inspectDrafts, props |-> Inspect!Edited(d)])
  <2>1. Inspect!Edited(d)["origin"] = 1
    <3>1. "origin" \in Inspect!Keys /\ "origin" \notin Inspect!Declared
      BY DEF Inspect!Keys, Inspect!Declared
    <3>2. d.row.props["origin"] = 1
      BY DEF InspectInv, InspectShown, WholeRow
    <3> QED  BY <3>1, <3>2 DEF Inspect!Edited
  <2>2. \A k \in Inspect!Declared : inspectDrafts[k].of = d.of
    BY DEF InspectInv, InspectShown
  <2>3. PICK w : w = [kind |-> "props", to |-> d.of, drafts |-> inspectDrafts, props |-> Inspect!Edited(d)]
    OBVIOUS
  <2>4. w.kind = "props" /\ w.to = d.of /\ w.drafts = inspectDrafts /\ w.props = Inspect!Edited(d)
    BY <2>3
  <2>5. SoundWrite(w)
    BY <2>1, <2>2, <2>4 DEF SoundWrite
  <2>6. InspectPosted'
    BY <1>4, <2>3, <2>5, PostKeeps
  <2> QED  BY <1>1, <2>6, InspectFrame DEF InspectInv
<1> QED  BY <1>2, <1>3, <1>4

\* A write keeps what no definition declares.
LEMMA WrittenIsWhole ==
  ASSUME NEW w, SoundWrite(w), NEW ok, WholeRow(row[w.to])
  PROVE  WholeRow(Inspect!Written(w, ok))
<1>1. PICK r : r = row[w.to]
  OBVIOUS
<1>2. r = [name |-> r.name, tags |-> r.tags, props |-> r.props] /\ r.props["origin"] = 1
  BY <1>1 DEF WholeRow
<1>3. CASE ~ok
  BY <1>3 DEF Inspect!Written
<1>4. CASE ok /\ w.kind = "name"
  <2>1. Inspect!Written(w, ok) = [r EXCEPT !.name = w.draft.text]
    BY <1>1, <1>4, Zenon DEF Inspect!Written
  <2>2. Inspect!Written(w, ok) = [name |-> w.draft.text, tags |-> r.tags, props |-> r.props]
    BY <1>2, <2>1
  <2> QED  BY <1>2, <2>2 DEF WholeRow
<1>5. CASE ok /\ w.kind = "tag"
  <2>1. Inspect!Written(w, ok) = [r EXCEPT !.tags = {"gold"}]
    BY <1>1, <1>5, Zenon DEF Inspect!Written
  <2>2. Inspect!Written(w, ok) = [name |-> r.name, tags |-> {"gold"}, props |-> r.props]
    BY <1>2, <2>1
  <2> QED  BY <1>2, <2>2 DEF WholeRow
<1>6. CASE ok /\ w.kind = "untag"
  <2>1. Inspect!Written(w, ok) = [r EXCEPT !.tags = {}]
    BY <1>1, <1>6, Zenon DEF Inspect!Written
  <2>2. Inspect!Written(w, ok) = [name |-> r.name, tags |-> {}, props |-> r.props]
    BY <1>2, <2>1
  <2> QED  BY <1>2, <2>2 DEF WholeRow
<1>7. CASE ok /\ w.kind = "props"
  <2>1. Inspect!Written(w, ok) = [r EXCEPT !.props = w.props]
    BY <1>1, <1>7, Zenon DEF Inspect!Written
  <2>2. Inspect!Written(w, ok) = [name |-> r.name, tags |-> r.tags, props |-> w.props]
    BY <1>2, <2>1
  <2>3. w.props["origin"] = 1
    BY <1>7 DEF SoundWrite
  <2> QED  BY <2>2, <2>3 DEF WholeRow
<1> QED  BY <1>3, <1>4, <1>5, <1>6, <1>7 DEF SoundWrite

\* A queue with one of its jobs taken out.
LEMMA TakenOut ==
  ASSUME NEW q, IsQueue(q), NEW i \in DOMAIN q
  PROVE  /\ IsQueue(Inspect!Without(q, i))
         /\ \A j \in DOMAIN Inspect!Without(q, i) : \E k \in DOMAIN q : Inspect!Without(q, i)[j] = q[k]
<1> DEFINE n == Len(q)
           p == [j \in 1 .. (n - 1) |-> IF j < i THEN q[j] ELSE q[j + 1]]
<1>1. n \in Nat /\ DOMAIN q = 1 .. n /\ i \in 1 .. n
  BY DEF IsQueue
<1>2. n - 1 \in Nat /\ p \in Seq({q[k] : k \in DOMAIN q})
  <2>1. \A j \in 1 .. (n - 1) : p[j] \in {q[k] : k \in DOMAIN q}
    BY <1>1
  <2>2. p \in [1 .. (n - 1) -> {q[k] : k \in DOMAIN q}] /\ n - 1 \in Nat
    BY <1>1, <2>1
  <2> HIDE DEF p, n
  <2> QED  BY <2>2, SeqDef
<1>3. DOMAIN p = 1 .. (n - 1) /\ \A j \in DOMAIN p : p[j] = q[j] \/ p[j] = q[j + 1]
  OBVIOUS
<1>4. Inspect!Without(q, i) = p
  BY DEF Inspect!Without
<1> HIDE DEF p, n
<1>5. Len(p) = n - 1 /\ p = [j \in 1 .. Len(p) |-> p[j]]
  BY <1>2, <1>3
<1>6. \A j \in DOMAIN p : j \in DOMAIN q /\ j + 1 \in DOMAIN q
  BY <1>1, <1>3
<1> QED  BY <1>2, <1>3, <1>4, <1>5, <1>6 DEF IsQueue

LEMMA WriterDoesKeeps ==
  ASSUME InspectInv, NEW i \in DOMAIN inspectWrites, NEW ok, Inspect!WriterDoes(i, ok)
  PROVE  InspectInv'
<1>1. PICK w : w = inspectWrites[i]
  OBVIOUS
<1>2. /\ inspectWrites' = Inspect!Without(inspectWrites, i)
      /\ row' = [row EXCEPT ![w.to] = Inspect!Written(w, ok)]
      /\ UNCHANGED <<inspectTarget, inspectDetail, profiling, profile, values, pageStart, nameDraft, inspectDrafts,
                     inspectReads, inspectAnswers>>
  BY <1>1 DEF Inspect!WriterDoes, Inspect!shown, Inspect!form
<1>3. SoundWrite(w) /\ InspectPosted'
  BY <1>1, <1>2, TakenOut DEF InspectInv, InspectPosted
<1>4. InspectStored'
  <2>1. row = [t \in Targets |-> row[t]] /\ \A t \in Targets : WholeRow(row[t])
    BY DEF InspectInv, InspectStored
  <2>2. w.to \in Targets => WholeRow(Inspect!Written(w, ok))
    BY <1>3, <2>1, WrittenIsWhole
  <2>3. /\ row' = [t \in Targets |-> row'[t]]
        /\ \A t \in Targets : row'[t] = IF t = w.to THEN Inspect!Written(w, ok) ELSE row[t]
    BY <1>2, <2>1
  <2> QED  BY <2>1, <2>2, <2>3 DEF InspectStored
<1> QED  BY <1>2, <1>3, <1>4, InspectFrame DEF InspectInv

LEMMA InspectSavedKeeps ==
  ASSUME InspectInv, NEW ok, Inspect!Saved(ok)
  PROVE  InspectInv'
<1>1. /\ inspectReads' = inspectReads \cup {Inspect!DetailRead(t) : t \in inspectTarget}
      /\ UNCHANGED <<row, inspectTarget, inspectDetail, profiling, profile, values, pageStart, nameDraft, inspectDrafts,
                     inspectAnswers, inspectWrites>>
  BY DEF Inspect!Saved, Inspect!shown
<1>2. InspectQueued' /\ InspectOwed'
  <2>1. \A t \in inspectTarget : SoundRead(Inspect!DetailRead(t))
    BY FirstReads DEF InspectInv, InspectShown
  <2> QED  BY <1>1, <2>1, MoreReads
<1> QED  BY <1>1, <1>2, InspectFrame DEF InspectInv

LEMMA InspectKeeps ==
  ASSUME InspectInv,
         \/ Inspect!BinsNext \/ Inspect!PageNext \/ Inspect!NameNext \/ Inspect!TagNext
         \/ Inspect!PropsNext \/ UNCHANGED InspectVars
  PROVE  InspectInv'
<1>1. CASE UNCHANGED InspectVars
  BY <1>1, InspectFrame DEF InspectVars, InspectInv
<1>2. ASSUME Inspect!Reads PROVE InspectInv'
  BY <1>2, RefreshKeeps, ShowKeeps, InspectReadKeeps, LateKeeps, LoadedKeeps, ProfiledKeeps, ValuesLoadedKeeps
  DEF Inspect!Reads
<1>3. ASSUME Inspect!Around PROVE InspectInv'
  BY <1>3, WriterDoesKeeps, InspectSavedKeeps, ShowKeeps, InspectReadKeeps, LateKeeps, LoadedKeeps,
     ProfiledKeeps, ValuesLoadedKeeps
  DEF Inspect!Around, Inspect!Saving
<1>4. CASE Inspect!BinsNext
  BY <1>2, <1>4, SetBinsKeeps DEF Inspect!BinsNext
<1>5. CASE Inspect!PageNext
  BY <1>2, <1>5, PagesKeep
<1>6. CASE Inspect!NameNext
  BY <1>3, <1>6, RenameKeeps, NameChangedKeeps DEF Inspect!NameNext
<1>7. CASE Inspect!TagNext
  BY <1>3, <1>7, TagsKeep DEF Inspect!TagNext
<1>8. CASE Inspect!PropsNext
  BY <1>3, <1>8, SavePropertiesKeeps, PropChangedKeeps DEF Inspect!PropsNext
<1> QED  BY <1>1, <1>4, <1>5, <1>6, <1>7, <1>8

LEMMA InspectShows ==
  ASSUME InspectInv
  PROVE  /\ Inspect!InspectorTypeOK /\ Inspect!PageIsReal
         /\ Inspect!WritesGoHome /\ Inspect!UndeclaredStays
<1>1. Inspect!InspectorTypeOK
  BY DEF InspectInv, InspectShown, InspectOwed, Inspect!InspectorTypeOK
<1>2. Inspect!PageIsReal
  BY PagesDivide DEF InspectInv, InspectShown, OnPage, Inspect!PageIsReal
<1>3. Inspect!WritesGoHome
  BY DEF InspectInv, InspectPosted, SoundWrite, Inspect!WritesGoHome
<1>4. Inspect!UndeclaredStays
  BY DEF InspectInv, InspectStored, WholeRow, Inspect!UndeclaredStays
<1> QED  BY <1>1, <1>2, <1>3, <1>4

-----------------------------------------------------------------------------
(* The keys of the keymap.  A chord is written as the modifiers held and then its  *)
(* key, and read back as the last part that is no modifier and those before it.    *)

LEMMA HeldAdds ==
  ASSUME NEW c, NEW p \in Seq(Keys!Modifiers), NEW m \in Keys!Modifiers
  PROVE  /\ p \o Keys!Held(c, m) \in Seq(Keys!Modifiers)
         /\ Keys!ToSet(p \o Keys!Held(c, m)) = Keys!ToSet(p) \cup (c.held \cap {m})
<1>1. CASE m \notin c.held
  <2>1. Keys!Held(c, m) = <<>> /\ c.held \cap {m} = {}
    BY <1>1 DEF Keys!Held
  <2>2. p \o <<>> = p
    BY ConcatEmptySeq
  <2> QED  BY <2>1, <2>2
<1>2. CASE m \in c.held
  <2>1. Keys!Held(c, m) = <<m>> /\ c.held \cap {m} = {m}
    BY <1>2 DEF Keys!Held
  <2> DEFINE q == p \o <<m>>
  <2>2. /\ q \in Seq(Keys!Modifiers) /\ Len(q) = Len(p) + 1
        /\ \A i \in 1 .. Len(p) : q[i] = p[i]
        /\ q[Len(p) + 1] = m
    BY ConcatProperties, LenProperties
  <2>3. DOMAIN q = 1 .. Len(q) /\ DOMAIN p = 1 .. Len(p) /\ Len(p) \in Nat
    BY <2>2, LenProperties
  <2> HIDE DEF q
  <2>4. Keys!ToSet(q) = Keys!ToSet(p) \cup {m}
    BY <2>2, <2>3 DEF Keys!ToSet
  <2> QED  BY <2>1, <2>2, <2>4 DEF q
<1> QED  BY <1>1, <1>2

\* What bind writes, chord reads back.
LEMMA WrittenIsRead ==
  ASSUME NEW c \in Chords, c.key # "+"
  PROVE  Keys!Parse(Keys!Written(c)) = c
<1>1. /\ c \in [key : STRING, held : SUBSET Keys!Modifiers]
      /\ c.key # "" /\ c.key \notin Keys!Modifiers
  BY KeysAssumed DEF Keys!KeymapAssumption
<1> DEFINE p1 == Keys!Held(c, "ctrl")
           p2 == p1 \o Keys!Held(c, "alt")
           p3 == p2 \o Keys!Held(c, "shift")
           parts == p3 \o <<c.key>>
<1>2. {"ctrl", "alt", "shift"} = Keys!Modifiers
  BY DEF Keys!Modifiers
<1>3. p1 \in Seq(Keys!Modifiers) /\ Keys!ToSet(p1) = c.held \cap {"ctrl"}
  <2>1. <<>> \in Seq(Keys!Modifiers) /\ Keys!ToSet(<<>>) = {}
    BY NoWrites, EmptySeq DEF Keys!ToSet
  <2>2. <<>> \o p1 = p1
    <3>1. p1 \in Seq(Keys!Modifiers)
      BY <1>2 DEF Keys!Held
    <3> QED  BY <3>1, ConcatEmptySeq
  <2> HIDE DEF p1
  <2>3. /\ <<>> \o Keys!Held(c, "ctrl") \in Seq(Keys!Modifiers)
        /\ Keys!ToSet(<<>> \o Keys!Held(c, "ctrl")) = Keys!ToSet(<<>>) \cup (c.held \cap {"ctrl"})
    BY <1>2, <2>1, HeldAdds
  <2> QED  BY <2>1, <2>2, <2>3 DEF p1
<1> HIDE DEF p1
<1>4. p2 \in Seq(Keys!Modifiers) /\ Keys!ToSet(p2) = Keys!ToSet(p1) \cup (c.held \cap {"alt"})
  BY <1>2, <1>3, HeldAdds
<1> HIDE DEF p2
<1>5. p3 \in Seq(Keys!Modifiers) /\ Keys!ToSet(p3) = Keys!ToSet(p2) \cup (c.held \cap {"shift"})
  BY <1>2, <1>4, HeldAdds
<1> HIDE DEF p3
<1>6. Keys!ToSet(p3) = c.held
  BY <1>1, <1>2, <1>3, <1>4, <1>5
<1>7. /\ Len(parts) = Len(p3) + 1 /\ DOMAIN parts = 1 .. Len(parts)
      /\ Len(p3) \in Nat /\ DOMAIN p3 = 1 .. Len(p3)
      /\ \A i \in 1 .. Len(p3) : parts[i] = p3[i] /\ p3[i] \in Keys!Modifiers
      /\ parts[Len(p3) + 1] = c.key
  <2> DEFINE S == Keys!Modifiers \cup {c.key}
  <2>1. p3 \in Seq(S) /\ <<c.key>> \in Seq(S) /\ Len(<<c.key>>) = 1 /\ <<c.key>>[1] = c.key
    BY <1>5
  <2> HIDE DEF S
  <2>2. parts \in Seq(S) /\ Len(parts) = Len(p3) + 1
        /\ (\A i \in 1 .. Len(p3) : parts[i] = p3[i]) /\ parts[Len(p3) + 1] = c.key
    BY <2>1, ConcatProperties, LenProperties
  <2> HIDE DEF parts
  <2>3. \A i \in 1 .. Len(p3) : p3[i] \in Keys!Modifiers
    BY <1>5, ElementOfSeq
  <2> QED  BY <1>5, <2>1, <2>2, <2>3, LenProperties
<1>8. Keys!Written(c) = parts
  BY DEF Keys!Written, p1, p2, p3
<1> HIDE DEF parts
<1>9. Keys!KeyPlaces(parts) = {Len(p3) + 1}
  <2>1. /\ Len(p3) + 1 \in DOMAIN parts
        /\ \A i \in DOMAIN parts : i = Len(p3) + 1 \/ parts[i] \in Keys!Modifiers
    BY <1>7
  <2>2. parts[Len(p3) + 1] # "" /\ parts[Len(p3) + 1] \notin Keys!Modifiers
    BY <1>1, <1>7
  <2> QED  BY <2>1, <2>2, Zenon DEF Keys!KeyPlaces
<1>10. Keys!ToSet(parts) \cap Keys!Modifiers = c.held
  <2>1. c.held \subseteq Keys!Modifiers
    BY <1>1
  <2>2. \A m \in Keys!Modifiers : (\E i \in DOMAIN parts : m = parts[i]) <=> (\E i \in DOMAIN p3 : m = p3[i])
    <3>1. /\ \A i \in DOMAIN p3 : i \in DOMAIN parts /\ parts[i] = p3[i]
          /\ \A i \in DOMAIN parts : i = Len(p3) + 1 \/ i \in DOMAIN p3
      BY <1>7
    <3>2. parts[Len(p3) + 1] \notin Keys!Modifiers
      BY <1>1, <1>7
    <3> QED  BY <3>1, <3>2, Zenon
  <2>3. \A m : m \in Keys!ToSet(parts) <=> \E i \in DOMAIN parts : m = parts[i]
    BY DEF Keys!ToSet
  <2>4. \A m : m \in c.held <=> \E i \in DOMAIN p3 : m = p3[i]
    BY <1>6 DEF Keys!ToSet
  <2>5. \A m : m \in Keys!ToSet(parts) \cap Keys!Modifiers <=> m \in c.held
    BY <2>1, <2>2, <2>3, <2>4, Zenon
  <2> QED  BY <2>5, Zenon
<1> DEFINE last == CHOOSE i \in Keys!KeyPlaces(parts) : \A j \in Keys!KeyPlaces(parts) : j <= i
<1>11. last = Len(p3) + 1
  BY <1>7, <1>9
<1>12. Keys!Parse(parts) = [key |-> parts[last], held |-> Keys!ToSet(parts) \cap Keys!Modifiers]
  BY <1>9 DEF Keys!Parse
<1> HIDE DEF last
<1>13. Keys!Parse(parts) = [key |-> c.key, held |-> c.held]
  BY <1>7, <1>10, <1>11, <1>12
<1> QED  BY <1>1, <1>8, <1>13

LEMMA KeyIsBound == Keys!PressedIsBound
<1> SUFFICES ASSUME NEW a \in Rebound, NEW c \in Chords \cup {Keys!Unbound}, Keys!Bind(a, c), c.key # "+"
             PROVE  Keys!ChordIn(a, keysOverrides') = c
  BY DEF Keys!PressedIsBound
<1>1. keysOverrides' = Keys!Bound(a, c, keysOverrides)
  BY DEF Keys!Bind
<1>2. CASE c = Keys!ShippedKeys[a]
  <2>1. keysOverrides' = Keys!Without(a, keysOverrides)
    BY <1>1, <1>2 DEF Keys!Bound
  <2>2. a \notin DOMAIN keysOverrides'
    BY <2>1 DEF Keys!Without
  <2> QED  BY <1>2, <2>2 DEF Keys!ChordIn
<1>3. CASE c # Keys!ShippedKeys[a] /\ c = Keys!Unbound
  <2>1. keysOverrides' = Keys!With(a, <<"">>, keysOverrides)
    BY <1>1, <1>3 DEF Keys!Bound
  <2>2. a \in DOMAIN keysOverrides' /\ keysOverrides'[a] = <<"">>
    BY <2>1 DEF Keys!With
  <2>3. Keys!KeyPlaces(<<"">>) = {}
    <3>1. \A i \in DOMAIN <<"">> : i = 1
      OBVIOUS
    <3>2. <<"">>[1] = ""
      OBVIOUS
    <3> QED  BY <3>1, <3>2, Zenon DEF Keys!KeyPlaces
  <2> QED  BY <1>3, <2>2, <2>3 DEF Keys!ChordIn, Keys!Parse
<1>4. CASE c # Keys!ShippedKeys[a] /\ c # Keys!Unbound
  <2>1. keysOverrides' = Keys!With(a, Keys!Written(c), keysOverrides)
    BY <1>1, <1>4 DEF Keys!Bound
  <2>2. a \in DOMAIN keysOverrides' /\ keysOverrides'[a] = Keys!Written(c)
    BY <2>1 DEF Keys!With
  <2>3. Keys!Parse(Keys!Written(c)) = c
    BY <1>4, WrittenIsRead
  <2> QED  BY <2>2, <2>3 DEF Keys!ChordIn
<1> QED  BY <1>2, <1>3, <1>4

-----------------------------------------------------------------------------
(* The traces of the scope, whose own module proves what its steps keep.           *)

TraceInv == Traces!TracesInv /\ Traces!Bounded

LEMMA TracesStarts == Traces!ScopeInit => TraceInv
BY TracesAssumed, Traces!TracesStart, Traces!BoundedStart DEF TraceInv

LEMMA TracesKeep ==
  ASSUME TraceInv, Traces!ScopeNext \/ UNCHANGED TracesVars
  PROVE  TraceInv'
<1>1. [Traces!ScopeNext]_(Traces!scopeVars)
  BY DEF TracesVars, Traces!scopeVars
<1> QED  BY <1>1, TracesAssumed, Traces!TracesStep, Traces!BoundedStep DEF TraceInv

\* As many signals as rows, for none is on two.
LEMMA SignalsCounted ==
  ASSUME TraceInv
  PROVE  Traces!Cardinality(Traces!Loaded(traces)) = Len(traces)
<1> DEFINE n == Len(traces)
           f == [i \in 1 .. n |-> traces[i].signal]
           S == Traces!Loaded(traces)
<1>1. n \in Nat /\ DOMAIN traces = 1 .. n
  BY LenProperties DEF TraceInv, Traces!TracesInv, Traces!TracesTyped
<1>2. S = {traces[i].signal : i \in 1 .. n}
  BY <1>1 DEF Traces!Loaded
<1>3. \A i, j \in 1 .. n : traces[i].signal = traces[j].signal => i = j
  BY <1>1 DEF TraceInv, Traces!TracesInv, Traces!RowsAreOne
<1> HIDE DEF n, S
<1>4. f \in Bijection(1 .. n, S)
  BY <1>2, <1>3 DEF Bijection, Injection, Surjection, IsInjective
<1>5. Cardinality(S) = n
  BY <1>1, <1>4, FS_CountingElements DEF ExistsBijection
<1>6. \A T : Traces!Cardinality(T) = Cardinality(T)
  BY DEF Traces!Cardinality, Cardinality
<1> QED  BY <1>5, <1>6 DEF n, S

LEMMA TracesShow ==
  ASSUME TraceInv
  PROVE  Traces!ScopeTypeOK /\ Traces!DrawnFromItsOwn /\ Traces!AskedIsDrawn
<1>1. traces \in Seq([signal : ScopeSignals, visible : BOOLEAN, style : Traces!Styles,
                      snapshot : Traces!Snapshots \cup {Traces!NoSnapshot}])
  BY DEF TraceInv, Traces!TracesInv, Traces!TracesTyped, Traces!Rows, Traces!Shots
<1>2. MaxLibrary \in Nat \ {0}
  BY TracesAssumed DEF Traces!TracesAssumption
<1>3. generation \in 0 .. MaxGeneration /\ openLibrary \in 1 .. MaxLibrary
  BY <1>2, TracesAssumed DEF TraceInv, Traces!TracesInv, Traces!TracesTyped, Traces!Bounded, Traces!TracesAssumption
<1>4. Traces!ScopeTypeOK
  BY <1>1, <1>3, SignalsCounted
  DEF TraceInv, Traces!TracesInv, Traces!TracesTyped, Traces!Bounded, Traces!ScopeTypeOK
<1> QED  BY <1>4 DEF TraceInv, Traces!TracesInv

-----------------------------------------------------------------------------
(* The application.  Each screen keeps its own, and a step is of one screen.        *)

ApplicationInv ==
  /\ RunsInv
  /\ part = "traces" => TraceInv
  /\ part = "gesture" => GestureInv
  /\ part = "pipeline" => PipelineInv
  /\ part = "results" => ResultsInv
  /\ part \in {"tree", "filters"} => LibraryInv
  /\ part \in {"bins", "page", "name", "tag", "props"} => InspectInv
  /\ part = "properties" => PropsInv
  /\ part \in {"keys", "palette", "drag"} => HintInv
  /\ part = "settings" => SettingsInv

LEMMA ApplicationStarts == ApplicationInit => ApplicationInv
BY RunsStart, TracesStarts, GestureStarts, PipelineStarts, ResultsStarts, LibraryStarts,
   InspectStarts, PropsStarts, HintStarts, SettingsStarts
DEF ApplicationInit, ApplicationInv

LEMMA ApplicationKeeps ==
  ASSUME ApplicationInv, Step
  PROVE  ApplicationInv'
<1> USE DEF ApplicationInv
<1>1. RunsInv'
  BY RunsSteps, RunsKeep
<1>2. part' = part
  BY PartStays
<1>3. part = "traces" => TraceInv'
  BY TracesSteps, TracesKeep
<1>4. part = "gesture" => GestureInv'
  BY GestureSteps, GestureKeeps
<1>5. part = "pipeline" => PipelineInv'
  BY PipelineSteps, PipelineKeeps
<1>6. part = "results" => ResultsInv'
  BY ResultsSteps, ResultsKeeps
<1>7. part \in {"tree", "filters"} => LibraryInv'
  BY LibrarySteps, LibraryKeeps
<1>8. part \in {"bins", "page", "name", "tag", "props"} => InspectInv'
  BY InspectSteps, InspectKeeps
<1>9. part = "properties" => PropsInv'
  BY PropsSteps, PropsKeeps
<1>10. part \in {"keys", "palette", "drag"} => HintInv'
  BY WindowSteps, WindowKeepsHint
<1>11. part = "settings" => SettingsInv'
  BY ChosenSteps, SettingsKeeps
<1> QED  BY <1>1, <1>2, <1>3, <1>4, <1>5, <1>6, <1>7, <1>8, <1>9, <1>10, <1>11

LEMMA ApplicationSteps == ApplicationInv /\ [ApplicationNext]_ApplicationVars => ApplicationInv'
BY ApplicationKeeps DEF Step

\* Every screen keeps its invariant, whatever the user does and in whatever order the
\* answers to what it asked arrive.
THEOREM ScreensKeep == ApplicationSpec => []ApplicationInv
BY ApplicationStarts, ApplicationSteps, PTL DEF ApplicationSpec

LEMMA ShownIs == ApplicationInv => ShownIsSelected
<1> SUFFICES ASSUME ApplicationInv PROVE ShownIsSelected
  OBVIOUS
<1> USE DEF ApplicationInv
<1>1. MarkedAreListed /\ DetailWasWanted
  BY DEF RunsInv
<1>2. part = "traces" => Traces!ScopeTypeOK /\ Traces!DrawnFromItsOwn
  BY TracesShow
<1>3. part = "pipeline" => Pipeline!PipelineTypeOK /\ Pipeline!JobIsGoing
  BY PipelineShows
<1>4. part = "results" => Results!ResultsTypeOK /\ Results!ViewIsSelected
  BY ResultsShows
<1>5. part \in {"tree", "filters"} => Library!PaneIsSelected /\ Library!HitsSatisfyAll
  BY LibraryShows
<1>6. part \in {"bins", "page", "name", "tag", "props"} => Inspect!InspectorTypeOK /\ Inspect!PageIsReal
  BY InspectShows
<1> QED  BY <1>1, <1>2, <1>3, <1>4, <1>5, <1>6 DEF ShownIsSelected

LEMMA WaitsAre == ApplicationInv => WaitsAreOwed
<1> SUFFICES ASSUME ApplicationInv PROVE WaitsAreOwed
  OBVIOUS
<1> USE DEF ApplicationInv
<1>1. LoadingIsOwed
  BY DEF RunsInv
<1>2. part = "pipeline" => Pipeline!BusyIsOwed
  BY PipelineShows
<1>3. part = "results" => Results!LoadingIsOwed
  BY ResultsShows
<1>4. part \in {"tree", "filters"} => Library!WaitsAreOwed
  BY LibraryShows
<1>5. part = "properties" => Props!BusyIsOwed
  BY PropsShows
<1>6. part = "gesture" => Gesture!DragIsHeld /\ Gesture!OneGesturePerPress
  BY GestureShows
<1>7. part \in {"keys", "palette", "drag"} => Window!HintSettles
  BY HintShows
<1> QED  BY <1>1, <1>2, <1>3, <1>4, <1>5, <1>6, <1>7 DEF WaitsAreOwed

LEMMA SettledIs == ApplicationInv => SettledIsCurrent
BY TracesShow, SettingsShows DEF ApplicationInv, SettledIsCurrent

LEMMA WritesAre == ApplicationInv => WritesAreSound
<1> SUFFICES ASSUME ApplicationInv PROVE WritesAreSound
  OBVIOUS
<1> USE DEF ApplicationInv
<1>1. BaselinesHaveRuns
  BY DEF RunsInv
<1>2. part \in {"bins", "page", "name", "tag", "props"} => Inspect!WritesGoHome /\ Inspect!UndeclaredStays
  BY InspectShows
<1>3. part = "properties" => Props!KeysAreSound /\ Props!ParsedIsOfItsKind /\ Props!RowsOfParsedAreValid
  BY PropsShows
<1> QED  BY <1>1, <1>2, <1>3 DEF WritesAreSound

\* What a screen shows is of what is selected on it: the marked and the opened run are
\* listed, a trace is drawn from its own signal's samples, the pipeline's progress is of
\* the run that is going, the plots of the selected stage, the rows of the selected group
\* and filters, the row and page of the target (Message::*Loaded of each screen).  On
\* Results that is said of a run that is open at a group; a run whose detail is out may
\* show the signals of the one before, and one with no groups anything.
THEOREM WhatIsSelectedIsShown == ApplicationSpec => []ShownIsSelected
BY ScreensKeep, ShownIs, PTL

\* A screen that waits is owed an answer, a drag its release, a drop hint its files; and a
\* press gives one of a fit, a seek and a zoom (loading, busy, job, drag_from, hovering).
THEOREM NoWaitIsForgotten == ApplicationSpec => []WaitsAreOwed
BY ScreensKeep, WaitsAre, PTL

\* Once the answers are in, the newest reduction is drawn as it was asked for; both copies
\* of the settings and what works from them agree (scope.rs, state.rs apply_settings).
THEOREM WhatSettlesIsCurrent == ApplicationSpec => []SettledIsCurrent
BY ScreensKeep, SettledIs, PTL

\* A write goes to the signal it was read or typed for and keeps what no definition
\* declares, a baseline's run is there, no two properties share a key, and a text is read
\* as a value of its kind (inspector.rs, runs.rs, properties.rs, props.rs).
THEOREM ScreensWriteSoundly == ApplicationSpec => []WritesAreSound
BY ScreensKeep, WritesAre, PTL

LEMMA SettingsMove ==
  ApplicationInv /\ [ApplicationNext]_ApplicationVars
    => [part = "settings" => Chosen!NeverTorn /\ Chosen!CensusIsOnce]_ApplicationVars
<1> SUFFICES ASSUME ApplicationInv, Step, part = "settings"
             PROVE  Chosen!NeverTorn /\ Chosen!CensusIsOnce
  BY DEF Step
<1> QED  BY ChosenSteps, SettingsKeeps DEF ApplicationInv, SettingsMoves

\* Whatever is on disk changes only to the settings of the process that runs, whole, although
\* a save may fail or the process die at each of its steps, and the files of a folder are
\* taken for old ones only when it becomes the watched one
\* (settings.rs save, state.rs apply_settings).
THEOREM SettingsAreKept == ApplicationSpec => SettingsSurvive
BY ScreensKeep, SettingsMove, PTL DEF ApplicationSpec, SettingsSurvive

LEMMA DoneIs ==
  ApplicationInv /\ [ApplicationNext]_ApplicationVars
    => [/\ part = "keymap" => Keys!PressedIsBound
        /\ part \in {"keys", "palette", "drag"} => Window!KeysBelong /\ Window!BindingsStayPut
        /\ part = "properties" => Props!RefusedKeepsForm]_ApplicationVars
<1> SUFFICES ASSUME ApplicationInv, Step
             PROVE  /\ part = "keymap" => Keys!PressedIsBound
                    /\ part \in {"keys", "palette", "drag"} => Window!KeysBelong /\ Window!BindingsStayPut
                    /\ part = "properties" => Props!RefusedKeepsForm
  BY DEF Step
<1>1. part \in {"keys", "palette", "drag"} => Window!BindingsStayPut
  BY WindowSteps, WindowKeepsHint DEF ApplicationInv, BoundWhereBound, Window!BindingsStayPut
<1> QED  BY <1>1, KeyIsBound, WindowKeysBelong, RefusalKeepsForm

\* A key runs a command of the screen that is showing or a global one, and none while it is
\* captured or typed; a binding changes where keys are bound and to what was pressed; a
\* refused form stays to be corrected (state.rs on_key, keymap.rs bind, properties.rs Saved).
THEOREM WhatIsDoneIsMeant == ApplicationSpec => DoneIsMeant
BY ScreensKeep, DoneIs, PTL DEF ApplicationSpec, DoneIsMeant
===============================================================================
