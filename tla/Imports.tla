------------------------------- MODULE Imports -------------------------------
(***************************************************************************)
(* The import queue and the watched folder of the application              *)
(* (crates/sp-app/src/screens/import.rs, watch.rs, and the root's update   *)
(* in state.rs).  Each action is one message the root handles.  Files are  *)
(* numbered in the order of their names; a file's stem stands for the name *)
(* its dataset gets after it.  A stamp (length and modification time) is   *)
(* the number of the write that left it: two writes do not share one.      *)
(***************************************************************************)
EXTENDS Naturals, FiniteSetsExt, SequencesExt

CONSTANTS
  Files,         \* importable files
  Watched,       \* those that may appear in the watched folder
  Batches,       \* sequences of files a person picks or drops at once
  Typed,         \* dataset names a person may type
  Libraries,     \* libraries there are; NoLibrary is one if opening may fail
  MaxWrites,     \* bound on the writes to the folder
  OutcomeRows,   \* outcomes kept
  NoLibrary, NoFile, Blank

\* What waits in the queue: a path, and who put it there.
Entries == [path : Files, source : {"chosen", "dropped", "watched"}]

ASSUME ImportsAssumption ==
  /\ Files \subseteq Nat /\ IsFiniteSet(Files) /\ Watched \subseteq Files
  /\ \A b \in Batches : b \in Seq(Files) /\ b # <<>> /\ IsInjective(b)
  /\ Typed \cap Files = {} /\ Blank \notin Typed \cup Files
  /\ Libraries # {} /\ NoFile \notin Entries
  /\ MaxWrites \in Nat \ {0} /\ OutcomeRows \in Nat \ {0}

VARIABLES
  folder,     \* [Watched -> stamp], 0 for no such file
  writes,     \* writes so far
  watching,   \* Watcher.folder is set
  seen,       \* Watcher.seen: a stamp while settling, Done, or 0 for unknown
  queue, running, automatic, total,   \* State.queue, running, run_automatic, run_total
  name,       \* State.dataset_name
  label,      \* the dataset name the running import was given
  outcomes,   \* State.outcomes
  library,    \* the open library, or NoLibrary
  history,    \* what has happened to each file of the folder since it appeared
  scanned     \* files the watch has scanned since they last changed

watcherVars == <<watching, seen, history, scanned>>
queueVars == <<queue, running, automatic, total, name, label, outcomes>>
vars == <<folder, writes, library, watcherVars, queueVars>>

Done == MaxWrites + 1
Entry(f, source) == [path |-> f, source |-> source]
Idle == running = NoFile
LibraryOpen == library # NoLibrary
InHand == {queue[i].path : i \in DOMAIN queue} \cup (IF Idle THEN {} ELSE {running.path})
IsAutomatic(e) == e.source = "watched"
Present == {f \in Watched : folder[f] # 0}

Init ==
  /\ folder \in [Watched -> {0, 1}] /\ writes = 1
  /\ watching = FALSE /\ seen = [f \in Watched |-> 0]
  /\ queue = <<>> /\ running = NoFile /\ automatic = FALSE /\ total = 0
  /\ name = Blank /\ label = Blank /\ outcomes = <<>>
  /\ library \in Libraries
  /\ history = [f \in Watched |-> "new"] /\ scanned = {}

-----------------------------------------------------------------------------
(* Draining the queue *)

NameFor(e, n) == IF ~IsAutomatic(e) /\ n <= 1 /\ name # Blank THEN name ELSE e.path

SlipAnyone(q, auto) == DOMAIN q
SlipOwnOnly(q, auto) == {i \in DOMAIN q : IsAutomatic(q[i]) = auto}
\* The entries a drain may take.
Takeable(q, auto) == {i \in DOMAIN q : auto => IsAutomatic(q[i])}

SlipRest(q, i) == Tail(q)
\* The queue without the entry that is taken.
Rest(q, i) == RemoveAt(q, i)
\* start_next, over queue q: the entry is off the queue before the library is
\* asked about.
StartNext(q, auto, n) ==
  IF Takeable(q, auto) = {}
  THEN /\ queue' = q /\ running' = NoFile /\ label' = Blank
       /\ automatic' = FALSE /\ total' = 0
  ELSE LET i == Min(Takeable(q, auto)) IN
       /\ queue' = Rest(q, i)
       /\ automatic' = auto /\ total' = n
       /\ IF LibraryOpen THEN running' = q[i] /\ label' = NameFor(q[i], n)
                          ELSE running' = NoFile /\ label' = Blank

\* The numbers of a finite set, least first.
InOrder(S) ==
  CHOOSE s \in [1 .. Cardinality(S) -> S] : \A i, j \in DOMAIN s : i < j => s[i] < s[j]
\* The paths that are neither queued nor being imported, in their order.
Fresh(paths) ==
  LET at == InOrder({i \in DOMAIN paths : paths[i] \notin InHand})
  IN  [k \in DOMAIN at |-> paths[at[k]]]
Joined(added, source) == queue \o [i \in DOMAIN added |-> Entry(added[i], source)]
Enqueue(paths, source) ==
  LET added == Fresh(paths)
      q == Joined(added, source)
      adopts == added # <<>> /\ Idle /\ queue = <<>> /\ name = Blank
  IN
  /\ name' = IF adopts THEN added[1] ELSE name
  /\ IF added # <<>> /\ source = "watched" /\ Idle /\ LibraryOpen
     THEN StartNext(q, TRUE, Cardinality(Takeable(q, TRUE)))
     ELSE queue' = q /\ UNCHANGED <<running, automatic, total, label>>
  /\ UNCHANGED outcomes

Elsewhere == UNCHANGED <<folder, writes, library, watcherVars>>

Pick(paths) == Enqueue(paths, "chosen") /\ Elsewhere
Drop(paths) == Enqueue(paths, "dropped") /\ Elsewhere

\* Message::Start, with f in the path field: drain(store, false).
Start(f) ==
  /\ Idle /\ LibraryOpen
  /\ LET q == IF queue = <<>> THEN <<Entry(f, "chosen")>> ELSE queue
     IN  StartNext(q, FALSE, Len(q))
  /\ outcomes' = <<>>
  /\ UNCHANGED name /\ Elsewhere

Record(e) ==
  outcomes' = LET all == Append(outcomes, e.path)
              IN SubSeq(all, IF Len(all) > OutcomeRows THEN Len(all) - OutcomeRows + 1 ELSE 1,
                        Len(all))
Imported ==
  /\ ~Idle
  /\ Record(running)
  /\ StartNext(queue, automatic, total)
  /\ UNCHANGED name /\ Elsewhere

Dequeue(i) ==
  /\ i \in DOMAIN queue
  /\ queue' = RemoveAt(queue, i)
  /\ UNCHANGED <<running, automatic, total, name, label, outcomes>> /\ Elsewhere

ClearQueue ==
  /\ queue # <<>> /\ queue' = <<>>
  /\ UNCHANGED <<running, automatic, total, name, label, outcomes>> /\ Elsewhere

ClearOutcomes ==
  /\ outcomes # <<>> /\ outcomes' = <<>>
  /\ UNCHANGED <<queue, running, automatic, total, name, label>> /\ Elsewhere

TypeName(n) ==
  /\ name' = n
  /\ UNCHANGED <<queue, running, automatic, total, label, outcomes>> /\ Elsewhere

-----------------------------------------------------------------------------
(* The watched folder *)

Write(f) ==
  /\ writes < MaxWrites
  /\ writes' = writes + 1
  /\ folder' = [folder EXCEPT ![f] = writes + 1]
  /\ history' = [history EXCEPT ![f] = IF folder[f] = 0 THEN "new" ELSE @]
  /\ scanned' = scanned \ {f}
  /\ UNCHANGED <<library, watching, seen, queueVars>>

Delete(f) ==
  /\ f \in Present
  /\ folder' = [folder EXCEPT ![f] = 0]
  /\ scanned' = scanned \ {f}
  /\ UNCHANGED <<writes, library, watching, seen, history, queueVars>>

Census == Present
Watch ==
  /\ ~watching /\ watching' = TRUE
  /\ seen' = [f \in Watched |-> IF f \in Census THEN Done ELSE 0]
  /\ history' = [f \in Watched |-> IF f \in Present THEN "adopted" ELSE history[f]]
  /\ scanned' = {}
  /\ UNCHANGED <<folder, writes, library, queueVars>>

Unwatch ==
  /\ watching /\ watching' = FALSE
  /\ seen' = [f \in Watched |-> 0]
  /\ scanned' = {}
  /\ UNCHANGED <<folder, writes, library, history, queueVars>>

SlipSettled(f) == seen[f] # 0
\* A file that was settling and is as it was.
Settled(f) == seen[f] = folder[f]

\* Message::WatchTick: Watcher::poll, during which the files lost vanish
\* between the listing and their stat, and the enqueue of what it returns.
WatchTick(lost) ==
  LET there == Present \ lost
      ready == {f \in there : seen[f] # Done /\ Settled(f)}
  IN
  /\ watching
  /\ folder' = [f \in Watched |-> IF f \in lost THEN 0 ELSE folder[f]]
  /\ seen' = [f \in Watched |-> IF f \notin there THEN 0
                                ELSE IF seen[f] = Done \/ f \in ready THEN Done ELSE folder[f]]
  /\ history' = [f \in Watched |-> IF f \in ready THEN "offered" ELSE history[f]]
  /\ scanned' = there
  /\ IF ready = {} THEN UNCHANGED queueVars
                   ELSE Enqueue(InOrder(ready), "watched")
  /\ UNCHANGED <<writes, library, watching>>

\* Message::SweepWatchedFolder
Sweep ==
  /\ watching /\ Present # {}
  /\ seen' = [f \in Watched |-> IF f \in Present THEN Done ELSE seen[f]]
  /\ history' = [f \in Watched |-> IF f \in Present THEN "swept" ELSE history[f]]
  /\ Enqueue(InOrder(Present), "watched")
  /\ UNCHANGED <<folder, writes, library, watching, scanned>>

\* App::open: another library, or none if it cannot be opened.
SwitchLibrary ==
  /\ library' \in Libraries
  /\ UNCHANGED <<folder, writes, watcherVars, queueVars>>

Next ==
  \/ \E b \in Batches : Pick(b) \/ Drop(b)
  \/ \E f \in Files : Start(f)
  \/ Imported
  \/ \E i \in 1 .. Cardinality(Files) : Dequeue(i)
  \/ ClearQueue \/ ClearOutcomes
  \/ \E n \in Typed \cup {Blank} : TypeName(n)
  \/ \E f \in Watched : Write(f) \/ Delete(f)
  \/ Watch \/ Unwatch \/ Sweep
  \/ \E lost \in SUBSET Present : WatchTick(lost)
  \/ SwitchLibrary

\* An import that was started comes back, well or badly: the writer thread
\* serves every job.
Spec == Init /\ [][Next]_vars /\ WF_vars(Imported)

-----------------------------------------------------------------------------
(* Properties *)

\* The state is well formed, and an import runs under an open job only.
TypeOK ==
  /\ folder \in [Watched -> 0 .. MaxWrites] /\ writes \in 1 .. MaxWrites
  /\ watching \in BOOLEAN /\ seen \in [Watched -> 0 .. Done]
  /\ queue \in BoundedSeq(Entries, Cardinality(Files)) /\ running \in Entries \cup {NoFile}
  /\ automatic \in BOOLEAN /\ total \in 0 .. Cardinality(Files)
  /\ name \in Files \cup Typed \cup {Blank} /\ label \in Files \cup Typed \cup {Blank}
  /\ outcomes \in BoundedSeq(Files, OutcomeRows) /\ library \in Libraries \cup {NoLibrary}

\* A file a person dropped and the watcher found is imported once: no path is
\* in the queue twice, nor queued while it is being imported (enqueue).
NoDuplicates ==
  /\ \A i, j \in DOMAIN queue : queue[i].path = queue[j].path => i = j
  /\ ~Idle => \A i \in DOMAIN queue : queue[i].path # running.path

\* What nobody asked for is never imported: the watcher's drain takes only
\* what the watcher queued, whatever a person queues meanwhile, and a watched
\* file is named after itself (start_next, dataset_name_for).
Unattended ==
  ~Idle => /\ automatic => IsAutomatic(running)
           /\ IsAutomatic(running) => label = running.path

\* The queue is what people and the watcher put there, each file once, and
\* nothing nobody asked for is imported.
QueueIsSound == TypeOK /\ NoDuplicates /\ Unattended

\* A file leaves by an import whose outcome is put on record, unless a person
\* takes it off the queue (start_next, record), with one exception: where an
\* import comes back after the library is gone, the file whose turn it is
\* leaves with no import and no outcome (import.rs 834-842).  It alone does.
Turn == queue[Min(Takeable(queue, automatic))].path
NothingDropped ==
  [][running' # running \/ outcomes' # outcomes =>
       \A f \in InHand \ InHand' :
          /\ ~Idle
          /\ \/ f = running.path /\ outcomes'[Len(outcomes')] = f
             \/ ~LibraryOpen /\ f = Turn]_vars

\* Watched files that no import will call: none is running.
Stalled == IF Idle THEN {queue[i].path : i \in {k \in DOMAIN queue : IsAutomatic(queue[k])}}
           ELSE {}
\* A watched file never comes to wait for a person while a library is open: it
\* is queued behind an import that is running, and taken by the drain that
\* follows (enqueue, start_next).  Files that stalled while none was open stay
\* so until a drain starts, which opening a library does not do.
WatchNeverStalls == [][LibraryOpen => Stalled' \subseteq Stalled]_vars

\* What is queued is imported in its turn: nothing is lost on the way, nothing
\* the watcher found is left behind, but for what has no library to go to.
DrainsAreSound == NothingDropped /\ WatchNeverStalls

\* What a scan offers appeared since the watch began, was there in the scan
\* before, and has not been written since that one (Watcher::poll): neither a
\* file the census adopted nor one half written is imported by itself.
OffersAreRipe ==
  [][\A f \in Watched : history[f] # "offered" /\ history'[f] = "offered" =>
        history[f] = "new" /\ f \in scanned /\ folder'[f] = folder[f]]_vars

\* Every watched file that is queued while an import runs leaves the queue,
\* however many files people go on dropping behind it, as long as the library
\* stays open (start_next).
WatchedImported ==
  \A f \in Watched :
     LibraryOpen /\ ~Idle /\ (\E i \in DOMAIN queue : queue[i] = Entry(f, "watched"))
       ~> ~LibraryOpen \/ (\A i \in DOMAIN queue : queue[i].path # f)

=============================================================================
