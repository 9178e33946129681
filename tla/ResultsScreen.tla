---------------------------- MODULE ResultsScreen ----------------------------
(****************************************************************************)
(* The Results screen: a run, a group and a stage are selected, the stage's  *)
(* output is read, and its signals are reduced and drawn.  Each is a job off *)
(* the UI thread; reads and reductions are tagged with the generation of the *)
(* reload they belong to, details of a run and comparisons with nothing.     *)
(****************************************************************************)
EXTENDS Integers, FiniteSets

CONSTANTS Runs,            \* runs of the library
          Newest,          \* the one of them a list of runs begins with
          GroupsOf,        \* [Runs -> set of the run's groups]
          LastStage,       \* stages are 0 (the source) .. LastStage
          MaxReload,       \* bound: generations
          MaxAnswers       \* bound: answers on their way

VARIABLES run, detail,      \* the run selected, the run whose detail is loaded
          group, stage, pinned,
          shown,            \* what the loaded view is of
          failed,           \* the newest load could not be read
          window,           \* the viewport: one of two
          drawn,            \* what the snapshots on the traces are of
          reload,           \* generation: bumped when the selection changes
          loading,          \* the screen says it is loading
          answers,          \* jobs that have not answered
          listed,           \* runs the picker offers
          opening,          \* pending_open: a run to open once the list has arrived
          against, diff,    \* the run compared with, and what the diff shown is of
          wanted            \* pending_against: a run to compare with once one has opened

resultsVars == <<run, detail, group, stage, pinned, shown, failed, window, drawn, reload,
                 loading, answers, listed, opening, against, diff, wanted>>

None == "none"
NoPin == -1
Nothing == <<>>
Stages == 0 .. LastStage
Comparison == <<against, diff, wanted>>
\* The list is not empty, and "no run" and "no group" are none of those there are.
ResultsAssumption ==
  /\ Newest \in Runs /\ None \notin Runs /\ \A r \in Runs : None \notin GroupsOf[r]
  /\ LastStage \in Nat /\ MaxReload \in Nat /\ MaxAnswers \in Nat \ {0}
Listing == <<listed, opening>>

ResultsInit ==
  /\ run = None /\ detail = None /\ group = None /\ stage = 0 /\ pinned = NoPin
  /\ shown = Nothing /\ failed = FALSE /\ window = 0 /\ drawn = Nothing
  /\ reload = 0 /\ loading = TRUE /\ answers = {[kind |-> "runs"]}
  /\ listed = {} /\ opening = None
  /\ against = None /\ diff = Nothing /\ wanted = None

Post(kept, a) == Cardinality(kept \cup {a}) <= MaxAnswers /\ answers' = kept \cup {a}

\* reload: a new generation; nothing is read while no group is selected.
Reload(r, g, s, p, kept, busy) ==
  /\ reload < MaxReload /\ reload' = reload + 1
  /\ failed' = FALSE
  /\ IF r = None \/ g = None
     THEN answers' = kept /\ loading' = busy
     ELSE /\ loading' = TRUE
          /\ Post(kept, [kind |-> "loaded", reload |-> reload + 1, view |-> <<r, g, s, p>>])

\* invalidate: reduces the signals of the view that is loaded, in the window there is.
Reduction(view, w) == [kind |-> "reduced", reload |-> reload, view |-> view, window |-> w]
Invalidate(view, w, kept) == IF view = Nothing THEN answers' = kept /\ drawn' = Nothing
                             ELSE Post(kept, Reduction(view, w)) /\ UNCHANGED drawn

-----------------------------------------------------------------------------
\* select_run: what was shown goes, and the run's detail is read.
Select(r, kept) ==
  /\ run' = r /\ detail' = None /\ shown' = Nothing /\ drawn' = Nothing
  /\ loading' = TRUE
  /\ Post(kept, [kind |-> "detail", run |-> r])

SelectRun == \E r \in listed :
  /\ Select(r, answers)
  /\ UNCHANGED <<group, stage, pinned, failed, window, reload, Listing, Comparison>>

\* load: the list of runs is read, on Refresh and after a promotion.
Refresh ==
  /\ loading' = TRUE /\ Post(answers, [kind |-> "runs"])
  /\ UNCHANGED <<run, detail, group, stage, pinned, shown, failed, window, drawn, reload,
                 Listing, Comparison>>

\* The list; a run asked for by name wins over the newest, which wins over none.
RunsListed == \E a \in answers :
  /\ a.kind = "runs"
  /\ \/ /\ listed' = Runs /\ opening' = None
        /\ LET r == IF opening # None THEN opening ELSE IF run = None THEN Newest ELSE None IN
           IF r # None THEN Select(r, answers \ {a})
           ELSE /\ loading' = FALSE /\ answers' = answers \ {a}
                /\ UNCHANGED <<run, detail, shown, drawn>>
     \/ /\ loading' = FALSE /\ answers' = answers \ {a}
        /\ UNCHANGED <<run, detail, shown, drawn, Listing>>
  /\ UNCHANGED <<group, stage, pinned, failed, window, reload, Comparison>>

\* open_run: the Runs screen hands a run over, with another to compare it to.
OpenRun == \E r \in Runs, other \in Runs \cup {None} :
  /\ wanted' = other /\ against' = None /\ diff' = Nothing
  /\ IF r \in listed
     THEN Select(r, answers) /\ UNCHANGED opening
     ELSE /\ opening' = r /\ loading' = TRUE /\ Post(answers, [kind |-> "runs"])
          /\ UNCHANGED <<run, detail, shown, drawn>>
  /\ UNCHANGED <<group, stage, pinned, failed, window, reload, listed>>

SelectGroup == \E g \in IF detail = None THEN {} ELSE GroupsOf[detail] :
  /\ g # group /\ group' = g
  /\ Reload(run, g, stage, pinned, answers, loading)
  /\ UNCHANGED <<run, detail, stage, pinned, shown, window, drawn, Listing, Comparison>>

\* The rail, and the keys that step along it: neither does anything without a detail.
SelectStage == \E s \in Stages :
  /\ detail # None /\ s # stage /\ stage' = s
  /\ Reload(run, group, s, pinned, answers, loading)
  /\ UNCHANGED <<run, detail, group, pinned, shown, window, drawn, Listing, Comparison>>

\* The pin of a chip; the palette unpins whether or not there is a detail, and what is
\* read then is of the run selected now and of the group there was.
Pin == \E s \in Stages :
  /\ detail # None
  /\ pinned' = IF pinned # s /\ s # stage THEN s ELSE NoPin
  /\ Reload(run, group, stage, pinned', answers, loading)
  /\ UNCHANGED <<run, detail, group, stage, shown, window, drawn, Listing, Comparison>>

Unpin ==
  /\ pinned' = NoPin
  /\ Reload(run, group, stage, NoPin, answers, loading)
  /\ UNCHANGED <<run, detail, group, stage, shown, window, drawn, Listing, Comparison>>

\* A gesture on the canvas.
Gesture ==
  /\ window' = 1 - window
  /\ Invalidate(shown, window', answers)
  /\ UNCHANGED <<run, detail, group, stage, pinned, shown, failed, reload, loading, Listing, Comparison>>

\* compare_with: a run is not compared with itself.
Compare(r, other, kept) ==
  IF other = r THEN answers' = kept /\ UNCHANGED <<against, diff>>
  ELSE /\ against' = other /\ diff' = Nothing
       /\ Post(kept, [kind |-> "compared", pair |-> <<r, other>>])
CompareWith == \E other \in Runs :
  /\ run # None /\ Compare(run, other, answers)
  /\ UNCHANGED <<run, detail, group, stage, pinned, shown, failed, window, drawn, reload,
                 loading, Listing, wanted>>
ClearComparison ==
  /\ against' = None /\ diff' = Nothing
  /\ UNCHANGED <<run, detail, group, stage, pinned, shown, failed, window, drawn, reload,
                 loading, answers, Listing, wanted>>

-----------------------------------------------------------------------------
GroupsAt(r) == IF GroupsOf[r] = {} THEN {None} ELSE GroupsOf[r]
NotLoading == loading' = FALSE

\* The detail of a run: it is opened at its last stage, and at its first group.
DetailAnswered == \E a \in answers :
  /\ a.kind = "detail"
  /\ \/ /\ detail' = a.run /\ stage' = LastStage /\ pinned' = NoPin
        /\ group' \in GroupsAt(a.run)
        /\ wanted' = None
        /\ LET kept == answers \ {a}
               compared == [kind |-> "compared", pair |-> <<run, wanted>>] IN
           IF wanted \in {None, run}
           THEN Reload(run, group', LastStage, NoPin, kept, FALSE) /\ UNCHANGED <<against, diff>>
           ELSE /\ Reload(run, group', LastStage, NoPin, kept \cup {compared}, FALSE)
                /\ against' = wanted /\ diff' = Nothing
        /\ UNCHANGED <<run, shown, window, drawn, Listing>>
     \/ /\ NotLoading /\ answers' = answers \ {a}
        /\ UNCHANGED <<run, detail, group, stage, pinned, shown, failed, window, drawn, reload,
                       Listing, Comparison>>

\* The view: its traces are rebuilt, without snapshots, and reduced; pyramids are built.
SlipStale(a) == FALSE
IsStale(a) == a.reload # reload
Loaded == \E a \in answers :
  /\ a.kind = "loaded"
  /\ IF IsStale(a)
     THEN answers' = answers \ {a} /\ UNCHANGED <<shown, failed, drawn, loading>>
     ELSE /\ loading' = FALSE
          /\ \/ /\ shown' = a.view /\ drawn' = Nothing /\ failed' = FALSE
                /\ Post((answers \ {a}) \cup {[kind |-> "pyramids", reload |-> reload]},
                        Reduction(a.view, window))
             \/ failed' = TRUE /\ answers' = answers \ {a} /\ UNCHANGED <<shown, drawn>>
  /\ UNCHANGED <<run, detail, group, stage, pinned, window, reload, Listing, Comparison>>

\* What is drawn is reduced again, now from its pyramids.
PyramidsBuilt == \E a \in answers :
  /\ a.kind = "pyramids"
  /\ IF a.reload = reload THEN Invalidate(shown, window, answers \ {a})
                          ELSE answers' = answers \ {a} /\ UNCHANGED drawn
  /\ UNCHANGED <<run, detail, group, stage, pinned, shown, failed, window, reload, loading,
                 Listing, Comparison>>

\* A reduction answers for the traces by their place; those of an older generation are
\* dropped, and one that failed leaves the snapshots there are.
Reduced == \E a \in answers :
  /\ a.kind = "reduced" /\ answers' = answers \ {a}
  /\ \/ drawn' = IF a.reload = reload /\ shown # Nothing THEN <<a.view, a.window>> ELSE drawn
     \/ UNCHANGED drawn
  /\ UNCHANGED <<run, detail, group, stage, pinned, shown, failed, window, reload, loading,
                 Listing, Comparison>>

Compared == \E a \in answers :
  /\ a.kind = "compared" /\ answers' = answers \ {a}
  /\ \/ diff' = a.pair /\ UNCHANGED against
     \/ against' = None /\ UNCHANGED diff
  /\ UNCHANGED <<run, detail, group, stage, pinned, shown, failed, window, drawn, reload,
                 loading, Listing, wanted>>

ResultsUser == \/ Refresh \/ SelectRun \/ OpenRun \/ SelectGroup \/ SelectStage \/ Pin \/ Unpin
               \/ Gesture \/ CompareWith \/ ClearComparison
ResultsAnswers == \/ RunsListed \/ DetailAnswered \/ Loaded \/ PyramidsBuilt \/ Reduced \/ Compared
ResultsNext == ResultsUser \/ ResultsAnswers

\* Every job answers; with nobody at the screen nothing is asked for twice.
ResultsFairness == WF_resultsVars(ResultsAnswers)
ResultsSpec == ResultsInit /\ [][ResultsNext]_resultsVars /\ ResultsFairness

-----------------------------------------------------------------------------
\* Every variable holds a value of its type.
ResultsTypeOK ==
  /\ run \in Runs \cup {None} /\ detail \in Runs \cup {None}
  /\ stage \in Stages /\ pinned \in Stages \cup {NoPin}
  /\ detail # None => group \in GroupsOf[detail] \cup {None}
  /\ failed \in BOOLEAN /\ loading \in BOOLEAN /\ window \in 0 .. 1
  /\ reload \in 0 .. MaxReload /\ Cardinality(answers) <= MaxAnswers

\* Once the newest load has been read, in whatever order older ones answered: on a run
\* that is open, at a group of it, the signals on screen are those of the run, group,
\* stage and pin selected.  On a run whose detail is out or could not be read the screen
\* may show another run: select_run clears the view but bumps no generation, so a load
\* asked for before fills it again; group, stage and pin are still those selected, the
\* run may be any.  On a run that has no groups nothing is promised: what such a load
\* put there stays, for without a group reload reads nothing and clears nothing.
Settled == ~failed /\ \A a \in answers : ~(a.kind = "loaded" /\ a.reload = reload)
ViewIsSelected ==
  Settled => /\ detail # None /\ group # None => shown = <<run, group, stage, pinned>>
             /\ detail = None => shown = Nothing \/ \E r \in Runs : shown = <<r, group, stage, pinned>>

\* "Loading" is owed to an answer that will clear it: a list, a detail, or the newest load.
LoadingIsOwed ==
  loading => \E a \in answers : a.kind \in {"runs", "detail"} \/ (a.kind = "loaded" /\ a.reload = reload)

=============================================================================
