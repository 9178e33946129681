----------------------------- MODULE RunsScreen -----------------------------
(* The Runs screen (crates/sp-app/src/screens/runs.rs): the history of what    *)
(* was run, the run that is selected and its assertions, the run marked to be   *)
(* diffed against, and the two writes that promote and delete.  The history and *)
(* the assertions are read on the pool, so their answers arrive in any order;   *)
(* only a detail says which run it is about.  What was done is said in a notice *)
(* that nothing depends on, and a run is opened by the Results screen: neither  *)
(* is here.                                                                    *)
EXTENDS Naturals, FiniteSets

CONSTANTS RunIds,      \* ids a run may get: SQLite gives the next one above the highest
          Names,       \* what may be typed as a baseline's name; "" is a blank one
          Failing,     \* which of the runs recorded failed
          MaxRecorded, \* bound: runs recorded
          MaxAsked     \* bound: reads and writes on their way

VARIABLES runs,        \* run: [id, failed]
          baselines,   \* baseline: [name, id, exact]
          recorded,
          entries, selected, detail, against, promoteAs, failuresOnly,
          loading, error,
          jobs         \* work in the background and its answers

library == <<runs, baselines, recorded>>
runsVars == <<library, entries, selected, detail, against, promoteAs, failuresOnly,
              loading, error, jobs>>
panel == <<selected, detail, against, promoteAs>>

None == {}
IdsOf(rs) == {r.id : r \in rs}

\* load_history: a run and the names that are its baselines.
Entry(r) == [id |-> r.id, failed |-> r.failed,
             names |-> {b.name : b \in {c \in baselines : c.id = r.id}}]
History == [kind |-> "history", entries |-> {Entry(r) : r \in runs}]

Room == Cardinality(jobs) < MaxAsked

\* Elsewhere, a run is recorded: the next id is one more than the highest there is.
NextId == IF runs = {} THEN 1 ELSE 1 + CHOOSE n \in IdsOf(runs) : \A o \in IdsOf(runs) : o <= n
Record ==
  /\ recorded < MaxRecorded /\ NextId \in RunIds /\ recorded' = recorded + 1
  /\ runs' = runs \cup {[id |-> NextId, failed |-> recorded + 1 \in Failing]}
  /\ UNCHANGED <<baselines, entries, panel, failuresOnly, loading, error, jobs>>

\* Elsewhere, a tolerance is given to a baseline.
Loosen(b) ==
  /\ b.exact /\ baselines' = (baselines \ {b}) \cup {[name |-> b.name, id |-> b.id, exact |-> FALSE]}
  /\ UNCHANGED <<runs, recorded, entries, panel, failuresOnly, loading, error, jobs>>

\* State::load; the read sees the library when it runs.
Refresh == /\ Room /\ loading' = TRUE /\ jobs' = jobs \cup {[kind |-> "list"]}
           /\ UNCHANGED <<library, entries, panel, failuresOnly, error>>

ListRead == /\ [kind |-> "list"] \in jobs
            /\ jobs' = (jobs \ {[kind |-> "list"]}) \cup {History}
            /\ UNCHANGED <<library, entries, panel, failuresOnly, loading, error>>
ListFails == /\ [kind |-> "list"] \in jobs /\ jobs' = jobs \ {[kind |-> "list"]}
             /\ loading' = FALSE /\ error' = "unread"
             /\ UNCHANGED <<library, entries, panel, failuresOnly>>

Kept(marked, ids) == marked \cap ids

\* Message::Loaded: what is no longer listed is no longer selected or marked.
Loaded(j) ==
  /\ j \in jobs /\ j.kind = "history" /\ jobs' = jobs \ {j}
  /\ loading' = FALSE /\ error' = "" /\ entries' = j.entries
  /\ selected' = Kept(selected, IdsOf(j.entries))
  /\ detail' = IF selected # None /\ Kept(selected, IdsOf(j.entries)) = None THEN None ELSE detail
  /\ against' = Kept(against, IdsOf(j.entries))
  /\ UNCHANGED <<library, promoteAs, failuresOnly>>

\* State::visible.
Visible(e) == failuresOnly => e.failed

Offered(e) == IF e.names = {} THEN "" ELSE CHOOSE n \in e.names : TRUE
Select(e) ==
  /\ e \in entries /\ Visible(e) /\ Room
  /\ selected' = {e.id} /\ promoteAs' = Offered(e)
  /\ jobs' = jobs \cup {[kind |-> "detail", id |-> e.id]}
  /\ UNCHANGED <<library, entries, detail, against, failuresOnly, loading, error>>

\* load_detail: the assertions of whichever run has the id.
DetailRead(j) ==
  /\ j \in jobs /\ j.kind = "detail"
  /\ jobs' = (jobs \ {j}) \cup {[kind |-> "assertions", id |-> j.id]}
  /\ UNCHANGED <<library, entries, panel, failuresOnly, loading, error>>

Mine(j) == selected = {j.id}

\* Message::DetailLoaded.
DetailLoaded(j) ==
  /\ j \in jobs /\ j.kind = "assertions" /\ jobs' = jobs \ {j}
  /\ detail' = IF Mine(j) THEN {[id |-> j.id, got |-> selected]} ELSE detail
  /\ UNCHANGED <<library, entries, selected, against, promoteAs, failuresOnly,
                 loading, error>>

DetailFails(j) ==
  /\ j \in jobs /\ j.kind = "detail" /\ jobs' = jobs \ {j}
  /\ error' = IF Mine(j) THEN "unread" ELSE error
  /\ UNCHANGED <<library, entries, panel, failuresOnly, loading>>

ToggleFailuresOnly == /\ failuresOnly' = ~failuresOnly
                      /\ UNCHANGED <<library, entries, panel, loading, error, jobs>>

\* The Mark button of a row.
Mark(e) == /\ e \in entries /\ Visible(e)
           /\ against' = IF against = {e.id} THEN None ELSE {e.id}
           /\ UNCHANGED <<library, entries, selected, detail, promoteAs, failuresOnly,
                          loading, error, jobs>>
ClearAgainst == /\ against # None /\ against' = None
                /\ UNCHANGED <<library, entries, selected, detail, promoteAs, failuresOnly,
                               loading, error, jobs>>

\* The panel is drawn for a selected run that is listed.
Panel(id) == selected = {id} /\ id \in IdsOf(entries)

PromoteAs(n) == /\ selected # None /\ promoteAs' = n
                /\ UNCHANGED <<library, entries, selected, detail, against, failuresOnly,
                               loading, error, jobs>>

\* Message::Promote: a name is needed; the write comes later.
Promote(id) ==
  /\ Panel(id)
  /\ IF promoteAs = "" THEN error' = "refused" /\ UNCHANGED jobs
     ELSE Room /\ error' = "" /\ jobs' = jobs \cup {[kind |-> "promote", id |-> id, name |-> promoteAs]}
  /\ UNCHANGED <<library, entries, panel, failuresOnly, loading>>

Delete(id) == /\ Panel(id) /\ Room /\ jobs' = jobs \cup {[kind |-> "delete", id |-> id]}
              /\ UNCHANGED <<library, entries, panel, failuresOnly, loading, error>>

Named(n) == {b \in baselines : b.name = n}

\* regress::promote on a run that is there; the name's tolerances stay with it.
SlipTolerance(n) == TRUE
Tolerance(n) == \A b \in Named(n) : b.exact
Promoted(j) == (baselines \ Named(j.name)) \cup {[name |-> j.name, id |-> j.id, exact |-> Tolerance(j.name)]}

PromoteRuns(j) ==
  /\ j \in jobs /\ j.kind = "promote"
  /\ LET ok == j.id \in IdsOf(runs)
     IN  /\ baselines' = IF ok THEN Promoted(j) ELSE baselines
         /\ jobs' = (jobs \ {j}) \cup {[kind |-> "done", ok |-> ok]}
  /\ UNCHANGED <<runs, recorded, entries, panel, failuresOnly, loading, error>>

Deletable(id) == id \in IdsOf(runs) /\ id \notin IdsOf(baselines)
DeleteRuns(j) ==
  /\ j \in jobs /\ j.kind = "delete"
  /\ LET ok == Deletable(j.id)
     IN  /\ runs' = IF ok THEN {r \in runs : r.id # j.id} ELSE runs
         /\ jobs' = (jobs \ {j}) \cup {[kind |-> "done", ok |-> ok]}
  /\ UNCHANGED <<baselines, recorded, entries, panel, failuresOnly, loading, error>>

\* Message::Done, which reads the history again whatever happened.
Reread == [kind |-> "list"]
Again(j) == {Reread}
Done(j) ==
  /\ j \in jobs /\ j.kind = "done" /\ jobs' = (jobs \ {j}) \cup Again(j)
  /\ error' = IF j.ok THEN "" ELSE "refused"
  /\ loading' = TRUE
  /\ UNCHANGED <<library, entries, panel, failuresOnly>>

RunsInit == /\ runs = {} /\ baselines = {} /\ recorded = 0
            /\ entries = {} /\ selected = None /\ detail = None /\ against = None
            /\ promoteAs = "" /\ failuresOnly = FALSE
            /\ loading = FALSE /\ error = "" /\ jobs = {}

\* The table: what is read, selected and deleted.
TableNext ==
  \/ Record \/ Refresh \/ ListRead \/ ListFails
  \/ \E e \in entries : Select(e)
  \/ \E id \in RunIds : Delete(id)
  \/ \E j \in jobs : Loaded(j) \/ DetailRead(j) \/ DetailFails(j) \/ DetailLoaded(j) \/ DeleteRuns(j) \/ Done(j)
\* What is marked and hidden in it, and what is promoted from it.
MarksNext == ToggleFailuresOnly \/ ClearAgainst \/ \E e \in entries : Mark(e)
PromotionsNext ==
  \/ \E b \in baselines : Loosen(b)
  \/ \E id \in RunIds : Promote(id)
  \/ \E n \in Names : PromoteAs(n)
  \/ \E j \in jobs : PromoteRuns(j)
RunsNext == TableNext \/ MarksNext \/ PromotionsNext

RunsSpec == RunsInit /\ [][RunsNext]_runsVars

----------------------------------------------------------------------------
\* Whatever is selected or marked is a run the table lists, so that the panel
\* and its buttons act on a run the user can see (runs.rs Loaded).
MarkedAreListed == selected \cup against \subseteq IdsOf(entries)

\* The screen says it is reading only while a read is under way (runs.rs load,
\* Loaded and Done).
LoadingIsOwed == loading => \E j \in jobs : j.kind \in {"list", "history"}

\* The assertions kept are those asked for when their run was selected: a late
\* answer about another run is dropped (runs.rs DetailLoaded).
DetailWasWanted == \A d \in detail : d.got = {d.id}

\* Accepting a run on the Runs screen under a name that exists changes what the name
\* points at and not how it is compared (runs.rs Promote).  The Results screen also
\* promotes, with the tolerance typed there (results.rs promote): that is outside this.
PromotionKeepsTolerances ==
  [][\A b \in baselines, c \in baselines' : b.name = c.name /\ b.id # c.id => b.exact = c.exact]_runsVars

\* A run a baseline names is never deleted, whatever was asked and in which
\* order the two writes ran (sp-store runs.rs delete_run, regress.rs promote).
BaselinesHaveRuns == IdsOf(baselines) \subseteq IdsOf(runs)
=============================================================================
