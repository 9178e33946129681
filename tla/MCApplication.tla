---------------------------- MODULE MCApplication --------------------------
(* The screens of the application, each with the part of the system that     *)
(* answers it: a behaviour is of one screen, and the others are not there.   *)
(* Small libraries, forms, keyboards and runs for them.                      *)
EXTENDS RunsScreen, TLC

CONSTANTS Parts,      \* the components checked
  s1, s2, s3
\* What each component is given: its own names, a prefix where two share one.
CONSTANTS
  ScopeSignals, MaxTraces, MaxGeneration, MaxLibrary,
  Columns, Widths, DragThreshold, DoubleClick, DoubleReach, MaxClock,
  Documents, Draft, SavedAs, Datasets, MaxRows, MaxRuns, MaxOut,
  Runs, Newest, GroupsOf, LastStage, MaxReload, MaxAnswers,
  Groups, LibrarySignals, LibraryWords, FilterTexts, MaxLibraryAsked,
  Targets, Count, PAGE, Damaged, DraftTexts, MaxInspected,
  Labels, KeyTexts, ChoiceTexts, KindNames, PropWords, Scopes, MaxDeclared, MaxPropsAsked,
  Chords, Rebound,
  VISIBLE, ShellChords, ShellBound, ShellLibraries, SignalsOf(_), Commands, ShellStages, Queries,
  MaxHover,
  Paths, Loadable, Folders, Files, Readable, MaxEdits

VARIABLE part      \* the component a behaviour is of
VARIABLES
  traces, generation, reducing, status, view, openLibrary, reductions, builds,
  tracesAsked,
  cursor, gestureHeld, shift, bounds, clock, modifiers, dragFrom, dragTo, lastClick,
  width, emitted, spent, swallowed,
  pipelineLibrary, document, savedId, picks, dataset, groups, chosen, job, pipelineBusy,
  rows, pipelineReads, saves, pipelineRuns,
  run, resultsDetail, group, stage, pinned, resultsShown, failed, window, drawn, reload,
  resultsLoading, resultsAnswers, resultsListed, opening, resultsAgainst, diff, wanted,
  libraryHeld, index, libraryLoading, librarySelected, libraryDetail, detailError,
  search, tagFilter, propKey, propValue, hits, libraryNotice, libraryAsked,
  row, inspectTarget, inspectDetail, profiling, profile, values, pageStart, bins,
  nameDraft, inspectDrafts, inspectNotice, inspectError, inspectReads, inspectAnswers,
  inspectWrites, inspectWritten,
  declared, form, propsBusy, propsListed, propsError, propsNotice, propsWrites,
  propsAnswers,
  keysOverrides,
  windowOverrides, screen, palette, rebinding, typing, hovering, drag, windowLibrary,
  windowListed, ran, windowTarget,
  disk, saving, app, chosenShown, draft, used, adopted, loadedLibs, store, chosenNotice, edits


\* Traces: three signals.
MCScopeSignals == {s1, s2, s3}
\* Pipeline: a library with one saved pipeline, and one without.
MCSavedAs == <<<<"a">>, <<>>>>
\* Results: one run with a group, one without.
MCGroupsOf == [r \in {"r1", "r2"} |-> IF r = "r1" THEN {"g1"} ELSE {}]
\* Library: two groups, a pulse train and a plain one, and their signals.
MCGroups == {[id |-> 1, pulse |-> FALSE, dataset |-> 1, exportable |-> TRUE],
             [id |-> 2, pulse |-> TRUE, dataset |-> 2, exportable |-> FALSE]}
MCLibrarySignals ==
  {[id |-> 1, group |-> 1, word |-> "tone", tags |-> {"gold"}, props |-> [num |-> {2}, txt |-> {}]],
   [id |-> 2, group |-> 1, word |-> "noise", tags |-> {"gold"}, props |-> [num |-> {1}, txt |-> {}]],
   [id |-> 3, group |-> 2, word |-> "tone", tags |-> {}, props |-> [num |-> {}, txt |-> {1}]]}
MCFilterTexts == {[form |-> "above", of |-> 2]}
\* Inspector: a signal of two pages and one that fills a page.
MCCount == [t \in {1, 2} |-> IF t = 1 THEN 3 ELSE 2]
\* Properties: what may be typed into the fields of the form.
MCLabels == {[text |-> "", norm |-> ""], [text |-> "PRF", norm |-> "prf"]}
MCKeyTexts == {[text |-> "", snake |-> FALSE], [text |-> "PRF", snake |-> FALSE]}
MCChoiceTexts == {[blank |-> TRUE, variants |-> {}], [blank |-> FALSE, variants |-> {"nrz"}]}
\* Keymap and shell: the chords pressed, what is bound, what the palette lists.
Pressed(key, held) == [key |-> key, held |-> held]
MCChords == {Pressed("t", {"ctrl"}), Pressed("space", {}), Pressed("p", {"alt"}), Pressed("home", {"shift"})}
MCRebound == {<<"Global", "ToggleTheme">>, <<"Global", "Runs">>, <<"Scope", "Stop">>, <<"Pipeline", "Run">>}
MCShellBound == {<<"Scope", "Stop">>}
MCShellChords == {Pressed(key, {"ctrl"}) : key \in {"k", "3"}}
                 \cup {Pressed(key, {}) : key \in {"space", "[", "escape", "down", "up", "enter"}}
MCCommands ==
  << [kind |-> "command", id |-> <<"Scope", "Toggle">>, label |-> <<"p", "l", "a", "y">>, alt |-> <<"s", ".", "p">>],
     [kind |-> "command", id |-> <<"Global", "OpenPalette">>, label |-> <<"o", "p">>, alt |-> <<>>],
     [kind |-> "command", id |-> <<"Settings", "ResetKeymap">>, label |-> <<"r", " ", "s">>, alt |-> <<>>] >>
MCStages == << [kind |-> "stage", id |-> <<"fft", "fft">>, label |-> <<"f">>, alt |-> <<"d", ".", "f">>] >>
MCSignalsOf(l) ==
  IF l = 0 THEN <<>> ELSE << [kind |-> "signal", id |-> <<ToString(l), "1">>, label |-> <<"s">>, alt |-> <<"p", "g">>] >>
MCQueries == {<<"p">>, <<"s">>, <<"p", "p">>, <<"q">>}

-----------------------------------------------------------------------------
Traces == INSTANCE ScopeTraces WITH Signals <- ScopeSignals, asked <- tracesAsked
Gesture == INSTANCE ScopeGesture WITH held <- gestureHeld
Pipeline == INSTANCE PipelineScreen WITH
  library <- pipelineLibrary, busy <- pipelineBusy, reads <- pipelineReads,
  runs <- pipelineRuns
Results == INSTANCE ResultsScreen WITH
  detail <- resultsDetail, shown <- resultsShown, loading <- resultsLoading,
  answers <- resultsAnswers, listed <- resultsListed, against <- resultsAgainst
Library == INSTANCE LibraryScreen WITH
  Signals <- LibrarySignals, Words <- LibraryWords, Typed <- FilterTexts,
  MaxAsked <- MaxLibraryAsked, held <- libraryHeld, loading <- libraryLoading,
  selected <- librarySelected, detail <- libraryDetail, notice <- libraryNotice,
  asked <- libraryAsked
Inspect == INSTANCE Inspector WITH
  Texts <- DraftTexts, MaxAsked <- MaxInspected, target <- inspectTarget, detail <- inspectDetail,
  drafts <- inspectDrafts, notice <- inspectNotice, error <- inspectError,
  reads <- inspectReads, answers <- inspectAnswers, writes <- inspectWrites, written <- inspectWritten
Props == INSTANCE PropertiesScreen WITH
  Keys <- KeyTexts, Choices <- ChoiceTexts, Words <- PropWords, MaxAsked <- MaxPropsAsked,
  busy <- propsBusy, listed <- propsListed, error <- propsError, notice <- propsNotice,
  writes <- propsWrites, answers <- propsAnswers
Keys == INSTANCE Keymap WITH
  Pressable <- Chords, Bindable <- Rebound, overrides <- keysOverrides
Window == INSTANCE Shell WITH
  Libraries <- ShellLibraries, Stages <- ShellStages, Pressable <- ShellChords,
  Bindable <- ShellBound, overrides <- windowOverrides, library <- windowLibrary, listed <- windowListed, target <- windowTarget
Chosen == INSTANCE Settings WITH shown <- chosenShown, notice <- chosenNotice
\* What the theorems assume of these constants.
ASSUME TracesAssumed == Traces!TracesAssumption
ASSUME PipelineAssumed == Pipeline!PipelineAssumption
ASSUME ResultsAssumed == Results!ResultsAssumption
ASSUME LibraryAssumed == Library!LibraryAssumption
ASSUME InspectAssumed == Inspect!InspectorAssumption
ASSUME KeysAssumed == Keys!KeymapAssumption

TracesUnused ==
  traces = 0 /\ generation = 0 /\ reducing = 0 /\ status = 0 /\ view = 0 /\
  openLibrary = 0 /\ reductions = 0 /\ builds = 0 /\ tracesAsked = 0
GestureUnused ==
  cursor = 0 /\ gestureHeld = 0 /\ shift = 0 /\ bounds = 0 /\ clock = 0 /\
  modifiers = 0 /\ dragFrom = 0 /\ dragTo = 0 /\ lastClick = 0 /\ width = 0 /\
  emitted = 0 /\ spent = 0 /\ swallowed = 0
PipelineUnused ==
  pipelineLibrary = 0 /\ document = 0 /\ savedId = 0 /\ picks = 0 /\ dataset = 0 /\
  groups = 0 /\ chosen = 0 /\ job = 0 /\ pipelineBusy = 0 /\ rows = 0 /\
  pipelineReads = 0 /\ saves = 0 /\ pipelineRuns = 0
ResultsUnused ==
  run = 0 /\ resultsDetail = 0 /\ group = 0 /\ stage = 0 /\ pinned = 0 /\
  resultsShown = 0 /\ failed = 0 /\ window = 0 /\ drawn = 0 /\ reload = 0 /\
  resultsLoading = 0 /\ resultsAnswers = 0 /\ resultsListed = 0 /\ opening = 0 /\
  resultsAgainst = 0 /\ diff = 0 /\ wanted = 0
LibraryUnused ==
  libraryHeld = 0 /\ index = 0 /\ libraryLoading = 0 /\ librarySelected = 0 /\
  libraryDetail = 0 /\ detailError = 0 /\ search = 0 /\ tagFilter = 0 /\ propKey = 0 /\
  propValue = 0 /\ hits = 0 /\ libraryNotice = 0 /\ libraryAsked = 0
InspectUnused ==
  row = 0 /\ inspectTarget = 0 /\ inspectDetail = 0 /\ profiling = 0 /\ profile = 0 /\
  values = 0 /\ pageStart = 0 /\ bins = 0 /\ nameDraft = 0 /\ inspectDrafts = 0 /\
  inspectNotice = 0 /\ inspectError = 0 /\ inspectReads = 0 /\ inspectAnswers = 0 /\
  inspectWrites = 0 /\ inspectWritten = 0
PropsUnused ==
  declared = 0 /\ form = 0 /\ propsBusy = 0 /\ propsListed = 0 /\ propsError = 0 /\
  propsNotice = 0 /\ propsWrites = 0 /\ propsAnswers = 0
KeysUnused ==
  keysOverrides = 0
WindowUnused ==
  windowOverrides = 0 /\ screen = 0 /\ palette = 0 /\ rebinding = 0 /\ typing = 0 /\
  hovering = 0 /\ drag = 0 /\ windowLibrary = 0 /\ windowListed = 0 /\ ran = 0 /\
  windowTarget = 0
ChosenUnused ==
  disk = 0 /\ saving = 0 /\ app = 0 /\ chosenShown = 0 /\ draft = 0 /\ used = 0 /\ adopted = 0 /\
  loadedLibs = 0 /\ store = 0 /\ chosenNotice = 0 /\ edits = 0
TracesVars == <<traces, generation, reducing, status, view, openLibrary, reductions,
  builds, tracesAsked>>
GestureVars == <<cursor, gestureHeld, shift, bounds, clock, modifiers, dragFrom,
  dragTo, lastClick, width, emitted, spent, swallowed>>
PipelineVars == <<pipelineLibrary, document, savedId, picks, dataset, groups,
  chosen, job, pipelineBusy, rows, pipelineReads, saves, pipelineRuns>>
ResultsVars == <<run, resultsDetail, group, stage, pinned, resultsShown, failed,
  window, drawn, reload, resultsLoading, resultsAnswers, resultsListed, opening,
  resultsAgainst, diff, wanted>>
LibraryVars == <<libraryHeld, index, libraryLoading, librarySelected, libraryDetail,
  detailError, search, tagFilter, propKey, propValue, hits, libraryNotice,
  libraryAsked>>
InspectVars == <<row, inspectTarget, inspectDetail, profiling, profile, values,
  pageStart, bins, nameDraft, inspectDrafts, inspectNotice, inspectError,
  inspectReads, inspectAnswers, inspectWrites, inspectWritten>>
PropsVars == <<declared, form, propsBusy, propsListed, propsError, propsNotice,
  propsWrites, propsAnswers>>
KeysVars == <<keysOverrides>>
WindowVars == <<windowOverrides, screen, palette, rebinding, typing, hovering, drag,
  windowLibrary, windowListed, ran, windowTarget>>
ChosenVars == <<disk, saving, app, chosenShown, draft, used, adopted, loadedLibs, store,
  chosenNotice, edits>>

\* A behaviour is of one component; the others are not there.
ApplicationInit ==
  /\ part \in Parts
  /\ RunsInit
  /\ IF part = "traces" THEN Traces!ScopeInit ELSE TracesUnused
  /\ IF part = "gesture" THEN Gesture!GestureInit ELSE GestureUnused
  /\ IF part = "pipeline" THEN Pipeline!PipelineInit ELSE PipelineUnused
  /\ IF part = "results" THEN Results!ResultsInit ELSE ResultsUnused
  /\ IF part \in {"tree", "filters"} THEN Library!LibScreenInit ELSE LibraryUnused
  /\ IF part \in {"bins", "page", "name", "tag", "props"} THEN Inspect!InspectorInit ELSE InspectUnused
  /\ IF part = "properties" THEN Props!PropInit ELSE PropsUnused
  /\ IF part = "keymap" THEN Keys!KeymapInit ELSE KeysUnused
  /\ IF part \in {"keys", "palette", "drag"} THEN Window!ShellInit ELSE WindowUnused
  /\ IF part = "settings" THEN Chosen!SettingsInit ELSE ChosenUnused

ApplicationVars == <<part, runsVars, TracesVars, GestureVars, PipelineVars,
  ResultsVars, LibraryVars, InspectVars, PropsVars, KeysVars,
  WindowVars, ChosenVars>>

ApplicationNext ==
  /\ UNCHANGED part
  /\ CASE part = "marks" -> TableNext \/ MarksNext
       [] part = "promotions" -> TableNext \/ PromotionsNext
       [] OTHER -> UNCHANGED runsVars
  /\ IF part = "traces" THEN Traces!ScopeNext ELSE UNCHANGED TracesVars
  /\ IF part = "gesture" THEN Gesture!GestureNext ELSE UNCHANGED GestureVars
  /\ IF part = "pipeline" THEN Pipeline!PipelineNext ELSE UNCHANGED PipelineVars
  /\ IF part = "results" THEN Results!ResultsNext ELSE UNCHANGED ResultsVars
  /\ CASE part = "tree" -> Library!TreeNext
       [] part = "filters" -> Library!FiltersNext
       [] OTHER -> UNCHANGED LibraryVars
  /\ CASE part = "bins" -> Inspect!BinsNext
       [] part = "page" -> Inspect!PageNext
       [] part = "name" -> Inspect!NameNext
       [] part = "tag" -> Inspect!TagNext
       [] part = "props" -> Inspect!PropsNext
       [] OTHER -> UNCHANGED InspectVars
  /\ IF part = "properties" THEN Props!PropNext ELSE UNCHANGED PropsVars
  /\ IF part = "keymap" THEN Keys!KeymapNext ELSE UNCHANGED KeysVars
  /\ CASE part = "keys" -> Window!KeysNext
       [] part = "palette" -> Window!PaletteNext
       [] part = "drag" -> Window!DragNext
       [] OTHER -> UNCHANGED WindowVars
  /\ IF part = "settings" THEN Chosen!SettingsNext ELSE UNCHANGED ChosenVars

ApplicationSpec == ApplicationInit /\ [][ApplicationNext]_ApplicationVars

-----------------------------------------------------------------------------
\* What a screen shows is of what is selected on it, in whatever order the answers to
\* its reads arrive and whatever moved meanwhile: the assertions and buttons of a run,
\* the samples of a trace, the progress of a run, the signals of a stage, the rows of
\* a group, the page of a signal (Message::*Loaded of each screen).  Results is the one
\* that may not: while the detail of the selected run is out, or could not be read, the
\* signals of the run before may come back under it, and of a run with no groups nothing
\* is promised (ResultsScreen.ViewIsSelected, results.rs select_run and Detail).
ShownIsSelected ==
  /\ part \in {"marks", "promotions"} => MarkedAreListed /\ DetailWasWanted
  /\ part = "traces" => Traces!ScopeTypeOK /\ Traces!DrawnFromItsOwn
  /\ part = "pipeline" => Pipeline!PipelineTypeOK /\ Pipeline!JobIsGoing
  /\ part = "results" => Results!ResultsTypeOK /\ Results!ViewIsSelected
  /\ part \in {"tree", "filters"} => Library!PaneIsSelected /\ Library!HitsSatisfyAll
  /\ part \in {"bins", "page", "name", "tag", "props"} => Inspect!InspectorTypeOK /\ Inspect!PageIsReal

\* A screen that says it is reading, saving or running, a button that is disabled until
\* an answer comes, a drag and a drop hint: each waits for something that is under way
\* and will end it, however the answer turns out (loading, busy, job, drag_from,
\* hovering).  A press ends in at most one of a fit, a seek and a zoom.
WaitsAreOwed ==
  /\ part \in {"marks", "promotions"} => LoadingIsOwed
  /\ part = "pipeline" => Pipeline!BusyIsOwed
  /\ part = "results" => Results!LoadingIsOwed
  /\ part \in {"tree", "filters"} => Library!WaitsAreOwed
  /\ part = "properties" => Props!BusyIsOwed
  /\ part = "gesture" => Gesture!DragIsHeld /\ Gesture!OneGesturePerPress
  /\ part \in {"keys", "palette", "drag"} => Window!HintSettles

\* Once the answers are in, what is shown is of the latest state: the newest reduction
\* is drawn as it was asked for, and both copies of the settings and every screen that
\* works from them agree (scope.rs Reduced, state.rs apply_settings).
SettledIsCurrent ==
  /\ part = "traces" => Traces!AskedIsDrawn
  /\ part = "settings" => /\ Chosen!CopiesAgree /\ Chosen!UsedIsSet
                          /\ Chosen!InRange /\ Chosen!ListedLoads

\* What the screens write to the library is sound, also when another signal was shown
\* or another write came in between: a write goes to the signal it was read or typed
\* for and keeps the attributes no definition declares, a run that is a baseline is
\* never deleted, two properties never share a key, and a text is read as a value of
\* the kind its definition declares (inspector.rs, runs.rs, properties.rs, props.rs).
WritesAreSound ==
  /\ part \in {"marks", "promotions"} => BaselinesHaveRuns
  /\ part \in {"bins", "page", "name", "tag", "props"} => Inspect!WritesGoHome /\ Inspect!UndeclaredStays
  /\ part = "properties" => /\ Props!KeysAreSound /\ Props!ParsedIsOfItsKind
                            /\ Props!RowsOfParsedAreValid

\* No key silently reaches another action: an action with a key is what that key runs
\* on each of its screens or is named as shadowed, by the action that does run there.
\* The row the palette would run is one of its matches, and an entry is found exactly
\* when the letters typed are there in order (keymap.rs conflicts; palette.rs).
KeysAreKnown ==
  /\ part = "keymap" => Keys!ShadowsAreNamed /\ Keys!NamedAreShadowed
  /\ part \in {"keys", "palette", "drag"} => /\ Window!ShellTypeOK /\ Window!SelectedIsListed
                                               /\ Window!FoundIsSubsequence

\* What is done is what was meant: a key runs a command of the screen that is showing
\* or a global one, and none while it is captured or typed; a binding changes only on
\* the Settings screen and to the key that was pressed; a refused form stays to be
\* corrected (state.rs on_key, keymap.rs bind, properties.rs Saved).
DoneIsMeant ==
  [][/\ part = "keymap" => Keys!PressedIsBound
     /\ part \in {"keys", "palette", "drag"} => Window!KeysBelong /\ Window!BindingsStayPut
     /\ part = "properties" => Props!RefusedKeepsForm]_ApplicationVars

\* The settings file only ever changes to the settings of the process that runs, whole:
\* a save that failed, or in which the process died, left what was there before.  Files
\* in a watched folder are taken for old ones only when the folder becomes the watched
\* one (settings.rs save, state.rs apply_settings).
SettingsSurvive ==
  [][part = "settings" => Chosen!NeverTorn /\ Chosen!CensusIsOnce]_ApplicationVars
=============================================================================
