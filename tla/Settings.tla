------------------------------ MODULE Settings ------------------------------
(* The settings: the file they are kept in (crates/sp-app/src/settings.rs), *)
(* the Settings screen that edits them (screens/settings.rs) and how the    *)
(* root hands them to the screens that work from them (state.rs).  One      *)
(* field stands for each way a setting is used; a value is a small number.  *)
EXTENDS Naturals, Sequences, FiniteSets

CONSTANTS Paths,       \* stage libraries on this machine
          Loadable,    \* those that open as stage libraries
          Folders,     \* folders that can be watched
          Files,       \* library files that can be opened
          Readable,    \* those of them that open
          MaxEdits     \* a bound on what is changed

VARIABLES disk,       \* settings.json: a record, or what cannot be read
          saving,     \* the save under way: {} or {[what, temp]}, temp its temporary file
          app,        \* the root's settings
          shown,      \* the Settings screen's copy
          draft,      \* the text of the sample-rate field
          used,       \* what each screen works from
          adopted,    \* times a folder's files were taken census of
          loadedLibs, \* the libraries mapped into this process
          store,      \* the library file that is open, or "none"
          notice,     \* the Settings screen's message
          edits

settingsVars == <<disk, saving, app, shown, draft, used, adopted, loadedLibs, store, notice, edits>>

Absent == [is |-> "absent"]
Truncated == [is |-> "truncated"]
None == "none"

\* Settings::default; the rate stands for the positive numbers, 0 for what a
\* hand-edited file may hold instead.
Defaults == [is |-> "settings", theme |-> "dark", rate |-> 1, mode |-> "tolerant", bins |-> 64,
             quality |-> "balanced", retention |-> 0, cap |-> "unlimited", libs |-> <<>>, folder |-> None, file |-> None]

MIN_BINS == 8
MAX_BINS == 256

Clamp(n) == IF n < MIN_BINS THEN MIN_BINS ELSE IF n > MAX_BINS THEN MAX_BINS ELSE n

\* Vec::retain: the entries at these places, in their order.
Kept(s, places) == [n \in 1..Cardinality(places) |->
                      s[CHOOSE i \in places : Cardinality({j \in places : j <= i}) = n]]
\* Vec::dedup: repeats next to one another.
Dedup(s) == Kept(s, {i \in DOMAIN s : i = 1 \/ s[i] # s[i - 1]})

Validated(s) == [s EXCEPT !.rate = IF @ = 0 THEN Defaults.rate ELSE @,
                          !.bins = Clamp(@),
                          !.libs = Dedup(@),
                          !.retention = IF @ = 100 THEN 1 ELSE @]

\* Settings::load: anything that cannot be read is the defaults.
Load(d) == IF d.is = "settings" THEN Validated(d) ELSE Defaults

\* What the screens work from before anything is applied: State::default.
Fresh == [rate |-> 1, mode |-> "tolerant", scopeQuality |-> "balanced", resultsQuality |-> "balanced",
          bins |-> 64, cap |-> "unlimited", pipelineLibs |-> <<>>, resultsLibs |-> <<>>, folder |-> None]

Opens(p) == p \in Loadable

Mapped(libs) == {libs[i] : i \in DOMAIN libs} \cap Loadable

Applied(s) == [rate |-> s.rate, mode |-> s.mode, scopeQuality |-> s.quality, resultsQuality |-> s.quality,
               bins |-> s.bins, cap |-> s.cap, pipelineLibs |-> s.libs, resultsLibs |-> s.libs, folder |-> s.folder]

Repointed(old, new) == old # new

\* App::open: the screens of the old library start over, the others stay.
Reset(u) == [u EXCEPT !.scopeQuality = Fresh.scopeQuality, !.resultsQuality = Fresh.resultsQuality,
                      !.bins = Fresh.bins, !.resultsLibs = Fresh.resultsLibs]

OpenFile(f) == IF f \in Readable THEN f ELSE None

Default == "default"
Chosen(s) == IF s.file = None THEN Default ELSE s.file

\* App::new.
Booted(d, l) ==
  LET s == Load(d)
  IN  /\ app = s /\ shown = s /\ used = Applied(s) /\ draft = s.rate
      /\ adopted = (IF s.folder = None THEN 0 ELSE 1)
      /\ loadedLibs = Mapped(s.libs) /\ store = OpenFile(Chosen(s)) /\ notice = None

SettingsInit == \E d \in {Absent, Truncated,
                          [Defaults EXCEPT !.rate = 0, !.bins = 500, !.retention = 100]} :
                  disk = d /\ saving = {} /\ edits = 0 /\ Booted(d, 0)

\* Settings::save, in the update that changed them: a temporary file is created or cut
\* to nothing, written, and renamed over the old one.  A step that fails is only logged.
Saves(s) == saving' = {[what |-> Validated(s), temp |-> "before"]} /\ UNCHANGED disk
Aside == <<app, shown, draft, used, adopted, loadedLibs, store, notice, edits>>

OpenTemp == \E w \in saving : /\ w.temp = "before" /\ saving' = {[w EXCEPT !.temp = "torn"]}
                              /\ UNCHANGED <<disk, Aside>>
WriteTemp == \E w \in saving : /\ w.temp = "torn" /\ saving' = {[w EXCEPT !.temp = "whole"]}
                               /\ UNCHANGED <<disk, Aside>>
SlipRenameable(w) == w.temp # "before"
Renameable(w) == w.temp = "whole"
RenameTemp == \E w \in saving : /\ Renameable(w) /\ saving' = {}
                                /\ disk' = IF w.temp = "whole" THEN w.what ELSE Truncated
                                /\ UNCHANGED Aside
SaveFails == saving # {} /\ saving' = {} /\ UNCHANGED <<disk, Aside>>

\* App::update on Message::Settings: what the screen changed is taken over,
\* saved and applied.
TakeChanged(s) ==
  /\ edits < MaxEdits /\ edits' = edits + 1
  /\ shown' = s /\ app' = s /\ Saves(s) /\ used' = Applied(s)
  /\ adopted' = IF Repointed(used.folder, s.folder) /\ s.folder # None THEN adopted + 1 ELSE adopted
  /\ loadedLibs' = loadedLibs \cup Mapped(s.libs)

\* The pick lists and the buttons that set a value outright.
Pick(s) == TakeChanged(s) /\ UNCHANGED <<draft, store, notice>>
ThemePicked(v)     == Pick([shown EXCEPT !.theme = v])
ModePicked(v)      == Pick([shown EXCEPT !.mode = v])
QualityPicked(v)   == Pick([shown EXCEPT !.quality = v])
RetentionPicked(v) == Pick([shown EXCEPT !.retention = v])
CapPicked(v)       == Pick([shown EXCEPT !.cap = v])
UseHistogramBins(n) == Pick([shown EXCEPT !.bins = Clamp(n)])

\* What the pick lists and the row of bin buttons offer.
Offered == [themes |-> {"dark", "light"}, modes |-> {"tolerant", "strict"},
            qualities |-> {"fast", "balanced", "fine"}, retentions |-> {0, 50, 20, 5},
            caps |-> {"unlimited", "4096", "1024", "256", "0"}, bins |-> {16, 32, 64, 128}]

\* The sample-rate field: what is typed counts when it is submitted, 0 being a
\* text that is not a positive number.
RateChanged(v) == /\ edits < MaxEdits /\ edits' = edits + 1 /\ draft' = v
                  /\ UNCHANGED <<disk, saving, app, shown, used, adopted, loadedLibs, store, notice>>
RateCommitted == draft # 0 /\ Pick([shown EXCEPT !.rate = draft])

\* The watched folder.
WatchFolderChosen(f) == /\ TakeChanged([shown EXCEPT !.folder = f])
                        /\ notice' = "watching" /\ UNCHANGED <<draft, store>>
StopWatching == /\ shown.folder # None /\ TakeChanged([shown EXCEPT !.folder = None])
                /\ notice' = "stopped" /\ UNCHANGED <<draft, store>>

Listed(s) == {s.libs[i] : i \in DOMAIN s.libs}

\* A stage library is loaded in front of the user who chose it, and listed only
\* if it loads.
ExternalLibraryChosen(p) ==
  \/ /\ p \notin Listed(shown) /\ Opens(p)
     /\ TakeChanged([shown EXCEPT !.libs = Append(@, p)])
     /\ notice' = "loaded" /\ UNCHANGED <<draft, store>>
  \/ /\ edits < MaxEdits /\ edits' = edits + 1
     /\ IF p \in Listed(shown) THEN notice' = "already allowed"
        ELSE ~Opens(p) /\ notice' = "refused"
     /\ UNCHANGED <<disk, saving, app, shown, draft, used, adopted, loadedLibs, store>>
RemoveExternalLibrary(p) ==
  /\ p \in Listed(shown)
  /\ TakeChanged([shown EXCEPT !.libs = Kept(@, {i \in DOMAIN @ : @[i] # p})])
  /\ notice' = "until restart" /\ UNCHANGED <<draft, store>>

\* Another library: the setting changes, then the file is opened, and the
\* screens that showed the old one start over.
LibraryChosen(f) ==
  LET s == [shown EXCEPT !.file = f]
  IN  /\ edits < MaxEdits /\ edits' = edits + 1
      /\ shown' = s /\ app' = s /\ Saves(s)
      /\ used' = Reset(Applied(s))
      /\ store' = OpenFile(Chosen(s))
      /\ UNCHANGED <<draft, adopted, loadedLibs, notice>>
UseDefaultLibrary == LibraryChosen(None)

SlipAdopted(s) == shown
Adopted(s) == s
ToggleTheme ==
  LET s == [app EXCEPT !.theme = IF @ = "dark" THEN "light" ELSE "dark"]
  IN  /\ edits < MaxEdits /\ edits' = edits + 1
      /\ app' = s /\ shown' = Adopted(s) /\ draft' = Adopted(s).rate /\ Saves(s)
      /\ UNCHANGED <<used, adopted, loadedLibs, store, notice>>

\* The process ends, or dies, at any moment, and starts again; the temporary file it
\* may leave is cut to nothing by the next save.
Restart == LET s == Load(disk)
           IN  /\ app' = s /\ shown' = s /\ used' = Applied(s) /\ draft' = s.rate
               /\ adopted' = (IF s.folder = None THEN 0 ELSE 1)
               /\ loadedLibs' = Mapped(s.libs) /\ store' = OpenFile(Chosen(s)) /\ notice' = None
               /\ saving' = {} /\ UNCHANGED <<disk, edits>>

Edit == \/ \E v \in Offered.themes : ThemePicked(v)
        \/ \E v \in Offered.modes : ModePicked(v)
        \/ \E v \in Offered.qualities : QualityPicked(v)
        \/ \E v \in Offered.retentions : RetentionPicked(v)
        \/ \E v \in Offered.caps : CapPicked(v)
        \/ \E n \in Offered.bins : UseHistogramBins(n)
        \/ RateCommitted \/ StopWatching \/ ToggleTheme \/ UseDefaultLibrary
        \/ \E f \in Folders : WatchFolderChosen(f)
        \/ \E p \in Paths : ExternalLibraryChosen(p) \/ RemoveExternalLibrary(p)
        \/ \E f \in Files : LibraryChosen(f)
        \/ \E v \in 0..2 : RateChanged(v)

\* One update at a time: the next message waits for the save.
SettingsNext == \/ saving = {} /\ Edit
                \/ OpenTemp \/ WriteTemp \/ RenameTemp \/ SaveFails \/ Restart

----------------------------------------------------------------------------
\* The two copies of the settings are one: an edit on the Settings screen never
\* undoes what the header changed (state.rs ToggleTheme and Message::Settings).
CopiesAgree == shown = app

\* The file only ever changes to the settings of the process that is running, whole:
\* a save that failed, or in which the process died, left what was there before
\* (settings.rs save).
NeverTorn == disk' # disk => disk' = Validated(app)

\* A start gives every setting its last saved value, each within its range, and
\* only a save changes them (settings.rs load and validated).
InRange == /\ app.rate > 0 /\ app.bins \in MIN_BINS..MAX_BINS /\ app.retention # 100
           /\ \A i \in 1..(Len(app.libs) - 1) : app.libs[i] # app.libs[i + 1]

\* The files of a watched folder are taken census of only when it becomes the
\* watched folder: no other change makes a file that has just arrived one that
\* was there before (state.rs apply_settings).
CensusIsOnce == adopted' > adopted => app'.folder # app.folder

\* The screens that do not belong to a library work from the settings as they
\* are now (state.rs apply_settings).
UsedIsSet == /\ used.rate = app.rate /\ used.mode = app.mode
             /\ used.cap = app.cap
             /\ used.pipelineLibs = app.libs /\ used.folder = app.folder

\* A listed stage library is one that loads: the list is what the next start
\* maps in (screens/settings.rs ExternalLibraryChosen).
ListedLoads == Listed(app) \subseteq loadedLibs

=============================================================================
