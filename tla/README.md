# SignalPlayback: formal models

TLA+ models of [SignalPlayback](../src/README.md), a desktop program that keeps
signals in a library, runs processing pipelines over them, and plays the results
back. The models are checked with TLC on small instances and, where marked, proved
for every value of the constants with TLAPS. Paths below are relative to
`src/crates/`; section numbers (§) are those of `src/docs/DESIGN.md`.

- [1. The system](#1-the-system)
- [2. What is modelled, and how it corresponds to the code](#2-what-is-modelled)
- [3. The runs](#3-the-runs)
- [4. Fairness](#4-fairness)
- [5. Proofs](#5-proofs)
- [6. What the models show about the code](#6-findings)
- [7. What is not modelled](#7-not-modelled)
- [8. Plan](#8-plan)

## 1. The system

| component | state it keeps | operations | talks to | hard behaviour | correct when |
|---|---|---|---|---|---|
| **store actor** `sp-store/db.rs` | one writer connection on its own thread, a job channel, a pool of readers | `open`, `write`, `read`, drop | everyone sends it closures and waits | jobs from many threads in one queue; a job that panics; closing while jobs wait | jobs run one at a time in the order sent; each sender gets one answer; closing drains the queue |
| **blob store** `sp-store/blob.rs`, `verify.rs` | `sample_blob` rows: bytes, checksum, `refcount` | `BlobWriter` append/finish, `retain`, `release`, verify, repair | called inside other components' jobs | counts moved by hand; a pending row while a blob is streamed in | a count is the number of rows that name the blob; no two rows have the same content |
| **run store** `sp-store/runs.rs`, `regress.rs`, `0004_runs.sql` | `run`, `run_group`, `run_stage`, `run_signal`, `artifact`, `stage_cache`, `baseline` | begin, record, copy, sweep, finish, delete, prune, promote, clear | scheduler writes, screens delete and prune | deletions meet runs in flight; ids are handed out again; rows cascade but counts do not | no row outlives its run; a key finds what it was published for; baselines stay |
| **scheduler** `sp-proc/scheduler.rs`, `cache.rs`, `frame.rs` | a run id, a cancel flag, a byte counter, one frame per group in flight | `run_pipeline`, `run_group` | sends some ten jobs per stage to the store | groups overlap in a thread pool; every job is a point where anything else may happen; cancel is read in several places | a cached run records what a cold one would; status is what became of the groups; evidence of failures is kept; runs end |
| **sample budget** `sp-proc/scheduler.rs` | one atomic counter | `claim` | all groups of a run | compare-and-exchange loop | the claims granted fit the cap |
| **import queue** `sp-app/screens/import.rs` | a queue, the file being imported, which intent drains it, a name, outcomes | pick, drop, start, imported, dequeue | root's messages, writer thread | answers arrive in between clicks; two intents share a queue | nothing unasked for is imported, nothing twice, nothing forgotten |
| **watched folder** `sp-app/watch.rs` | what it has seen of each file | `watch` (census), `poll`, `sweep` | file system, import queue | files grow, vanish and come back between scans | only new files that have settled are offered, once |
| **screens** `sp-app/screens/*.rs` | what is selected, what was read, what is being read or written | messages | store, scheduler, engine | answers arrive in any order, about what is no longer selected, or of another library | what is shown is of what is selected; what waits is owed an answer |
| **CSV** `sp-csv` | a framer's position, a pushed-back line, diagnostics | sniff, frame, ingest, export | blob store, inside one job | bad counts and resynchronisation; cancellation half-way | every row is in one group; all of a file or nothing |
| **catalogue** `sp-store/library.rs`, `pulses.rs`, `props.rs` | datasets, trains, groups, signals, pulse fields, tags, attributes and the columns that mirror them | insert, edit, delete, search | every screen, ingest, generator | cascades in the tables, counts by hand; ids come back | a search finds what answers it; counts are exact |
| **generator** `sp-gen` | an edited spec tree; a noise cache while rendering | edit, validate, sweep, render | blob store | chunks on several threads; seeking in a random stream | same seed, same samples, whatever is rendered of them |
| **playback** `sp-engine/transport.rs`, `clock.rs` | state, playhead, rate, range, direction; last tick | play, pause, seek, set range, advance | scope and results screens | steps longer than the range; stalls | the playhead stays in range, and moves by the time that passed |
| **drawing data** `sp-engine/pyramid.rs`, `reduce.rs`, `viewport.rs`, `source.rs` | min/max levels, a window | build in chunks, reduce, zoom, pan | scope | chunk boundaries | same extremes as the samples |
| **pipeline definition** `sp-proc/pipeline.rs`, `param.rs`, `registry.rs` | stages, parameters, assertions | edit, validate, hash, to and from rows | pipeline screen, scheduler | defaults, disabled stages, ports that need a producer | what validates runs; the hash is that of the work |
| **stages** `sp-dsp` | none | `process` | scheduler | bands, hysteresis, ends of a capture | each computes what its definition says |
| **external stages** `sp-ext` | handles, buffers to be freed, a lock per library | load, configure, process, drop | scheduler, settings | libraries that are not thread-safe; files that change | no handle is lost or used after it is closed; calls exclude each other |
| **assertions, comparison, conformance** `sp-proc/assert.rs`, `compare.rs`, `conform.rs` | none | evaluate, pair, diff, judge a stage | scheduler, results screen, command line | rows deleted while they are read; what is not applicable | a pass is earned |
| **artifacts** `sp-core/artifact` | payloads and schemas | decode, infer, sort, diff | results screen | payloads that do not fit | rows are shown once; what a diff calls equal is |
| **shell** `sp-app` root, palette, keymap, settings, command line | the screen, the keys, the settings and their file | messages | all screens | one key, many listeners; three copies of a setting | a key does what it says; settings survive a crash |

Components meet in three ways. Screens are state machines that take one message at a
time from the root's loop (`state.rs`), and start tasks whose result is another
message later. Whatever touches the library is a closure sent to the **store actor**,
which is the only serialisation there is: between two jobs of one caller, any job of
any other caller may run. And a run's groups share the budget counter and the cancel
flag, which are atomics.

The hazards this leads to are listed, each with its line, in `PROJECT.json`; the
properties below exist because of them.

## 2. What is modelled

`PROJECT.json` maps every definition to the lines it stands for, and lists every
component with what of it is modelled. A module is a component, or a screen:

| part of the system | modules | composed in |
|---|---|---|
| run tables, and the scheduler over them | `RunStore`, `Scheduler` | `MCScheduler` (Scheduler extends RunStore) |
| the sample budget | `Budget` (what is promised), `SampleBudget` (the loop) | `MCProcessing` |
| library file, blobs, catalogue | `LibraryFile`, `Blobs`, `Catalog` | `MCLibrary` |
| CSV in and out; generation into the library | `Csv`, `Generation` | `MCLibrary` |
| columns as drawn; artifacts as tables | `Reduction`, `ArtifactTable` | `MCLibrary` |
| pipelines as defined; conformance harness; regression gate and assertions | `Definition`, `Conformance`, `Regression` | `Vetting`, which `MCProcessing` extends |
| stages that come with the program | `Stages` | `MCProcessing` |
| stages of native libraries | `ExternalStage` | `MCProcessing` |
| generator: editor's tree and screen, checks and rendering, formulas, random streams, pulse trains | `GenTree`, `GenerateScreen`, `GenRender`, `GenExpr`, `Streams` | `MCProcessing` |
| import queue and watched folder; playback | `Imports`, `Playback` | `MCTimers` |
| screens | `RunsScreen`, `ResultsScreen`, `PipelineScreen`, `LibraryScreen`, `Inspector`, `PropertiesScreen`, `ScopeTraces`, `ScopeGesture`, `Settings` | `MCApplication` |
| keys, palette, who hears what | `Actions`, `Keymap`, `Shell` | `MCApplication` |

An MC module other than `MCScheduler`, and `Vetting`, holds several components that do not touch each
other: `part` names the one a behaviour is of, and the variables of the rest are
constant. A property of such a run is a conjunction of one promise per component, each
guarded by `part`; what belongs together is together by theme (what is shown, what is
owed, what is written). The composition that matters, of groups, the store and the rest
of the application over one library, is `Scheduler`; screens and the store they write
are composed in each screen's own module, which holds as much of the library as its
messages reach.

Theorems and their proofs are in modules of their own, which extend what they are about:
`SchedulerProofs` (RunStore and Scheduler), `LibraryProofs` (Blobs, and Catalog, Csv and
Generation over `MCLibrary`), `TimersProofs` (Imports and
Playback), `ProcessingProofs` (Budget, SampleBudget, ExternalStage, and Definition, Conformance and
Regression over `Vetting`) and
`ApplicationProofs` (the screens and the window, over `MCApplication`). Those about
`LibraryFile` and `ScopeTraces` are at the end of these. The screen of the generator is
checked with the generator, in `MCProcessing`: its tree is recursive, and a module with a
theorem may not reach one that is.

### Conventions

* A variable is a field, a table or a column; an action is a message handler, a job or a
  statement, whole: where the code hands work to the store or the pool and goes on, the
  action ends, and the answer is an action of its own.
* Answers that are out are a set (any order) or a sequence (where the writer thread keeps
  them in order), and `MaxAsked`, `MaxAnswers`, `MaxOut` bound how many.
* `{}` and `{v}` are an optional value; names, texts and samples are model values or
  small numbers that keep only what the properties tell apart.
* Reads run on a pool, so that two reads may be answered in either order; writes are
  done by one thread, one at a time (`db.rs`), those of one thread in the order it sends them.

### RunStore

The run tables and the jobs that write them. A variable is a table or a column
(`status`, `pipeline`, `runGroup`, `runStage`, `runSignal`, `kept` = the rows with a
`blob_id`, `cache`, `baseline`, `library`, `refcount`), and an action is a whole write
job: a record, a copy with its retains, a deletion with its cascades and releases.
Guards are the foreign keys and primary keys that make SQLite refuse a row
(`CanInsert`), what `retain` refuses (`CanShare`), and what the functions check for
(`~IsBaseline`). `record_source` opens no transaction, so its failure has an action
of its own (`RecordSourceRefused`).

`StoreNext` lets any caller issue any job at any time, under the discipline the
scheduler is supposed to keep: a place is recorded once, only kept output of an
`always` stage is published, only `on_failure` output is swept. Run `discipline`
checks that the scheduler does keep to it.

A group has one signal; a blob is named by its content (the checksum makes it so);
artifacts, which hold blobs the same way signals do, are left out; `delete_run`,
`prune_runs` and `forget_stage_samples`, which open no transaction, are one action here
and statement by statement in `Blobs`.

### Scheduler

`run_pipeline` and `run_group`, on top of RunStore. An execution (`Execs`) is one
call; `mode` says where `run_pipeline` is, `worker[<<e, g>>]` what the thread of group
`g` holds: where it is, the stage, the frame, the cache hit it found. Every read or
write job is an action, because that is where a thread gives way:

| action | code |
|---|---|
| `Begin` | `run_pipeline` up to `begin_run` |
| `StartGroup`, `StoreSource`, `OpenGroup` | `run_group`: the cancel check and `load_frame`, `record_source`, `record_group(running)` |
| `BeginStage` | the cancel check between stages, `stage_key`, `cache_lookup` |
| `Recall`, `Copy`, `ForgetStale` | `reuse_cached`: the metrics read, the copy, `cache_forget` |
| `Rebuild` | `frame_from_records` |
| `FailStage`, `FinishStage` | `Stage::process` with `fail_stage`, or with the claim and `record_stage_output` |
| `Assess`, `Sweep`, `CloseGroup` | `evaluate_assertions`, `sweep_on_failure_samples`, `record_group` |
| `Tally`, `RecordRunArtifacts`, `Decide`, `Finish` | the end of `run_pipeline`, with its three readings of the cancel flag |
| `JobFails`, `RunFails`, `Kill` | a job that the disk refuses, at any of them; the process killed |
| `Cancel`, `Maintain` | the rest of the application: delete, prune, clear, promote, drop a baseline, delete a group |

A frame is the content of its signal, whether it is `stored` or in memory (the two are
hashed differently), and one group attribute that stages may patch and read. A stage
kind is a function of these, or, if it is not pure, any of several outcomes. `Job`
holds what a call was given: groups, threads, cache on or off, assertions, cap.

### The library

* **LibraryFile** (`db.rs`): two processes, the application and a command, open one
  file; each reads the version and applies the missing migrations, each in a
  transaction of its own with foreign keys off, then checks references. An open
  library's writer takes jobs from a queue; a job writes two rows in a transaction or in
  none, may panic at any of them, and a process may be killed anywhere. `seen` and the
  answers say what each caller was told; `Serves` and `Owed` who still waits for one.
* **Blobs** (`blob.rs`, `pyramid.rs`, `verify.rs`): the writer's pending row and its
  finish, the deletion of owners row by row in no transaction, pyramids built from chunks
  read while others write, `verify` table by table and `repair_references` from its
  report. `job` is what the writer thread has in hand; a crash keeps the statements
  already committed. `MCLibrary` checks it twice, with pyramids being built and with
  verification and repairs, since both at once are too many states.
* **Catalog** (`library.rs`, `pulses.rs`, `props.rs`): insertion and deletion of datasets,
  trains, groups and signals with their cascades, the search columns that mirror
  attributes, tags, and pulse search by zone maps, over ids that are handed out again.
* **Csv** (`framer.rs`, `ingest.rs`, `parse.rs`, `export.rs`): a first pass over any file,
  chosen line by line, a second over what `export_dataset` wrote of the first.
  `framer` is two states, a pushed-back line and how many pulses are owed.
* **Generation** (sp-gen's `sweep.rs` and `generate.rs`, and the screen): a sweep
  is enumerated into rungs, one job writes them, and cancelling is asked for by the
  screen and heeded by the worker at its next check.
* **Reduction** (`pyramid.rs`, `reduce.rs`, `viewport.rs`, `compare.rs`): integer ticks and
  exact quotients. A builder folds values into cells, a frame reads one slice of one
  level into pixels, one column at a time.
* **ArtifactTable** (`artifact/data.rs`, `panes.rs`): every payload of a set of JSON values
  decoded under every schema, or under the inferred one; pairs of payloads diffed.

### Processing

* **Definition** (`pipeline.rs`, `param.rs`, `registry.rs`, `frame.rs`): every edit of the
  stage list and of parameters, `validate`, `hash`, `to_rows` and `from_rows`, and a walk
  of the validated pipeline over a frame, which asks at each stage whether its ports are
  there. `processing` edits stages with ports and assertions, `typed` the typed boxes. The
  hash lists the enabled stages by their rank among the enabled.
* **Conformance** (`conform.rs`): the harness as a sequence of calls of a stage that may
  fail, wear out, drift, panic, lose a signal or ignore a cancellation.
* **Regression** (`compare.rs`, `assert.rs`, `regress.rs`): `check_baseline` as the jobs it
  sends, while the rows of either run may be deleted or their samples swept between two
  of them, over every pair of records in a set; tolerances of zero and more; assertions
  evaluated over what was recorded.
* **Stages** (`digital.rs`, `detect.rs`): slicing, symbols, packing, threshold, peaks and
  intervals on every capture of up to four or five small values, as the loops compute
  them, against definitions by quantifiers.
* **ExternalStage** (`library.rs`, `stage.rs`, `abi.rs`): each instance's `calls` is what it
  has still to ask of the library; a call is entered (under the lock, if the call takes
  it) and left; `live` are the open handles, `unfreed` the outputs, `image` what is loaded
  and `Recompile` whoever builds the file anew.
* **GenRender** (`validate.rs`, `render.rs`, with the specification's start and the library
  signals it names, which may not resolve), **GenExpr** (`expr.rs`), **Streams** (`noise.rs`
  and `train.rs`), **GenTree** (`spec.rs` as the editor edits it): every small
  tree is validated and rendered in chunks by any thread in any order; a value is the
  node and local time it was computed from, so that "the same sample" is an equality.

### Timers

* **Imports** (`screens/import.rs`, `watch.rs`): the queue, the watcher, and the root's
  handling of drops and ticks, one action per message. A drain is `automatic` (the
  watcher's: it takes watched files only) or a person's (it takes everything).
  `StartNext` takes an entry off the queue, *then* asks for the library. The folder
  has its own steps (`Write`, `Delete`, files `lost` between the listing and the stat); a
  stamp is the number of the write that left it. `history` and `scanned` record what
  happened to a file, for the properties; nothing reads them otherwise. Two writes that
  leave the same length and time are taken to be one: the watcher cannot tell them apart.
* **Playback** (`transport.rs`, `clock.rs`, as the Scope screen drives them): every
  message, ticks and the wall time between them. `last` is the time since the clock's
  last tick; `playedFor`, which no action reads, the time played since the last play,
  stop or seek; both stop counting one above the stall limit.

### Application

A screen's module has the screen's fields, an action per `Message`, and the reads and
writes it has out. Late, reordered and failed answers are what they are about:
`ResultsScreen` numbers its reads, `ScopeTraces` its reductions, `Inspector` compares
the target, `RunsScreen` and `LibraryScreen` the id, `PipelineScreen` the library. A
write of the Inspector is done (`WriterDoes`) before its answer is heard (`Saved`).
`Settings` has the file (`disk`), the root's copy (`app`), the screen's (`draft`), and
what each screen was handed (`used`), with restarts, and a save as the steps it is: a
temporary file is cut to nothing (`OpenTemp`), written (`WriteTemp`) and renamed
(`RenameTemp`), any of which may fail or be the last thing the process does. `Shell` has
the root's key handler, the palette with its ranking, the capture of a binding and the
drop hint; `Keymap` the overrides and conflicts over `Actions`, the catalogue of all
actions with their default keys.

## 3. The runs

| run | question | properties | bounds |
|---|---|---|---|
| `reuse` | Is what a run reuses what it would have computed, with runs deleted and the cache cleared meanwhile? | `TypeOK` `RefcountsExact` `CachedEqualsCold` `CachedRowKeepsMetrics` `SampleCapHolds` `FinishedRunsFixed` | 2 executions, of two 2-stage pipelines that share their first stage, over 2 groups, the second stage of one group being the first of the other; caps of 2 and 0, the second run passing on what it is given |
| `evidence` | Is the evidence of a failure kept, and is a verdict the truth? | `EvidenceKept` `VerdictHolds` | 2 executions, 2 groups, a pure and a flaky stage, both swept; assertions that may fail; cancellation at any moment |
| `discipline` | Does the program use the store as RunStore says it is used, among deletions, crashes and refused jobs? | `RefcountsCover` `KeysResolve` `StoreSpec` | 2 executions of 1-stage pipelines, all upkeep jobs, a killed process, 1 failing job |
| `returns` | Do runs end when their run is deleted under them? | `RunsReturn` | 2 executions of 1-stage pipelines; deletion of live runs, cancel, clear |
| `library` | Is what is in a library file what was put there, whatever is cut short, and does what is looked at show it? | `BlobsAreKept` `AllOrNothing` `RepairHeals` `CancelIsHeeded` `FilesReadBack` `ViewsAreTrue` | blobs: 2 columns, 2 owners, 3 rows, 1 crash, 1 repair or 2 builders; file: 2 processes of 2 versions, 1 job each, 1 crash; csv: 3 lines; catalogue: 1 to 2 rows of a kind; sweeps of up to 4 rungs; columns of up to 3 values |
| `processing` | Are pipelines, libraries, verdicts and samples what their definitions say? | `HandlesAreSound` `ValidatedRuns` `PassesAreEarned` `StagesAreExact` `SamplesStandAlone` `ImplementsBudget` | 2 instances with 2 handles and 2 builds; 4 claims of 1 to 7 bytes, a cap of 6 and integers up to 7, so that sums overflow; pipelines of 2 stages, a parameter left out or in range; captures of up to 5 samples; trees of depth 3, three starts, a source that is missing; 1 refused box in the generator's screen, 4 variants to pick |
| `application` | Does each screen show, say and write what it should, whatever arrives when? | `ShownIsSelected` `WaitsAreOwed` `SettledIsCurrent` `WritesAreSound` `KeysAreKnown` `DoneIsMeant` `SettingsSurvive` `PromotionKeepsTolerances` | 2 reads out at a time (4 in the Inspector), 2 runs or saves, 2 groups, 2 targets, 3 signals; 1 to 2 libraries, kinds and texts; keys: 4 chords for 4 actions, 8 presses on the window |
| `timers` | Is a file imported once, when it should be, and never forgotten? Does the playhead move by the time that was played? | `QueueIsSound` `DrainsAreSound` `OffersAreRipe` `WatchedImported` `InRange` `FrameRateIndependent` `GapWasPlayed` `OnceEnds` | 2 files, both may be watched and one also dropped by hand; 3 writes to the folder under a library that stays open, or a library opened and closed over the files that are there; spans of 0 and 3 units, ticks of up to 2, requested rates of -4 to 2 |
| `untimed` `reborn` `exclusive` `typed` | §6: each shows one disagreement between the code and its documentation | one each | the smallest instance that shows it |

Why the bounds are enough. Two executions, two groups and two run ids give every pair of
actors a collision: a second reader of a key, a second writer of a row, an id used
again. Sharing is between two rows; a third would only repeat it. The 2-stage pipeline
puts a recorded stage before a computed one and the other way round. `MaxRun` bounds
how often an id is *free*, not how often it is used again: deleting gives it back. On
the screens, a late answer needs two reads out and two things to read, and what was
selected to change in between. `MaxFaults`, `MaxCrashes`, `MaxWrites`, `MaxJobs`,
`MaxEdits`, `MaxErrors`, `MaxGeneration`, `MaxReload` and `OutcomeRows` are the counters that would
otherwise grow; two generations or reloads are a request and the one that outdates it; three writes let a file appear, change while it settles, and settle.
Captures of four and five samples have a run, a gap and both ends. A tick of 2 units at rate 3
crosses a span of 3 units twice over.

The largest runs are `library` (1.7 million distinct states), `application` (1.4 million),
`processing` (0.8 million) and `timers` (0.36 million); each takes some minutes with two
workers, which is what sets the sizes of their small sets.

`CHECK_DEADLOCK FALSE` is set for `application`, `library`, `processing` and their
violation instances, whose parts are computations that end and whose reads are bounded;
the executions of Scheduler end in `AllDone`, a stuttering step, so that a worker that
waits for nobody would be reported.

What some of the properties mean:

* `CachedEqualsCold` compares every row on record with `Cold`, the fold of the stages
  over the library's own signal with no cache at all. It is what §15 promises. It holds
  in `reuse`, where the frames cannot tell their timebases apart, and fails in `untimed`,
  where they can.
* `RefcountsExact` needs no leak: it is checked where jobs are not refused half-way.
  `RefcountsCover`, the half that keeps data, is checked among failures and proved.
* `VerdictHolds` is about three readings of one flag. A cancel that comes after the last
  group makes the run `cancelled` although all of it is there; it never makes a run `ok`
  of which something is missing.
* `EvidenceKept` fails if a group that failed lost the samples of a stage, or one that
  passed still has them, however copies share the blobs.
* `SampleCapHolds` counts, row by row, what the run's own stages make. What they pass on is
  never claimed and not counted; a run may therefore write more than its cap (§6).
* `FinishedRunsFixed` would be violated by a worker that is still writing when
  `run_pipeline` closes the run.
* `RepairHeals` is as strong as it can be: with a write between the first read of
  `verify` and the start of the repair, counts may drift, and do (§6).
* `FilesReadBack` excludes exported rows that begin with the comment prefix and rows of a
  single empty cell: those are not read back.
* `ValidatedRuns`: `HashIsWork` says that two pipelines have one hash if and only if they
  compute the same, which a missing field would break one way and a label, an order or a
  default the other. `PortsArrive` excludes optional output ports, outputs of the kind
  `any`, and names that are given to ports of two kinds.
* `PassesAreEarned` is an equivalence: a gate that passes nothing would fail it too.
* `SamplesStandAlone` compares what a render delivers with the value of one sample
  computed alone; for pulse trains, the group made with the one made after those before.
* `StagesAreExact` compares each loop with its definition: spans as maximal runs, not as
  the loop that finds them; `TallestAreKept` says that a peak that is dropped had one at
  least as tall kept within reach, and not that of any two the taller is kept (§6).
* `QueueIsSound` (`NoDuplicates`, `Unattended`) and `DrainsAreSound` (`NothingDropped`,
  `WatchNeverStalls`) are the contract of a queue with two intents: a file waiting for a
  person does not block the watch, and the watch does not take it. What has no library to
  go to is the exception both halves of the second name: an import that comes back after
  the library is gone costs the next file, and leaves the others of the watch waiting (§6).
  `OffersAreRipe` speaks of the last two scans and of everything written in between.
* `FrameRateIndependent` quantifies over all pairs of ticks in each reachable state: one
  long tick is the two short ones, in every mode and at every edge.
* `SettledIsCurrent` says nothing while answers are out: it is what `ShownIsSelected`
  does not say, that the newest request is the one that is drawn in the end.
* `WaitsAreOwed` is the safety half of "it ends": a flag that is set has something out
  that will clear it, failing included.
* `ShownIsSelected` makes an exception of Results: of a run that is open at a group it says
  all; while the detail of the selected run is out or could not be read, the signals may be
  another run's, and of a run with no groups nothing is promised (§6).
* `SamplesStandAlone` has `DraftsStayHome`, that a box of the generator's screen shows what
  it addresses; not a box whose object was replaced by a variant since it was typed in (§6).
* `DoneIsMeant` and `SettingsSurvive` are action properties: a binding changes on the
  Settings screen only; the settings file changes only to the running program's, whole.

Each property has a mutant in `PROJECT.json`; for a conjunction it breaks one conjunct.

## 4. Fairness

`FairSpec` (Scheduler): weak fairness of every worker's step and of every execution's.
The pool gives each group a thread until it is done (`par_iter`), the writer thread
serves jobs in the order they come and answers each, panics included
(`Store::write`), so a worker waiting for a job is not overtaken for ever. Nothing is
assumed about `Cancel`, `Maintain`, `Kill` or failing jobs. `RunsReturn` needs no strong
fairness: no worker waits for a condition that others may take away.

`TimersSpec`: weak fairness of `Imported`, because a started import is one job and its
answer is delivered as a message; ticks of the watcher and people have none. What
`WatchedImported` promises starts at a file that is queued behind an import, and ends
with the library. For playback, weak fairness
of time and of frames, which are requested as long as the transport plays, and strong
fairness of a frame that comes within the stall limit: if every frame is late nothing is
ever played (`clock.rs`), and a limit of a quarter of a second is many frames.
`OnceEnds` is claimed only if nobody touches the controls from some moment on.

`PipelineScreen` and `ResultsScreen` define the fairness their answers would justify;
no run uses it, since what they promise is stated as `WaitsAreOwed`.

## 5. Proofs

`tlapm` proves these for every value of the constants allowed by the named
assumptions (`StoreAssumption`: finite sets of groups and stages, a retention for each
stage, distinct nulls; `SchedulerAssumption`: what a job, a kind and a pipeline are, that
stages are numbered from 0 without a gap, and that the nulls of a key are no data and no
timebase; `BudgetAssumption`: a cap below the
largest integer; `ImportsAssumption`: files that are finitely many, batches that are not empty and
name a file once, typed names that are no file's; `BlobsAssumption`: finitely many columns,
owners and slots, bounds that are numbers, and nulls that are no content;
`RatesAssumption`, `RangesAssumption`, `StepAssumption`: positive rates and stall limit,
ranges that do not end before they start; `FileAssumption`: versions are numbers, and a
calling is a process and one of its threads; `CatalogAssumption`: the columns of a pulse
group are a sequence of contents; `GenerationAssumption`: a sweep is a range of whole
numbers, a list of them, or there is none; `CsvAssumption`: what is written of a cell reads
as the cell did (`format_cell` writes the shortest form that parses back, text as it was,
a missing value as nothing), counts can be written, and a file has no more lines than a
count can name, `u32::MAX`, which is `Unknown`; `TracesAssumption`: some library may be
opened, and the bounds are numbers; `DescriptorAssumption`: outputs are signals or
artifacts, no artifact output is optional, artifacts of one name are of one kind, and a default is one value;
`JudgedAssumption`: a stage answers in one of the ways there are; `RecordsAssumption`: the
signals of one record have different names, at most one metric and artifact, finite
tolerances; `PipelineAssumption`, `ResultsAssumption`,
`LibraryAssumption`, `InspectorAssumption`, `KeymapAssumption`: what a screen starts with is
among what it may hold, a page has rows, what is typed has one of the forms the parser
tells apart, and a key is not the name of a modifier). TLC evaluates each of them in the runs.
`ExternalStage`, `RunsScreen`, `Settings`, `Shell` and `PropertiesScreen` need none. A hypothesis a theorem has beyond these is in
its ASSUME, and in the third column.

### The run store and the scheduler

| theorem | states | under | argument |
|---|---|---|---|
| `StoreTypeCorrect` | `StoreSpec => []StoreTypeOK` | | one step per job; the counts stay natural numbers because `release` never goes below zero |
| `NoRowOutlivesItsRun` | `[]RowsHaveRuns` | | inductive with `StoreTypeOK`: a row is inserted only while its run exists, and `Remove` takes the rows with the run |
| `BaselineRunsStay` | `[]BaselinesStand` | | inductive with `StoreTypeOK`: no deletion takes a run that `IsBaseline` |
| `PublishedKeysResolve` | `[]KeysResolve` | | needs `RowsHaveRuns`: a new run under an old id finds no row and no key, so nothing it records overwrites what a key was published for; a sweep takes `on_failure` rows only, and keys are of `always` rows |
| `BlobsOutliveTheirRows` | `[]RefcountsCover` | | needs `RowsHaveRuns`; `Slack`, the count less the rows that name the blob, is unchanged or raised by every job: a retain raises both by one, since the row was not there before; a release lowers both by the rows that go |
| `RunInvariant` | `Spec => []RunInv` | N | the induction all that follow rest on, below |
| `RunsKeepTheDiscipline` | `Spec => StoreSpec` | N | `Ahead`: a worker writes a place only while nothing is recorded there, and `Owned`: under a run of its own; each action of Scheduler is then one of `StoreNext`, or a stutter |
| `RunsAreTyped`, `RunKeysResolve` | `[]TypeOK`, `[]KeysResolve` | N | from the two above |
| `FinishedRunsStay` | `FinishedRunsFixed` | N, R | `Owned`: a run leaves "running" only in `Finish`, and by then all its workers have settled; runs of two executions are different |
| `RefcountsAreExact` | `[]RefcountsExact` | N, F | no job changes the `Slack` of any blob |
| `RunsAccountForThemselves` | `[](RunInv /\ Account)` | N | below |
| `VerdictsHold` | `[]VerdictHolds` | N, R | when `Finish` closes the run, `Told` says what its group rows are and `Ruled` what the verdict was decided from; afterwards the run is untouched |
| `CachedRowsKeepMetrics` | `[]CachedRowKeepsMetrics` | D | `Found`, below |
| `CachedRunsAreCold` | `[]CachedEqualsCold` | D, A, T | `Warm`, below |
| `EvidenceStays` | `[]EvidenceKept` | N, C | `Evident`: from the moment a stage is recorded to the close of its group its samples are kept, unless its worker has passed the sweep |
| `CapsHold` | `[]SampleCapHolds` | N | `Funded`: what an execution has on record as made by its stages has been claimed, byte by byte (`Covered`), and what is claimed is within the cap (`Within`) |

`RunInv` is `TypeOK`, `RowsHaveRuns` and, for each execution and each worker,

* `Owned`: while `mode` says the run is under way, its id is on record as this
  execution's, with its pipeline and the status "running"; past "groups" every worker
  has settled. It is why an id that is handed out twice is never of two runs at once.
* `Placed`: a worker that has a stage has one its pipeline has, and a worker that
  recalls or copies holds a place to copy from.
* `Ahead`: of its group, nothing is on record at the stage it is at or after it. It is
  what makes a record an insertion and not an overwriting, which neither the store's
  types nor its guards promise: the primary key would only refuse the job.

`Account` adds what workers remember: `Behind` (every stage before the one a worker is
at is recorded as done, so long as it has not failed), `Told` (the group's row is what
the worker's outcome says, from `OpenGroup` on), `Evident` (samples of the stages behind
are kept), `Ruled` (what the execution decided is what its workers' outcomes were when it
read them, and that who is cancelled was asked to stop), `GroupRowsHaveRuns` and `LibraryStands`. A step
of one worker disturbs its own parts only; that no other worker's are is `OthersStand`,
since workers of different groups write different places and runs of different
executions are different.

`Found` is what makes a lookup safe to act upon: samples and keys are of stages that are
done, such a stage has its metrics, and what a worker has found is one of them. `Warm` is
why it may be acted upon:

* `RowIsCold`: the samples of a stage up to which the pipeline is pure are those of the
  cold run, `ColdSamples`. That is a recursive function over the stages; the proof takes
  the first stage at which a fact about it fails, since it cannot be unfolded to the end.
* every published key `Answers` for all samples it suits: the stage recorded under it has
  what its kind makes of them (`StepOf`). A key without a timebase suits samples of all
  timebases, which is where the argument needs T, and of no attribute, where it needs A.
* `AtWork`: what a worker has found answers for the stage it is at (`Asked`), and the
  frame it holds is the cold run's (`Aligned`), and is stored unless one timebase is all
  there is.

What the letters suppose, and why:

* **N** `NoneLive`: no run is deleted while it is in flight (`"delete_live" \notin
  Upkeep`). The Runs screen does allow it; then the theorems are false, which is what
  `reborn` shows (§6). All other deletions, pruning, promotions, clearing the cache,
  cancelling, refused jobs and a killed process are in.
* **D** `NoneDeleted`: N, and no finished run is deleted or pruned either. `reuse_cached`
  looks a key up, reads the metrics and copies the samples in three jobs. If the run it found
  is deleted in between and was the newest, its id is given out again, and what is copied
  is the output of another stage (§6).
* **A** `AttrBlind`: the samples of a pure stage do not depend on the group's properties.
  Keys do not hold those; what the code asks of a stage that says it is pure is that
  "the same inputs and parameters always give the same output" (`stage.rs:111`), and a
  group's properties are a part of its input that is not hashed.
* **T** `TimesAreTold`: all groups share a timebase, or every stage's output is stored and
  read back before the next lookup (no cap, no stage that keeps `never`). `untimed` shows that it
  is needed.
* **R** `"remove" \notin Upkeep`: no group of the library is deleted. Deleting one takes its
  `run_group` rows of all runs along (`0004_runs.sql`, ON DELETE CASCADE), so that a
  finished run does change, and a run that is "ok" lacks a group.
* **F** `MaxFaults = 0`: no job is refused half-way. `record_source` takes its
  reference before an insert that may fail and has no transaction, so that the count is
  then one too high for good (§6); that it is never too low is `BlobsOutliveTheirRows`.
* **C** every call's cap is `Unlimited`: samples that the cap turns away are not there to
  be kept.

### The blob store

| theorem | states | argument |
|---|---|---|
| `BlobsInvariant` | `BlobsSpec => []BlobsInv` | below |
| `RowsKeepTheirContent` | `[]RowsReadBack` | part of it |
| `BlobsAreTyped` | `[]BlobsTypeOK` | what readers see is `Sound` with nothing being written |
| `CountsKeepCover`, `NothingEverLeaks` | `[]CountsCover`, `[]NothingLeaks` | `Accounts` and `Fulls`, below |
| `BlobsStayKept` | `[]BlobsAreKept` | the four together |
| `RepairsHeal` | `RepairHeals` | `Mends`, below |

`BlobsInv` says of the tables, and of those a transaction would go back to, that they are
`Sound`: a content has one blob, whatever names a blob names one that is there, and that
has the content the row was written with. It needs no trust in the counts: the foreign
keys refuse to delete what is named, so an id can only be handed out again when nothing
names it. (This is where the model was wrong before the proof: `link` that drops its own
reference may be refused as well, and its transaction is then undone, `Refused`.)

Counts are a ledger. `Balance`, the count of a blob less what names it and less what the
job under way has still to release, is changed by no step but a crash, which forgets what
was to be released, and a repair, which sets it to zero. So it is never negative and,
without a crash, zero (`Accounts`); a release that finds the count at zero therefore finds the blob
unnamed. `Fulls` is that nothing is left at a count of zero but the blob whose release is
half done. `Reported` is what a verification has read so far, while nothing was written
since, and `Mends` what of it a repair has still in its lists. Each holds while no repair
came from a report older than the tables (`trusted`): a repair does not ask (§6).

What a table names is counted with `Cardinality`; `OneChanged` and `ManyTaken` say how the
number moves when one row changes or an owner's rows go, and each write to the tables has
one lemma on what it does to both halves (`BeginsSound` to `DropsSound`).

### The library file

| theorem | states | argument |
|---|---|---|
| `FileInvariant` | `LibSpec => []FileInv` | below |
| `FileIsTyped`, `MigrationsRunOnce`, `WritersAreCurrent` | `[]LibTypeOK`; `[]VersionIsSchema`: the version says which migrations took effect, each once; `[]OnlyCurrentIsWritten` | `SchemaInv` |
| `AnswersStayTrue` | `[]AnswersAreTrue`: who was told "done" finds both rows, who was told that a transaction failed finds both or none | `Told` |
| `WaitersAreOwed` | `[]Owed` | part of it |

Any number of processes, each with any threads, versions and crashes. The properties are
not inductive: an answer is true because of what was done while its caller waited. So the
invariant follows a job: while it is queued it has written nothing and is in the queue
once (`Queued`); while it is served, what of it is there is what it has written
(`Serving`), and taking the file back to `undo` takes away just that, since nobody else
writes during a transaction (`Kept`); once it is answered, the answer is true of the last
job its caller sent (`Told`, `Past`). Whoever migrates has seen no version above the
file's, and nobody who is open has another version than the file (`Phases`): that the
version was read before the transaction that migrates, and may be old by then, is the
hazard.

### The parts of a library

| theorem | states | argument |
|---|---|---|
| `PartsInvariant` | `LibrarySpec => []PartsInv` | one invariant per part, below |
| `NothingHalfDone` | `[]AllOrNothing`: what was told is what happened, all of it or nothing | `FileInv` above; `FilesInv`, `RecordsInv` and `GenInv` |
| `FilesComeBack` | `[]FilesReadBack`: lines are read once, strict mode is exact, and what is exported reads back | `FilesInv`, whose conclusions `FilesHold` draws |
| `CancelsAreHeeded` | `CancelIsHeeded` | only `LastCheck` lets a transaction commit, and it reads the flag of the job it is of (`WorkIsRungs`) |
| `LibrariesAreStores` | `LibrarySpec => BlobsSpec` | each step of a part is one of the blob store, or leaves it alone; `BlobsStayKept` and `RepairsHeal` are of `BlobsSpec` |

* *Catalogue* (`RecordsInv`): `BlobsCounted` says that a count is the number of columns of
  three tables, and it moves with them only if an id names one row (`TablesKeyed`, which
  rests on `NextIdIsNew`: one above the largest there is), fields are told apart by group
  and ordinal, and a group has one column of arrival times (`OneToa`). A cascade gives
  back one for each column under the groups that go, from a list in which kinds of columns
  are side by side; `GivenBack` says that no two of them are the same entry of that list,
  and so that as many are given back as go. `InsertPulsesKeeps` is the converse: a group
  of pulses whose columns share their contents counts each of them. `EditHeld`, that an
  edit under way is of a signal that is there, is what keeps its mirror from outliving it.
* *CSV* (`FilesInv`): until its commit an import has put nothing into the library
  (`AllOrNothing`). Where each line went is said with the offsets of the groups
  (`Offsets`, `LinesAt`): group n begins where n - 1 groups and their pulses end, its
  pulses are the lines after its row, and a line on hold is the last one read. On the
  second pass what is left of the file is the exported lines from that offset on (`Left`),
  groups that are complete are the exported ones and the one being read is the beginning
  of the next (`BackAt`), so that the count that was written is met, no line is handed back
  and strict mode has nothing to raise. It needs that what is stored of a stored cell is
  that cell (`AllSettled`), and that no group is longer than a count can say (`AllShort`).
  That `Export` is those lines is an induction over the groups, taken as a least
  counterexample (`UpToN`, `ExportIs`).
* *Generation* (`GenInv`): the transaction under way is the first rungs of the sweep it was
  asked for, one for each rung of its progress (`WorkIsRungs`), and a job is queued, run
  and answered once each, in this order (`QueuedOnce`, `RunOnce`, `AnsweredJobs`), whence
  an answer is of what the library holds. That the rungs of a range are every value from
  start towards stop and no other (`RangeIsBetween`, for steps up and down) is arithmetic of
  quotients and remainders: `Divided`, `Multiples`, `StepsReach`.

### The traces of the scope

| theorem | states | argument |
|---|---|---|
| `TracesInvariant` | `ScopeSpec => []TracesInv` | below |
| `NobodyElsesSamples` | `[]DrawnFromItsOwn` | part of it |
| `NewestIsDrawn` | `[]AskedIsDrawn` | part of it |

A reduction names rows by position, and rows move. It is the generation that makes this
safe: `RequestsAreKnown` says that no reduction is of a generation yet to come, and that
one of the current generation finds every row it was asked for where it was and as it
was (`IsNewest`). Each message that moves, restyles or drops a row, or changes the
window, asks anew and so makes what was out an older one; showing or hiding a row does
not, and moves nothing. That a signal is on one row (`RowsAreOne`) is what lets "asked
for" be said of signals.

### The screens

| theorem | states | argument |
|---|---|---|
| `PromotionIsFaithful` | `RunsSpec => PromotionKeepsTolerances` | a name stands for one baseline (`OnePerName`), so the tolerance read is the one that is replaced |
| `BaselinesKeepTheirRuns` | `RunsSpec => []BaselinesHaveRuns` | both writes look at the library when they run, not when they were asked for |
| `ScreensKeep` | `ApplicationSpec => []ApplicationInv` | one invariant per screen, below |
| `WhatIsSelectedIsShown`, `NoWaitIsForgotten`, `WhatSettlesIsCurrent`, `ScreensWriteSoundly` | `[]ShownIsSelected`, `[]WaitsAreOwed`, `[]SettledIsCurrent`, `[]WritesAreSound` | part of it, screen by screen |
| `SettingsAreKept` | `SettingsSurvive` | a save under way is of the settings of the program that runs, since one update ends before the next begins, and only a file that is written whole is renamed over the old one; the step that adopts a folder is the only one that counts its files |
| `WhatIsDoneIsMeant` | `DoneIsMeant` | by cases on who hears a key: the capture, the palette, a text field, the keymap |

A screen is sound because of what is out, not of what it holds: between two messages its
fields may disagree with the library, with what was asked and with each other. So each
screen's invariant says what the messages on their way may be.

* *Runs* (`RunsInv`): what is marked is listed, and the detail that is shown was asked for.
* *Results*: an answer that carries the newest number (`NewestLoad`) is of the selection,
  or, with the run's detail out, of it but for the run; a view that is neither
  (`ShownFits`) has that answer on its way.
* *Pipeline*: every read that is out knows which library it was asked of (`PipelineRead`),
  rows it names are there, and a run that is going has its answer out.
* *Library*: hits are of the text they were searched with (`LibraryAnswer`), and what is
  typed parses to what it means (`ParsedMeans`); a detail that is out says which group it is of.
* *Inspector*: a draft, a write or an answer is of a signal, whose attributes it was read
  from (`SoundWrite`); pages begin at multiples of their length, before the end
  (`PageOf`); the writer may take the writes in any order (`TakenOut`).
* *Properties*: what is queued to be written is of a form that was complete, and no two
  declared properties have one key, whatever is inserted while a form is edited.
* *Settings*: all copies hold settings that `validated` would leave alone, which is where
  the lists without repetitions come from (`Kept`); what is on disk may not be: it is
  validated when it is read.
* *Scope*: `TraceInv` is that of the traces above; `GestureInv` that a press is used at most once.
* *Window*: `HintInv`, and for keys no invariant but the step: what a chord finds depends
  on the screen, and each listener stops the next.

The steps of a screen leave the variables of the others alone (`part`), so that
`ApplicationInv` follows from the nine.

### What decides before and after a run

| theorem | states | argument |
|---|---|---|
| `PipelinesAreVetted` | `VettingSpec => []ValidatedRuns` | `DefInv` for the walk, `HashMeansAlike` for the hash |
| `PassesEarned` | `VettingSpec => []PassesAreEarned` | `SuiteInv` and `GateInv` |

`VettingSpec` is the half of `ProcessingSpec` that is about the three of `Vetting`, and
each run of the other implies it: `MCProcessing` adds variables and parts, and leaves
these as they are.

*Pipelines.* `DefInv` says of a pipeline that is walked that it is `Served`, each required
artifact being an output of an enabled stage before; that what is on the frame was
`Published` by a stage that has run, from a port of its own of that name and kind; and
that of each port of the stages that have run something of its kind was `Delivered`. The
last is what is not obvious: publishing under a name that is taken replaces, so an
artifact stays only because what replaces it is of its kind, which `Published` traces
back to the descriptors. `HashMeansAlike` needs no induction: the enabled stages are
numbered by how many of them there are so far, `RanksAre` shows that a bijection with
`1 .. n` (an injection between finite sets of one size is onto), and `ResolvedIsTold`
that resolving says of each parameter what the stage is told of it.

*Conformance.* `SuiteInv` says what each phase has established of the stage: `DeclaredWell`,
`TriedWell` for every case behind, `Heeded`; each only as long as nothing was found and
nothing waived, since a suite that has found something goes on. That a good stage passes
is kept by itself: of a promise that is kept, no check gives a finding (`GivenIs`).

*Regression.* Rows may go while the gate reads them. `GateInv` says that until then what it
has seen is what is on record (`SeenTrue`), that a compared group is in `dirty` or agrees
(`CleanSoFar`), and that with the golden run's own rows nothing is in `dirty`
(`SameIsClean`). That what `compare.rs` computes implies what a reader wants, `CleanAgrees`,
takes the extremes of finite sets of numbers, which are shown to exist from the least
natural number of a set (`LeastNumber`), and that an infinite difference is beyond every
finite tolerance. `EvaluateIs` says of an assertion that it does not apply, is in error, or
compares two numbers; all of `AssertionsAreTrue` follows from that.

### The rest

| theorem | states | argument |
|---|---|---|
| `EachFileOnce` | `Spec => []QueueIsSound` of Imports | `enqueue` puts in only what is neither queued nor running; an unattended drain looks only at entries the watcher queued, and the name it gives is the file's own |
| `DrainsLoseNothing` | `NothingDropped` | `start_next` finds the first entry its intent may take and moves it into `running`, or drops it if there is no library; sequences with one entry removed hold all others |
| `DrainsStaySound` | `DrainsAreSound` | the former, and `WatchNeverStalls`: with a library open whatever ends an import starts the next drain, and a drain ends only on a queue that holds nothing it may take |
| `OffersStayRipe` | `OffersAreRipe` | what the watch has seen of a file is its size at the last scan, and is forgotten when the file vanishes |
| `CapHolds` | `Spec => []WithinCap` | `Compared`: a claim about to exchange has compared the value it read |
| `RefusalsAreRight` | `[]RefusalsStand` | `SeenIsPast`: the value compared is one the counter had, and it only grows |
| `LoopIsAtomic` | `Spec => ImplementsBudget` | `Exchange` and `Refuse` map to `Claim`, everything else to a stutter |
| `PlaybackIsTyped`, `PlayheadStaysInRange` | `PlaybackSpec => []PlaybackTypeOK`, `[]InRange` | `Placed`: a transport that is well formed, in its range, and not playing over an empty one, is kept by every method; `Advance` by the remainder and quotient lemmas, one per loop mode |
| `FramesCostNoPosition` | `[]FrameRateIndependent` | `TwoTicksAreOne`, for each loop mode: once, the second tick finds it paused; in a loop the two ticks differ by whole spans (`WholeSpans`); in ping-pong by whole double spans or by a mirror image (`Mirrored`) |
| `OnlyPlayedTimeIsApplied` | `[]GapWasPlayed` | every message that starts or moves playback resets the clock; both ages saturate alike |
| `ExternalHandlesAreSound` | `ExtSpec => []HandlesAreSound` | `IInv`: which calls an instance may have queued (`Shapes`), every open handle with one owner (`Owners`), the lock with the one that is in a call that takes it (`Locks`), an unfreed output with the instance that frees it next (`Unread`) |

None of the three supposes that a library is open, or that opening one does not fail.

`HandlesAreSound` is not inductive by itself: that a call is on an open handle of its
own needs to know what else is queued behind it, which is what `Shapes` says. The proof
takes the calls of a queue from the library's sequence theorems, once, in `Queues`.

### Only model-checked

* The cache while runs are deleted: `reuse` checks `CachedEqualsCold` and
  `CachedRowKeepsMetrics` with deletions and two executions; the order that breaks the
  first takes three (§6).
* `KeysAreKnown`: that the palette's ranking finds exactly the subsequences is a fold over
  the letters, and that no action is shadowed silently is a fact about one table of keys.
* `ViewsAreTrue`: that no sample is hidden by a reduction, that a query or a search finds
  what answers it, and that a table shows its rows. Each is about what a definition
  computes for an input (columns of values, payloads), which takes an induction over it.
* `StagesAreExact` and `SamplesStandAlone` of `MCProcessing` (the arithmetic of the stages, and
  the generator with its screen), and `TypedIsTaken`, which is false. Modules with a RECURSIVE operator are out of the prover's reach altogether (trees, payloads,
  expressions), and so is what a recursive function computes for every input. Where an
  induction is over a sequence that is at hand, as the queue of imports or the stages of a
  cold run or the groups of an exported file, the proofs take its least counterexample instead.
* Liveness: `RunsReturn`, `WatchedImported`, `OnceEnds`. They need ENABLED, which the prover does not do.

## 6. Findings

Shown by a run (details and quotations in `PROJECT.json`):

* **untimed**: `hash_samples` leaves the timebase out for samples that are in memory,
  while a blob's checksum has it. Two groups that differ in timebase only share a key
  behind a stage that kept nothing.
* **reborn**: a run deleted while it goes has its id handed out again, and two
  executions record into one run.
* **exclusive**: freeing an output and closing a handle do not take the lock of a library
  that is not thread-safe, so it may be entered twice at once.
* **typed**: what is typed into the box of a text parameter is read as a number, so the
  name of a signal never reaches the stage.

Seen while modelling, without a run of their own. Models follow the code in all of them;
where a property or a run leaves one out, the comment of the property says so.

*Runs and the store*

* A cached stage does not repeat its property patches (`sp-proc/src/scheduler.rs:869`); a
  later stage that reads a property computes something else than in a cold run.
* DESIGN §9.5 caps the samples a run adds. Samples the cap turned away at one stage, or
  that a stage which keeps `never` left, are written by the next, if that passes the signal
  on: passthroughs are not claimed (`scheduler.rs:1091`). So a run with a cap of 0 may add
  samples, as the second one of `reuse` does; `SampleCapHolds` is about what stages make.
* A group whose job fails, or that is cancelled between stages, leaves its `run_group`
  row at `running` when the run is closed.
* `reuse_cached` finds a stage in one job and copies it in another, by its place
  (`scheduler.rs:817`, `runs.rs:1116`). If the run is the newest, is deleted in between and
  another execution is given its id and records the stage before the copy is made, then the
  copy is of that execution's output. It takes three executions: `CachedEqualsCold` is then false.
* `record_source` takes a reference before an insert that may be refused, in no
  transaction: the blob then stays for good.
* `copy_cached_output` shares the samples of the stage it copies whatever the retention
  of the stage it copies to, so a stage that keeps `never` may have samples.
* If run-level artifacts cannot be recorded, `run_pipeline` returns before `finish_run`
  and the run stays `running`, which `prune_runs` passes over.
* `verify` reads table by table; a repair from a report older than a write makes counts
  drift. Deletions release blobs statement by statement.
* `update_signal_attributes` commits statement by statement. Infinite values of a field
  are pruned by zone maps that hold finite values only. Two attributes whose names
  normalise to one column share it. A tag asked for twice matches nothing.
* Two processes that migrate one file at once: the later fails, and may be tried again.
* Strict mode does not refuse an unreadable number outside the time column; a count of
  2^32 - 1 is taken for unknown.

*Judging*

* The regression gate does not compare run-level artifacts, outcomes of assertions, the
  timebase or the domain; a baseline's plain rows deleted while they are read are a
  match; equal infinities give a NaN residual, which is out of tolerance.
* A diff of artifacts compares the start of a span only, and of a matrix the width of its
  rows (`artifact/data.rs:291`); payloads that do not decode fail the gate even if they
  are the same; absent and empty columns compare equal.
* Conformance: a stage that fails or panics from its second call on passes determinism.
* Comparison pairs signals of one stage by name and takes the first of each
  (`compare.rs:465`): if a stage records two of one name, the second is never compared.
  `PassesAreEarned` is claimed for signals of different names.
* Parameters are checked by kind while ports are keyed by name; defaults are never
  checked against their own limits; registration stops at the first failure.
* Threshold on an irregular signal reports every detection at 0 s, and peak finding
  ignores gap and window there. "Of two peaks closer than this, the taller is kept" does
  not hold of chains. A word of 64 bits is stored negative.

*External libraries*

* A process that fails leaves its output to nobody; `begin_run` is called per group and
  has no `end_run` if processing fails; the file may change between hash and load; a
  loaded library is kept by path until the application restarts.

*Import, generation, playback*

* The stem the import screen fills in after one file is taken for a name a person typed;
  the next file dropped alone is imported under it (`import.rs:413`).
* `start_next` takes an entry off the queue before it asks for the library; if that
  failed to open meanwhile the file is gone from the queue, with no outcome.
  `NothingDropped` says that this is the only way, and that it costs one file.
* A watched file queued while no library is open, or left behind when one closes, waits
  until something else starts a drain (the `LibraryOpen` of `WatchNeverStalls` and of
  `WatchedImported`). `Dequeue` carries the index a row had when it was drawn.
* A sweep names its parameter by position, silently does nothing if it is gone, and
  rounds integral parameters while the requested value is recorded. Keyboard shortcuts
  start a generation, an import, a run or a save of a pipeline while one is going
  (`actions.rs:470`, 481, 483).
* A stalled frame is dropped and not clamped (§11.2 says clamped). Ping-pong that paused
  at its end and plays again in Once jumps. Zooming at the longest duration slides the
  anchor. A residual of points against bars may be off by one pixel.

*Screens*

* Answers that say nothing about what they answer: `Results` details and comparisons,
  `Pipeline` groups, `Generate` previews, saves in the Inspector, list reads of
  Properties and Runs, any load across a switch of libraries. The models have those
  orders; what is claimed is what holds in all of them.
* Results: selecting a run clears the view but does not outdate a load that is out
  (`results.rs` 720-738), so the signals of the run before come back under the new one, and
  stay if its detail fails or has no groups (844-846); `ViewIsSelected` says so. Promote
  promotes a run that is no longer shown, and replaces the tolerances of the name
  (745-775), which the Runs screen keeps; a run's selection leaves the marked diff. Runs: a name offered for a promotion stays when another run is selected; a
  refusal is erased by the reload that follows it.
* Inspector: an answer that comes after AddTag, RemoveTag or Rename throws away
  half-typed fields. Generate: picking a variant replaces the object around the box and keeps
  the drafts (`generate.rs` 751-766), and a draft is shown before the document (1054): type
  5 as a field's constant, pick Ramp, then Constant, and the box shows 5 while the document
  holds 1.0; `DraftsStayHome` leaves boxes under a replaced object out. The form offers the
  variants by the name of the field alone (1710) where they are listed by its whole pointer
  (2276), so that the pick-list of an envelope or a modulation is never drawn; the handler
  takes such a message, and so does the model. Properties: a form edited while it is saved is cleared by the
  answer; a pattern of a text and a default are never checked.
* Library: a group pressed among the hits before the tree has it is read as a plain one, so
  that the rows of a group of pulses would be shown as samples (`library.rs` SelectGroup;
  `PaneIsSelected` leaves that case out); clearing the search leaves the property key; hits of a search that was cleared
  meanwhile are shown with no filter; a descending sort puts the unknown first.
* Scope: a release swallowed by a resize leaves a drag nobody holds; a box zoom is
  computed with the viewport at the release.
* Settings: the import mode overwrites the profile on screen; the library chosen is saved
  before it is known to open; the message about a removed stage is not what happens; an
  error is never cleared.
* Keymap and palette: a chord of the key `+` cannot be read back (`keymap.rs:221` splits at it), so the
  action has no key, which `PressedIsBound` leaves out; the palette's selection may be past the
  rows it draws; bindings in capture stay set when another screen is chosen.
* Command line: the cap in megabytes is multiplied unchecked (`cli.rs:351`).

## 7. Not modelled

* Floating point: filters, transforms and conditioning (`sp-dsp`), waveforms (`sp-gen`),
  `stats.rs`. Models take such a function as a function, or as the place it is computed
  from.
* Drawing, layout and wording; sniffing and column types of CSV; argument parsing.
* Import profiles, statistics columns, preset files: rows written and read in one
  statement each.
* The sample external library, an example for users of the boundary.
* Late answers across a switch of libraries are modelled where the screen tells them
  apart (`PipelineScreen`, `LibraryScreen`, `Inspector`); `ScopeTraces` is checked while
  one library is open, since nothing in the code separates two.
* What hangs on the order of two reads of one job: most reads are several statements
  without a transaction, and are one step of the models unless `verify` or
  `check_baseline` makes them.

Components are `partly` modelled in `PROJECT.json` if any operation that changes their
state is left out, with what it is.

## 8. Plan

1. **Artifacts and ports** in RunStore and Scheduler, with artifact references between
   stages and the rows of assertions: the last state of a run that is left out.
2. **Proofs**: `QueriesAnswer` of the catalogue, from an invariant that ties the mirror to
   the attributes.
3. **Reads of several statements**: search and details in Catalog, lists in RunsScreen.
4. **Import profiles and sniffing**; the reader pool of the store.
5. **Transport on the Results screen**, which drives the same clock by messages of its
   own, and the residual view.
