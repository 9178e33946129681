------------------------------ MODULE MCLibrary ----------------------------
(* The library and what is kept in it: the file and its schema, the columns    *)
(* of samples and their reference counts, the rows that describe them, what    *)
(* is read from CSV and generated into it, and the reductions and tables its   *)
(* contents are drawn as.  A behaviour is of one part.                         *)
EXTENDS Blobs, TLC

CONSTANTS
  Parts,
  FileProcesses, FileCallings, FileSchema, FileVersions, FileJobs, FileKills,
  CsvCells, CsvNumbers, CsvForms, CsvEmpty, CsvHash, CsvGroupArity, CsvArities, CsvUnknown, CsvLines,
  RecordContents, RecordValues, RecordPulses, RecordAttributes, RecordTags, RecordRoom,
  GenRequests, GenRungs, GenJobs

VARIABLE part      \* the component a behaviour is of
VARIABLES
  tablesSchema, left, right, playhead, sorts,
  version, fileSchema, dangling, rows, filePhase, seen, fileQueue, writer, undo, caller,
  fileCrashes,
  mode, arity, pass, file, pending, block, filesPhase, filesGroups, store, first, read,
  window, width, style, periodA, periodB, tracePhase, column, base, open, filled,
  levels, other,
  datasets, trains, recordsGroups, signals, fields, count, tags, tagged, mirror, edit,
  genJob, shown, completed, genQueue, tx, cancel, progress, answers, library, defs

\* Blobs: two columns and two runs, which nothing tells apart.
Alike == Permutations(Columns) \cup Permutations(Owners)
OneChunk == [c \in Columns |-> 1]

\* LibraryFile: two versions of the application, and the newer one as a command.
Programs == {<<"app", 1>>, <<"app", 2>>, <<"cli", 1>>}

\* Csv: what a cell reads as; -1 is empty, -2 is not a number.
Numbers == [c \in CsvCells |-> CASE c = "1" -> 1 [] c = "0" -> 0 [] c = "2" -> 2 [] c = "" -> -1 [] OTHER -> -2]
Forms == [c \in CsvCells |-> c]

\* Reduction: a trace may begin before the capture.
Starts == -1 .. 2
Styles == {[gain |-> 1, bias |-> 1], [gain |-> -1, bias |-> 0], [gain |-> 1, bias |-> -1]}

\* Catalog: two columns, one with a value that is not a number (99), and a pulse of both.
ColumnValues == [c \in {1, 2} |-> IF c = 1 THEN <<1, 3, 99>> ELSE <<3, 2, 1>>]
PulseRows == {[toa |-> 1, fields |-> <<[key |-> "rf", content |-> 1], [key |-> "pw", content |-> 2]>>]}
AttributeSets == {<<>>, [snr |-> [kind |-> "number", of |-> 2]],
                  [snr |-> [kind |-> "text", of |-> 1], ok |-> [kind |-> "bool", of |-> 1]]}
TableRoom == [dataset |-> 1, train |-> 1, group |-> 2, signal |-> 2]

\* Generation: nothing swept, ranges, lists, and lists of group sizes.
RangeSweeps == [kind : {"range"}, at : {4}, start : {2, 4}, stop : {1, 4, 7}, step : {-1, 0, 2}]
ListSweeps == [kind : {"list"}, at : {4}, values : {<<4, 3>>, <<>>, <<4, -4>>}]
Sweeps ==
  [sweep : RangeSweeps \cup ListSweeps, ladder : BOOLEAN, integral : {FALSE}, source : {"there"}]
  \cup [sweep : ListSweeps \cup {[kind |-> "groups", at |-> 4, values |-> <<2, 2>>]}, ladder : {FALSE},
        integral : {TRUE}, source : {"there"}]
  \cup [sweep : {[kind |-> "none", at |-> 4]}, ladder : {FALSE}, integral : {FALSE}, source : {"there", "missing"}]

\* ArtifactTable: two columns of every kind, and payloads side by side, of its JSON values.
Null == [is |-> "null"]
Num(n) == [is |-> "number", n |-> n]
Text(n) == [is |-> "text", n |-> n]
Flag(n) == [is |-> "bool", n |-> n]
Arr(s) == [is |-> "array", of |-> s]
Both(a, b) == Arr(<<Num(a), Num(b)>>)
Lists(S, n) == {Arr(s) : s \in UNION {[1..m -> S] : m \in 0..n}}
Schemas == {<<[name |-> "at", kind |-> k], [name |-> "v", kind |-> j]>> :
                k \in {"time", "span"}, j \in {"float", "int", "bool", "text", "array"}}
Times == Lists({Num(2), Num(5), Both(2, 7), Both(3, 3)}, 2) \cup {Null}
Cellfuls == Lists({Num(2), Num(3), Text(1), Both(2, 3)}, 2) \cup Lists({Flag(0), Null, Arr(<<Num(1), Num(2), Num(4)>>)}, 1)
            \cup {Arr(<<Num(2), Null>>), Arr(<<Null, Flag(0)>>), Num(6), Arr(<<Num(8), Null, Num(6), Num(7)>>), Arr(<<Null, Num(6), Null, Num(9)>>)}
Payload(t, v) == [f \in {"at", "v"} |-> IF f = "at" THEN t ELSE v]
Pairs == {<<Payload(t, v), Payload(u, v)>> : t \in Times, u \in Times, v \in {Null, Num(2)}}
   \cup {<<Payload(t, v), Payload(t, w)>> : t \in {Arr(<<Num(5), Num(2)>>)}, v \in Cellfuls, w \in Cellfuls}

-----------------------------------------------------------------------------
Tables == INSTANCE ArtifactTable WITH
  Instants <- {0, 3, 6}, Tolerance <- 1, schema <- tablesSchema
File == INSTANCE LibraryFile WITH
  Processes <- FileProcesses, Callings <- FileCallings, SchemaVersion <- FileSchema,
  Versions <- FileVersions, MaxJobs <- FileJobs, MaxCrashes <- FileKills, schema <- fileSchema,
  phase <- filePhase, queue <- fileQueue, crashes <- fileCrashes
Files == INSTANCE Csv WITH
  Cells <- CsvCells, NumberOf <- CsvNumbers, Canonical <- CsvForms, Empty <- CsvEmpty,
  Hash <- CsvHash, GroupArity <- CsvGroupArity, Arities <- CsvArities, Unknown <- CsvUnknown,
  MaxLines <- CsvLines,
  phase <- filesPhase, groups <- filesGroups
Trace == INSTANCE Reduction WITH
  BaseShift <- 1, Values <- {0, 2}, Changed <- 2, MaxLength <- 24, MaxCount <- 3,
  Periods <- {1}, Widths <- {1, 2}, MinDuration <- 1, MaxDuration <- 12,
  phase <- tracePhase
Records == INSTANCE Catalog WITH
  Contents <- RecordContents, Values <- RecordValues, Pulses <- RecordPulses,
  Attributes <- RecordAttributes, Tags <- RecordTags, MaxOf <- RecordRoom,
  groups <- recordsGroups
Gen == INSTANCE Generation WITH
  Requests <- GenRequests, MaxRungs <- GenRungs, MaxJobs <- GenJobs, job <- genJob, queue <- genQueue

ASSUME FileAssumed == File!FileAssumption
ASSUME CellsAssumed == Files!CsvAssumption
ASSUME ContentsAssumed == Records!CatalogAssumption
ASSUME SweepsAssumed == Gen!GenerationAssumption

TablesUnused ==
  tablesSchema = 0 /\ left = 0 /\ right = 0 /\ playhead = 0 /\ sorts = 0
FileUnused ==
  version = 0 /\ fileSchema = 0 /\ dangling = 0 /\ rows = 0 /\ filePhase = 0 /\
  seen = 0 /\ fileQueue = 0 /\ writer = 0 /\ undo = 0 /\ caller = 0 /\ fileCrashes = 0
FilesUnused ==
  mode = 0 /\ arity = 0 /\ pass = 0 /\ file = 0 /\ pending = 0 /\ block = 0 /\
  filesPhase = 0 /\ filesGroups = 0 /\ store = 0 /\ first = 0 /\ read = 0
TraceUnused ==
  window = 0 /\ width = 0 /\ style = 0 /\ periodA = 0 /\ periodB = 0 /\
  tracePhase = 0 /\ column = 0 /\ base = 0 /\ open = 0 /\ filled = 0 /\ levels = 0 /\
  other = 0
RecordsUnused ==
  datasets = 0 /\ trains = 0 /\ recordsGroups = 0 /\ signals = 0 /\ fields = 0 /\
  count = 0 /\ tags = 0 /\ tagged = 0 /\ mirror = 0 /\ edit = 0
GenUnused ==
  genJob = 0 /\ shown = 0 /\ completed = 0 /\ genQueue = 0 /\ tx = 0 /\ cancel = 0 /\
  progress = 0 /\ answers = 0 /\ library = 0 /\ defs = 0
TablesVars == <<tablesSchema, left, right, playhead, sorts>>
FileVars == <<version, fileSchema, dangling, rows, filePhase, seen, fileQueue,
  writer, undo, caller, fileCrashes>>
FilesVars == <<mode, arity, pass, file, pending, block, filesPhase, filesGroups,
  store, first, read>>
TraceVars == <<window, width, style, periodA, periodB, tracePhase, column, base,
  open, filled, levels, other>>
RecordsVars == <<datasets, trains, recordsGroups, signals, fields, count, tags,
  tagged, mirror, edit>>
GenVars == <<genJob, shown, completed, genQueue, tx, cancel, progress, answers,
  library, defs>>

\* Blobs while pyramids are built, and while a library is verified and repaired.
Building == Store \/ Remove \/ Maintain \/ Build \/ Crash
Mending == Store \/ Remove \/ Maintain \/ Verify \/ Repair \/ Crash

\* A behaviour is of one component; the others are not there, or as at first.
LibraryInit ==
  /\ part \in Parts
  /\ IF part = "tables" THEN Tables!TableInit ELSE TablesUnused
  /\ BlobsInit
  /\ IF part = "file" THEN File!LibInit ELSE FileUnused
  /\ IF part = "csv" THEN Files!CsvInit ELSE FilesUnused
  /\ IF part = "reduction" THEN Trace!RedInit ELSE TraceUnused
  /\ IF part = "catalog" THEN Records!CatalogInit ELSE RecordsUnused
  /\ IF part = "generation" THEN Gen!GenerationInit ELSE GenUnused

LibraryVars == <<part, TablesVars, blobVars, FileVars, FilesVars, TraceVars,
  RecordsVars, GenVars>>

LibraryNext ==
  /\ UNCHANGED part
  /\ IF part = "tables" THEN Tables!TableNext ELSE UNCHANGED TablesVars
  /\ CASE part = "blobs" -> Building
       [] part = "repair" -> Mending
       [] OTHER -> UNCHANGED blobVars
  /\ IF part = "file" THEN File!LibNext ELSE UNCHANGED FileVars
  /\ IF part = "csv" THEN Files!CsvNext ELSE UNCHANGED FilesVars
  /\ IF part = "reduction" THEN Trace!RedNext ELSE UNCHANGED TraceVars
  /\ IF part = "catalog" THEN Records!CatalogNext ELSE UNCHANGED RecordsVars
  /\ IF part = "generation" THEN Gen!GenerationNext ELSE UNCHANGED GenVars

LibrarySpec == LibraryInit /\ [][LibraryNext]_LibraryVars

-----------------------------------------------------------------------------
\* What a caller was told is what happened, all of it or nothing, although the
\* application and the command line write one file, migrate it and are killed: the
\* version says which migrations took effect and a newer file is not written; an
\* import that is cancelled or refused leaves nothing and one that succeeds every
\* group; a generated dataset has every rung of its sweep or is not there; and the blobs that
\* columns of signals and of pulses share are counted once for each
\* (db.rs, sp-csv, generate.rs, pulses.rs, library.rs).
AllOrNothing ==
  /\ part = "file" => /\ File!LibTypeOK /\ File!VersionIsSchema
                      /\ File!AnswersAreTrue /\ File!Owed /\ File!OnlyCurrentIsWritten
  /\ part = "csv" => Files!AllOrNothing
  /\ part = "generation" => /\ Gen!GenerationTypeOK /\ Gen!SweepsAreWhole
                            /\ Gen!RungsAreDeclared /\ Gen!FailedLeavesNothing
  /\ part = "catalog" => Records!CatalogTypeOK /\ Records!BlobsCounted

\* A generation cancelled before its last check commits nothing, then or later
\* (generate.rs, screens/generate.rs).
CancelIsHeeded == [][part = "generation" => Gen!CancelIsHeeded]_LibraryVars

\* No line of a file is lost or read twice, what strict mode lets through is exact, and
\* exporting and importing again gives the same groups (goal G1), provided no exported
\* row begins with the comment prefix and none is a single empty cell (sp-csv).
FilesReadBack ==
  part = "csv" => /\ Files!CsvTypeOK /\ Files!LinesOnce
                  /\ Files!StrictExact /\ Files!RoundTrip

\* What is looked at is what is stored.  No sample in the window is hidden at any zoom,
\* from levels that cover their values and are read in slices the canvas bounds; a
\* query finds what answers it and no pulse is lost to a zone map; a table shows each
\* row once and lights the one the playhead is in; payloads a diff calls equal are, and
\* one of even shape can be diffed (reduce.rs, pyramid.rs, library.rs, pulses.rs,
\* artifact/data.rs, panes.rs).
ViewsAreTrue ==
  /\ part = "reduction" => /\ Trace!RedTypeOK /\ Trace!LevelsCover /\ Trace!NothingHidden
                           /\ Trace!ReadIsBounded /\ Trace!SameIsZero
  /\ part = "catalog" => Records!QueriesAnswer /\ Records!TagsNarrow /\ Records!SearchIsExact
  /\ part = "tables" => /\ Tables!RowsShownOnce /\ Tables!LitRowIsCurrent
                        /\ Tables!DiffTellsNumbers /\ Tables!EvenPayloadsDecode
=============================================================================
