SPECIFICATION LibrarySpec
CONSTANTS
  Parts = {"tables", "blobs", "repair", "file", "csv", "reduction", "catalog", "generation"}
  Columns = {colA, colB}
  Chunks <- OneChunk
  Owners = {run1, run2}
  Slots = {1}
  MaxId = 3
  Builders = {"b1", "b2"}
  MaxCrashes = 1
  MaxRepairs = 1
  FileProcesses = {"app", "cli"}
  FileCallings <- Programs
  FileSchema = 2
  FileVersions = {0, 1, 2, 3}
  FileJobs = 1
  FileKills = 1
  CsvCells = {"0", "1", "2", "", "#"}
  CsvNumbers <- Numbers
  CsvForms <- Forms
  CsvEmpty = ""
  CsvHash = "#"
  CsvGroupArity = 1
  CsvArities = {1, 2}
  CsvUnknown = 3
  CsvLines = 3
  RecordContents = {1, 2}
  RecordValues <- ColumnValues
  RecordPulses <- PulseRows
  RecordAttributes <- AttributeSets
  RecordTags = {"gold"}
  RecordRoom <- TableRoom
  GenRequests <- Sweeps
  GenRungs = 4
  GenJobs = 2
  PendingSum = PendingSum  NoSum = NoSum
SYMMETRY Alike
CHECK_DEADLOCK FALSE
INVARIANTS BlobsAreKept AllOrNothing FilesReadBack ViewsAreTrue
PROPERTIES RepairHeals CancelIsHeeded
