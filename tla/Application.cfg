SPECIFICATION ApplicationSpec
CONSTANTS
  Parts = {"marks", "promotions", "traces", "gesture", "pipeline", "results", "tree", "filters", "bins", "page", "name", "tag", "props", "properties", "keymap", "keys", "palette", "drag", "settings"}
  s1 = s1  s2 = s2  s3 = s3
  RunIds = {1, 2}
  Names = {"n"}
  Failing = {2}
  MaxRecorded = 2
  MaxAsked = 2
  ScopeSignals <- MCScopeSignals
  MaxTraces = 2
  MaxGeneration = 2
  MaxLibrary = 1
  Columns = {10, 12, 20}
  Widths = {100, 200}
  DragThreshold = 3
  DoubleClick = 2
  DoubleReach = 6
  MaxClock = 2
  Documents = {"a", "c", "new"}
  Draft = "new"
  SavedAs <- MCSavedAs
  Datasets = {1}
  MaxRows = 1
  MaxRuns = 2
  MaxOut = 1
  Runs = {"r1", "r2"}
  Newest = "r2"
  GroupsOf <- MCGroupsOf
  LastStage = 1
  MaxReload = 2
  MaxAnswers = 2
  Groups <- MCGroups
  LibrarySignals <- MCLibrarySignals
  LibraryWords = {"tone"}
  FilterTexts <- MCFilterTexts
  MaxLibraryAsked = 2
  Targets = {1, 2}
  Count <- MCCount
  PAGE = 2
  Damaged = {1}
  DraftTexts = {1}
  MaxInspected = 4
  Labels <- MCLabels
  KeyTexts <- MCKeyTexts
  ChoiceTexts <- MCChoiceTexts
  KindNames = {"enum"}
  PropWords = {"nrz", "x"}
  Scopes = {"signal"}
  MaxDeclared = 1
  MaxPropsAsked = 2
  Chords <- MCChords
  Rebound <- MCRebound
  VISIBLE = 3
  ShellChords <- MCShellChords
  ShellBound <- MCShellBound
  ShellLibraries = {1, 2}
  SignalsOf <- MCSignalsOf
  Commands <- MCCommands
  ShellStages <- MCStages
  Queries <- MCQueries
  MaxHover = 2
  Paths = {"a", "b"}
  Loadable = {"a"}
  Folders = {"f", "g"}
  Files = {"x", "bad"}
  Readable = {"x", "default"}
  MaxEdits = 3
CHECK_DEADLOCK FALSE
INVARIANTS ShownIsSelected WaitsAreOwed SettledIsCurrent WritesAreSound KeysAreKnown
PROPERTIES DoneIsMeant SettingsSurvive PromotionKeepsTolerances
