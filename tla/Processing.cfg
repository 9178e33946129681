SPECIFICATION ProcessingSpec
CONSTANTS
  Parts = {"external", "budget", "definition", "conformance", "regression", "digital", "detect", "render", "expr", "streams", "pulses", "generate"}
  Kinds = {"fft", "peak"}
  Descriptor <- MCDescriptor
  Values = {}
  Typed <- MCTyped
  Expressions <- MCExpressions
  MaxStages = 2
  Cases = {"ordinary", "empty"}
  FirstCase = "ordinary"
  Judged <- MCJudged
  Waivable = {"determinism", "cancellation"}
  Groups = {"g1"}
  Records <- MCRecords
  Limits <- MCLimits
  Amounts = {0, 2, 50}
  Instances = {s1, s2}
  IsExclusive = TRUE
  Outputs <- MCOutputs
  Inputs = 2
  MaxHandles = 2
  MaxBuilds = 2
  Claimants = {1, 2, 3, 4}
  Bytes <- MCBytes
  Cap = 6
  MaxU64 = 7
CHECK_DEADLOCK FALSE
INVARIANTS HandlesAreSound ValidatedRuns PassesAreEarned StagesAreExact SamplesStandAlone
PROPERTIES ImplementsBudget
