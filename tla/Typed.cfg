SPECIFICATION ProcessingSpec
CONSTANTS
  Parts = {"definition"}
  Kinds = {"fft", "peak"}
  Descriptor <- MCNaming
  Values = {}
  Typed <- MCTypedNames
  Expressions = {}
  MaxStages = 2
  Cases = {"ordinary", "empty"}
  FirstCase = "ordinary"
  Judged <- MCJudged
  Waivable = {"determinism", "cancellation"}
  Groups = {"g1"}
  Records <- MCRecords
  Limits <- MCLimits
  Amounts = {0, 2, 50}
  Instances = {s1, s2}
  IsExclusive = TRUE
  Outputs <- MCOutputs
  Inputs = 2
  MaxHandles = 3
  MaxBuilds = 2
  Claimants = {1, 2, 3, 4}
  Bytes <- MCBytes
  Cap = 6
  MaxU64 = 7
CHECK_DEADLOCK FALSE
INVARIANT TypedIsTaken
