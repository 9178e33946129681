CONSTANTS
  d0 = d0  d1 = d1  d2 = d2  d3 = d3  t0 = t0  t1 = t1  g1 = g1  g2 = g2  e1 = e1  e2 = e2 
  NoContent = NoContent  NoKey = NoKey  NoPlace = NoPlace  NoPipeline = NoPipeline
  NoData = NoData  NoTime = NoTime  NoChange = NoChange
  MaxRun = 2
  Groups = {g1}
  Ordinals <- MCOrdinals
  Contents <- MCContents
  Keys <- MCKeys
  Pipelines = {"p", "q"}
  Names = {}
  Keeps = {0}
  Retention <- TroubleRetention
  Source <- TroubleSource
  Execs = {e1, e2}
  Job <- TroubleJob
  Data = {d0, d1}
  Times = {t0}
  Attrs = {"plain"}
  GroupAttr <- MCGroupAttr
  Kinds = {"gain"}
  KindAt <- OneStage
  Pure = {"gain"}
  Fresh = {"gain"}
  Fallible = {}
  Transform <- MCTransform
  Patch <- MCPatch
  Size <- MCSize
  Upkeep = {"delete_live"}
  MaxFaults = 0
SPECIFICATION Spec
INVARIANT KeysResolve
