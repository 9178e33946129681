CONSTANTS
  d0 = d0  d1 = d1  d2 = d2  d3 = d3  t0 = t0  t1 = t1  g1 = g1  g2 = g2  e1 = e1  e2 = e2 
  NoContent = NoContent  NoKey = NoKey  NoPlace = NoPlace  NoPipeline = NoPipeline
  NoData = NoData  NoTime = NoTime  NoChange = NoChange
  MaxRun = 1
  Groups = {g1, g2}
  Ordinals <- MCOrdinals
  Contents <- MCContents
  Keys <- MCKeys
  Pipelines = {"p"}
  Names = {}
  Keeps = {0}
  Retention <- UntimedRetention
  Source <- UntimedSource
  Execs = {e1}
  Job <- OneJob
  Data = {d0, d1, d2}
  Times = {t0, t1}
  Attrs = {"plain"}
  GroupAttr <- MCGroupAttr
  Kinds = {"gain", "align"}
  KindAt <- UntimedKinds
  Pure = {"gain", "align"}
  Fresh = {"gain", "align"}
  Fallible = {}
  Transform <- MCTransform
  Patch <- MCPatch
  Size <- MCSize
  Upkeep = {}
  MaxFaults = 0
SPECIFICATION Spec
INVARIANT CachedEqualsCold
