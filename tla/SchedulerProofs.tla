---------------------------- MODULE SchedulerProofs ----------------------------
(***************************************************************************)
(* What RunStore promises, proved for every size of the library and every  *)
(* order of its write jobs; then what Scheduler promises of pipeline runs, *)
(* proved for any number of executions, groups and stages, and any order   *)
(* of their jobs.                                                          *)
(*                                                                         *)
(* The theorems of runs suppose that none is deleted while it is in flight *)
(* (NoneLive): the run Reborn shows what becomes of the store otherwise.   *)
(* Those of the cache suppose that none is deleted at all (NoneDeleted): a *)
(* worker looks a stage up in one job and copies it in another.            *)
(***************************************************************************)
EXTENDS Scheduler, FiniteSetTheorems, WellFoundedInduction, TLAPS

-----------------------------------------------------------------------------
(* Places *)

LEMMA SourceIsNoOrdinal == SourceStage \notin Ordinals
BY StoreAssumption DEF SourceStage

LEMMA PlacesAreAllPlaces == Places \subseteq AllPlaces
BY DEF Places, AllPlaces

-----------------------------------------------------------------------------
(* Types *)

LEMMA InsertType ==
  ASSUME runSignal \in [AllPlaces -> Contents \cup {NoContent}],
         NEW p \in AllPlaces, NEW c \in Contents \cup {NoContent}, Insert(p, c)
  PROVE  runSignal' \in [AllPlaces -> Contents \cup {NoContent}]
BY DEF Insert

LEMMA RetainType ==
  ASSUME refcount \in [Contents -> Nat], NEW c \in Contents \cup {NoContent}, Retain(c)
  PROVE  refcount' \in [Contents -> Nat]
BY DEF Retain

LEMMA AddKept ==
  ASSUME kept \in SUBSET AllPlaces, IsFiniteSet(kept), NEW p \in AllPlaces,
         kept' = kept \/ kept' = kept \cup {p}
  PROVE  kept' \in SUBSET AllPlaces /\ IsFiniteSet(kept')
BY FS_AddElement

LEMMA DropKept ==
  ASSUME kept \in SUBSET AllPlaces, IsFiniteSet(kept), NEW gone, kept' = kept \ gone
  PROVE  kept' \in SUBSET AllPlaces /\ IsFiniteSet(kept')
BY FS_Subset

\* The count of released references is a number.
LEMMA GoneCount ==
  ASSUME IsFiniteSet(kept), NEW gone \in SUBSET kept, NEW c
  PROVE  /\ IsFiniteSet({p \in gone : runSignal[p] = c})
         /\ Cardinality({p \in gone : runSignal[p] = c}) \in Nat
<1>1. {p \in gone : runSignal[p] = c} \in SUBSET kept
  OBVIOUS
<1> QED  BY <1>1, FS_Subset, FS_CardinalityType

LEMMA ReleaseType ==
  ASSUME refcount \in [Contents -> Nat], IsFiniteSet(kept), NEW gone \in SUBSET kept,
         Release(gone)
  PROVE  refcount' \in [Contents -> Nat]
<1>1. \A c \in Contents : Cardinality({p \in gone : runSignal[p] = c}) \in Nat
  BY GoneCount
<1> DEFINE n(c) == Cardinality({p \in gone : runSignal[p] = c})
<1>2. refcount' = [c \in Contents |-> IF n(c) >= refcount[c] THEN 0 ELSE refcount[c] - n(c)]
  BY DEF Release
<1>3. \A c \in Contents : n(c) \in Nat
  BY <1>1
<1> HIDE DEF n
<1> QED  BY <1>2, <1>3

LEMMA RemoveType ==
  ASSUME StoreTypeOK, NEW rs \in SUBSET RunIds, Remove(rs)
  PROVE  StoreTypeOK'
<1> DEFINE gone == {p \in kept : p[1] \in rs}
<1>1. refcount' \in [Contents -> Nat]
  <2>1. Release(gone)
    BY DEF Remove
  <2> QED  BY <2>1, ReleaseType DEF StoreTypeOK
<1>2. kept' \in SUBSET AllPlaces /\ IsFiniteSet(kept')
  BY DropKept DEF StoreTypeOK, Remove
<1>3. runStage' \in [Places -> StageRows]
  BY DEF StoreTypeOK, Remove, NoStageRow, StageRows
<1>4. /\ status' \in [RunIds -> RunStatus \cup {"absent"}]
      /\ pipeline' \in [RunIds -> Pipelines \cup {NoPipeline}]
      /\ runSignal' \in [AllPlaces -> Contents \cup {NoContent}]
      /\ cache' \in [Keys -> Places \cup {NoPlace}]
  BY DEF StoreTypeOK, Remove, Unpublish
<1>5. runGroup' \in [RunIds \X Groups -> RunStatus \cup {"none"}]
  BY DEF StoreTypeOK, Remove
<1> QED  BY <1>1, <1>2, <1>3, <1>4, <1>5 DEF StoreTypeOK, Remove

LEMMA RunWriteType ==
  ASSUME StoreTypeOK, NEW r \in RunIds, RunWrite(r)
  PROVE  StoreTypeOK'
<1> USE DEF StoreTypeOK
<1>1. ASSUME NEW g \in Groups, RecordSource(r, g)
      PROVE  StoreTypeOK'
  <2> DEFINE p == <<r, g, SourceStage>>
  <2>1. p \in AllPlaces /\ Source[g] \in Contents \cup {NoContent}
    BY StoreAssumption DEF AllPlaces
  <2>2. Insert(p, Source[g]) /\ Retain(Source[g])
        /\ (kept' = kept \/ kept' = kept \cup {p})
        /\ UNCHANGED <<status, pipeline, runGroup, runStage, cache, baseline, library>>
    BY <1>1 DEF RecordSource
  <2> HIDE DEF p
  <2> QED  BY <2>1, <2>2, InsertType, RetainType, AddKept
<1>2. ASSUME NEW g \in Groups, RecordSourceRefused(r, g)
      PROVE  StoreTypeOK'
  BY <1>2, RetainType, StoreAssumption DEF RecordSourceRefused
<1>3. ASSUME NEW g \in Groups, NEW s \in RunStatus, RecordGroup(r, g, s)
      PROVE  StoreTypeOK'
  BY <1>3 DEF RecordGroup
<1>4. ASSUME NEW g \in Groups, NEW o \in Ordinals, NEW k \in Keys,
             RecordFailure(<<r, g, o>>, k)
      PROVE  StoreTypeOK'
  <2>1. <<r, g, o>> \in Places /\ [status |-> "failed", key |-> k, metrics |-> FALSE] \in StageRows
    BY DEF Places, StageRows
  <2> QED  BY <1>4, <2>1 DEF RecordFailure
<1>5. ASSUME NEW g \in Groups, NEW o \in Ordinals, NEW k \in Keys,
             NEW c \in Contents \cup {NoContent}, NEW keep \in BOOLEAN, NEW publish \in BOOLEAN,
             RecordOutput(<<r, g, o>>, c, k, keep, publish)
      PROVE  StoreTypeOK'
  <2> DEFINE p == <<r, g, o>>
  <2>1. p \in Places /\ p \in AllPlaces
        /\ [status |-> "ok", key |-> k, metrics |-> TRUE] \in StageRows
    BY DEF Places, AllPlaces, StageRows
  <2>2. /\ Insert(p, c) /\ Retain(IF keep THEN c ELSE NoContent)
        /\ kept' = kept \/ kept' = kept \cup {p}
        /\ runStage' = [runStage EXCEPT ![p] = [status |-> "ok", key |-> k, metrics |-> TRUE]]
        /\ cache' = cache \/ cache' = [cache EXCEPT ![k] = p]
        /\ UNCHANGED <<status, pipeline, runGroup, baseline, library>>
    BY <1>5 DEF RecordOutput
  <2> HIDE DEF p
  <2>3. runStage' \in [Places -> StageRows] /\ cache' \in [Keys -> Places \cup {NoPlace}]
    BY <2>1, <2>2
  <2>4. refcount' \in [Contents -> Nat]
    BY <2>2, RetainType
  <2> QED  BY <2>1, <2>2, <2>3, <2>4, InsertType, AddKept
<1>6. ASSUME NEW g \in Groups, NEW o \in Ordinals, NEW k \in Keys, NEW from \in Places,
             NEW metrics \in BOOLEAN, CopyOutput(from, <<r, g, o>>, k, metrics)
      PROVE  StoreTypeOK'
  <2> DEFINE p == <<r, g, o>>
             row == [status |-> "cached", key |-> k, metrics |-> metrics]
  <2>1. p \in Places /\ p \in AllPlaces /\ row \in StageRows /\ from \in AllPlaces
    BY PlacesAreAllPlaces DEF Places, AllPlaces, StageRows
  <2>2. /\ Insert(p, runSignal[from])
        /\ Retain(IF from \in kept THEN runSignal[from] ELSE NoContent)
        /\ kept' = kept \/ kept' = kept \cup {p}
        /\ runStage' = [runStage EXCEPT ![p] = row]
        /\ UNCHANGED <<status, pipeline, runGroup, cache, baseline, library>>
    BY <1>6 DEF CopyOutput
  <2> HIDE DEF p, row
  <2>3. runSignal[from] \in Contents \cup {NoContent}
    BY <2>1
  <2>4. refcount' \in [Contents -> Nat]
    BY <2>2, <2>3, RetainType
  <2> QED  BY <2>1, <2>2, <2>3, <2>4, InsertType, AddKept
<1>7. ASSUME NEW g \in Groups, ForgetSamples(r, g, Provisional(r))
      PROVE  StoreTypeOK'
  <2> DEFINE gone == {p \in kept : p[1] = r /\ p[2] = g /\ p[3] \in Provisional(r)}
  <2>1. kept' = kept \ gone /\ Release(gone) /\ gone \in SUBSET kept
        /\ UNCHANGED <<status, pipeline, runGroup, runStage, runSignal, cache, baseline, library>>
    BY <1>7 DEF ForgetSamples
  <2> HIDE DEF gone
  <2> QED  BY <2>1, ReleaseType, DropKept
<1>8. ASSUME NEW s \in RunStatus, FinishRun(r, s)
      PROVE  StoreTypeOK'
  BY <1>8 DEF FinishRun
<1> HIDE DEF StoreTypeOK
<1>9. ASSUME NEW g \in Groups, NEW o \in Ordinals, NEW k \in Keys,
             StageWrite(<<r, g, o>>, k)
      PROVE  StoreTypeOK'
  BY <1>4, <1>5, <1>6, <1>9 DEF StageWrite
<1> QED
  BY <1>1, <1>2, <1>3, <1>7, <1>8, <1>9 DEF RunWrite

LEMMA DoomedType == \A p \in Pipelines, keep \in Keeps : Doomed(p, keep) \in SUBSET RunIds
BY DEF Doomed

LEMMA StoreTypeStep ==
  ASSUME StoreTypeOK, [StoreNext]_storeVars
  PROVE  StoreTypeOK'
<1> USE DEF StoreTypeOK
<1>1. ASSUME NEW r \in RunIds, NEW p \in Pipelines, BeginRun(r, p)
      PROVE  StoreTypeOK'
  BY <1>1 DEF BeginRun, RunStatus
<1>2. ASSUME NEW r \in RunIds, DeleteRun(r)
      PROVE  StoreTypeOK'
  BY <1>2, RemoveType DEF DeleteRun
<1>3. ASSUME NEW k \in Keys, CacheForget(k)
      PROVE  StoreTypeOK'
  BY <1>3 DEF CacheForget
<1>4. ASSUME NEW p \in Pipelines, NEW keep \in Keeps, PruneRuns(p, keep)
      PROVE  StoreTypeOK'
  BY <1>4, RemoveType, DoomedType DEF PruneRuns
<1>5. CASE ClearCache
  BY <1>5 DEF ClearCache
<1>6. ASSUME NEW n \in Names, NEW r \in RunIds, Promote(n, r)
      PROVE  StoreTypeOK'
  BY <1>6 DEF Promote
<1>7. ASSUME NEW n \in Names, DeleteBaseline(n)
      PROVE  StoreTypeOK'
  BY <1>7 DEF DeleteBaseline
<1>8. ASSUME NEW g \in Groups, DeleteGroup(g)
      PROVE  StoreTypeOK'
  <2>1. refcount' \in [Contents -> Nat]
    <3>1. CASE Source[g] = NoContent \/ refcount[Source[g]] = 0
      BY <1>8, <3>1 DEF DeleteGroup
    <3>2. CASE ~(Source[g] = NoContent \/ refcount[Source[g]] = 0)
      <4>1. Source[g] \in Contents
        BY <3>2, StoreAssumption
      <4>2. refcount[Source[g]] - 1 \in Nat
        BY <3>2, <4>1
      <4> QED  BY <1>8, <3>2, <4>1, <4>2 DEF DeleteGroup
    <3> QED  BY <3>1, <3>2
  <2>2. runGroup' \in [RunIds \X Groups -> RunStatus \cup {"none"}]
    BY <1>8 DEF DeleteGroup
  <2> QED  BY <1>8, <2>1, <2>2 DEF DeleteGroup
<1>9. CASE UNCHANGED storeVars
  BY <1>9 DEF storeVars
<1> QED
  BY <1>1, <1>2, <1>3, <1>4, <1>5, <1>6, <1>7, <1>8, <1>9, RunWriteType DEF StoreNext

LEMMA StoreTypeInit == StoreInit => StoreTypeOK
<1> SUFFICES ASSUME StoreInit PROVE StoreTypeOK
  OBVIOUS
<1>1. \A c \in Contents : Cardinality({g \in Groups : Source[g] = c}) \in Nat
  <2> TAKE c \in Contents
  <2>1. {g \in Groups : Source[g] = c} \in SUBSET Groups
    OBVIOUS
  <2> QED  BY <2>1, FS_Subset, FS_CardinalityType, StoreAssumption
<1>2. refcount \in [Contents -> Nat]
  BY <1>1 DEF StoreInit
<1>3. runStage \in [Places -> StageRows]
  BY DEF StoreInit, NoStageRow, StageRows
<1> QED  BY <1>2, <1>3, FS_EmptySet DEF StoreInit, StoreTypeOK

\* Every job leaves the tables with values of their columns' types.
THEOREM StoreTypeCorrect == StoreSpec => []StoreTypeOK
BY StoreTypeInit, StoreTypeStep, PTL DEF StoreSpec

-----------------------------------------------------------------------------
(* No row outlives its run *)

LEMMA RemoveRows ==
  ASSUME StoreTypeOK, RowsHaveRuns, NEW rs \in SUBSET RunIds, Remove(rs)
  PROVE  RowsHaveRuns'
<1>1. \A r \in RunIds : /\ r \in rs => ~Exists(r)'
                        /\ r \notin rs => (Exists(r)' <=> Exists(r)) /\ pipeline'[r] = pipeline[r]
  BY DEF Remove, Exists, StoreTypeOK
<1>2. \A p \in AllPlaces : /\ p[1] \in RunIds
                           /\ p[1] \in rs => runSignal'[p] = NoContent
                           /\ p[1] \notin rs => runSignal'[p] = runSignal[p]
  BY DEF Remove, AllPlaces
<1>3. \A p \in Places : /\ p[1] \in RunIds
                        /\ p[1] \in rs => runStage'[p] = NoStageRow
                        /\ p[1] \notin rs => runStage'[p] = runStage[p]
  BY DEF Remove, Places
<1>4. \A p \in kept' : p \in kept /\ p[1] \notin rs /\ p \in AllPlaces
  BY DEF Remove, StoreTypeOK
<1> QED  BY <1>1, <1>2, <1>3, <1>4, PlacesAreAllPlaces DEF RowsHaveRuns

LEMMA InsertRows ==
  ASSUME StoreTypeOK, RowsHaveRuns, NEW p \in AllPlaces, NEW c \in Contents \cup {NoContent},
         c # NoContent => Exists(p[1]), Insert(p, c),
         kept' \subseteq kept \cup (IF c = NoContent THEN {} ELSE {p})
  PROVE  /\ \A q \in AllPlaces : runSignal'[q] # NoContent => Exists(q[1])
         /\ \A q \in kept' : runSignal'[q] # NoContent
BY StoreAssumption DEF Insert, RowsHaveRuns, StoreTypeOK

LEMMA RunWriteRows ==
  ASSUME StoreTypeOK, RowsHaveRuns, NEW r \in RunIds, RunWrite(r)
  PROVE  RowsHaveRuns'
<1> USE DEF CanInsert
<1>1. ASSUME NEW g \in Groups, RecordSource(r, g)
      PROVE  RowsHaveRuns'
  <2> DEFINE p == <<r, g, SourceStage>>
  <2>1. p \in AllPlaces /\ p[1] = r /\ Source[g] \in Contents \cup {NoContent}
    BY StoreAssumption DEF AllPlaces
  <2>2. /\ Source[g] # NoContent => Exists(p[1])
        /\ Insert(p, Source[g])
        /\ kept' \subseteq kept \cup (IF Source[g] = NoContent THEN {} ELSE {p})
        /\ UNCHANGED <<status, pipeline, runStage>>
    BY <1>1 DEF RecordSource
  <2> HIDE DEF p
  <2>3. /\ \A q \in AllPlaces : runSignal'[q] # NoContent => Exists(q[1])
        /\ \A q \in kept' : runSignal'[q] # NoContent
    BY <2>1, <2>2, InsertRows
  <2>4. \A q \in Places : runSignal'[q] = runSignal[q]
    BY <2>2, SourceIsNoOrdinal, PlacesAreAllPlaces DEF Insert, StoreTypeOK, Places, p
  <2> QED  BY <2>2, <2>3, <2>4 DEF RowsHaveRuns, Exists
<1>2. ASSUME NEW g \in Groups, RecordSourceRefused(r, g)
      PROVE  RowsHaveRuns'
  BY <1>2 DEF RecordSourceRefused, RowsHaveRuns, Exists
<1>3. ASSUME NEW g \in Groups, NEW s \in RunStatus, RecordGroup(r, g, s)
      PROVE  RowsHaveRuns'
  BY <1>3 DEF RecordGroup, RowsHaveRuns, Exists
<1>4. ASSUME NEW g \in Groups, NEW o \in Ordinals, NEW k \in Keys, StageWrite(<<r, g, o>>, k)
      PROVE  RowsHaveRuns'
  <2> DEFINE p == <<r, g, o>>
  <2>1. p \in AllPlaces /\ p \in Places /\ p[1] = r
    BY DEF AllPlaces, Places
  <2>2. CASE RecordFailure(p, k)
    <3>1. /\ Exists(p[1]) /\ UNCHANGED <<status, pipeline, runSignal, kept>>
          /\ \A q \in Places : q # p => runStage'[q] = runStage[q]
          /\ runStage'[p] # NoStageRow
      BY <2>1, <2>2 DEF RecordFailure, StoreTypeOK, NoStageRow
    <3> HIDE DEF p
    <3> QED  BY <3>1 DEF RowsHaveRuns, Exists
  <2>3. ASSUME NEW c \in Contents \cup {NoContent}, NEW keep \in BOOLEAN,
               NEW publish \in BOOLEAN, RecordOutput(p, c, k, keep, publish)
        PROVE  RowsHaveRuns'
    <3>1. /\ Exists(p[1]) /\ UNCHANGED <<status, pipeline>> /\ Insert(p, c)
          /\ kept' \subseteq kept \cup (IF c = NoContent THEN {} ELSE {p})
          /\ \A q \in Places : q # p => runStage'[q] = runStage[q]
          /\ runStage'[p] # NoStageRow
      BY <2>1, <2>3 DEF RecordOutput, CanRecordOutput, StoreTypeOK, NoStageRow
    <3> HIDE DEF p
    <3>2. /\ \A q \in AllPlaces : runSignal'[q] # NoContent => Exists(q[1])
          /\ \A q \in kept' : runSignal'[q] # NoContent
      BY <2>1, <3>1, InsertRows
    <3>3. \A q \in Places : q # p => runSignal'[q] = runSignal[q]
      BY <3>1, PlacesAreAllPlaces DEF Insert, StoreTypeOK
    <3> QED  BY <3>1, <3>2, <3>3 DEF RowsHaveRuns, Exists
  <2>4. ASSUME NEW from \in Places, NEW metrics \in BOOLEAN, CopyOutput(from, p, k, metrics)
        PROVE  RowsHaveRuns'
    <3> DEFINE c == runSignal[from]
    <3>1. /\ Exists(p[1]) /\ UNCHANGED <<status, pipeline>> /\ Insert(p, c)
          /\ c # NoContent /\ c \in Contents \cup {NoContent}
          /\ kept' \subseteq kept \cup {p}
          /\ \A q \in Places : q # p => runStage'[q] = runStage[q]
          /\ runStage'[p] # NoStageRow
      BY <2>1, <2>4, PlacesAreAllPlaces DEF CopyOutput, Copyable, StoreTypeOK, NoStageRow
    <3> HIDE DEF p, c
    <3>2. /\ \A q \in AllPlaces : runSignal'[q] # NoContent => Exists(q[1])
          /\ \A q \in kept' : runSignal'[q] # NoContent
      BY <2>1, <3>1, InsertRows
    <3>3. \A q \in Places : q # p => runSignal'[q] = runSignal[q]
      BY <3>1, PlacesAreAllPlaces DEF Insert, StoreTypeOK
    <3> QED  BY <3>1, <3>2, <3>3 DEF RowsHaveRuns, Exists
  <2> HIDE DEF p
  <2> QED  BY <1>4, <2>2, <2>3, <2>4 DEF StageWrite, p
<1>5. ASSUME NEW g \in Groups, ForgetSamples(r, g, Provisional(r))
      PROVE  RowsHaveRuns'
  BY <1>5 DEF ForgetSamples, RowsHaveRuns, Exists
<1>6. ASSUME NEW s \in RunStatus \ {"running"}, FinishRun(r, s)
      PROVE  RowsHaveRuns'
  BY <1>6 DEF FinishRun, RowsHaveRuns, Exists, StoreTypeOK, RunStatus
<1> QED
  BY <1>1, <1>2, <1>3, <1>4, <1>5, <1>6 DEF RunWrite

LEMMA RowsStep ==
  ASSUME StoreTypeOK, RowsHaveRuns, [StoreNext]_storeVars
  PROVE  RowsHaveRuns'
<1>1. ASSUME NEW r \in RunIds, NEW p \in Pipelines, BeginRun(r, p)
      PROVE  RowsHaveRuns'
  BY <1>1 DEF BeginRun, RowsHaveRuns, Exists, StoreTypeOK
<1>2. ASSUME NEW r \in RunIds, DeleteRun(r)
      PROVE  RowsHaveRuns'
  BY <1>2, RemoveRows DEF DeleteRun
<1>3. ASSUME NEW p \in Pipelines, NEW keep \in Keeps, PruneRuns(p, keep)
      PROVE  RowsHaveRuns'
  BY <1>3, RemoveRows, DoomedType DEF PruneRuns
<1>4. CASE UNCHANGED <<status, pipeline, runStage, runSignal, kept>>
  BY <1>4 DEF RowsHaveRuns, Exists
<1> QED
  BY <1>1, <1>2, <1>3, <1>4, RunWriteRows
  DEF StoreNext, CacheForget, ClearCache, Promote, DeleteBaseline, DeleteGroup, storeVars

\* A run that is deleted leaves nothing behind under its id.
THEOREM NoRowOutlivesItsRun == StoreSpec => []RowsHaveRuns
<1>1. StoreInit => RowsHaveRuns
  BY PlacesAreAllPlaces DEF StoreInit, RowsHaveRuns, Exists
<1> QED
  BY <1>1, RowsStep, StoreTypeCorrect, PTL DEF StoreSpec

-----------------------------------------------------------------------------
(* The run a baseline names stays *)

LEMMA RemoveBaselines ==
  ASSUME StoreTypeOK, BaselinesStand, NEW rs \in SUBSET RunIds, Remove(rs),
         \A r \in rs : ~IsBaseline(r)
  PROVE  BaselinesStand'
BY DEF Remove, BaselinesStand, IsBaseline, Exists, StoreTypeOK

LEMMA BaselinesStep ==
  ASSUME StoreTypeOK, BaselinesStand, [StoreNext]_storeVars
  PROVE  BaselinesStand'
<1>1. ASSUME NEW r \in RunIds, NEW p \in Pipelines, BeginRun(r, p)
      PROVE  BaselinesStand'
  BY <1>1 DEF BeginRun, BaselinesStand, Exists, StoreTypeOK
<1>2. ASSUME NEW r \in RunIds, DeleteRun(r)
      PROVE  BaselinesStand'
  BY <1>2, RemoveBaselines DEF DeleteRun
<1>3. ASSUME NEW p \in Pipelines, NEW keep \in Keeps, PruneRuns(p, keep)
      PROVE  BaselinesStand'
  <2>1. \A r \in Doomed(p, keep) : ~IsBaseline(r)
    BY DEF Doomed
  <2> QED  BY <1>3, <2>1, RemoveBaselines, DoomedType DEF PruneRuns
<1>4. ASSUME NEW n \in Names, NEW r \in RunIds, Promote(n, r)
      PROVE  BaselinesStand'
  BY <1>4 DEF Promote, BaselinesStand, Exists, StoreTypeOK
<1>5. ASSUME NEW n \in Names, DeleteBaseline(n)
      PROVE  BaselinesStand'
  BY <1>5 DEF DeleteBaseline, BaselinesStand, Exists, StoreTypeOK
<1>6. ASSUME NEW r \in RunIds, NEW s \in RunStatus \ {"running"}, FinishRun(r, s)
      PROVE  BaselinesStand'
  BY <1>6 DEF FinishRun, BaselinesStand, Exists, StoreTypeOK, RunStatus
<1>7. CASE UNCHANGED <<status, baseline>>
  BY <1>7 DEF BaselinesStand, Exists
<1>8. ASSUME NEW r \in RunIds, RunWrite(r)
      PROVE  BaselinesStand'
  <2>1. ASSUME NEW p, NEW k, StageWrite(p, k)
        PROVE  UNCHANGED <<status, baseline>>
    BY <2>1 DEF StageWrite, RecordFailure, RecordOutput, CopyOutput
  <2> QED
    BY <1>6, <1>7, <1>8, <2>1
    DEF RunWrite, RecordSource, RecordSourceRefused, RecordGroup, ForgetSamples
<1> QED
  BY <1>1, <1>2, <1>3, <1>4, <1>5, <1>7, <1>8
  DEF StoreNext, CacheForget, ClearCache, DeleteGroup, storeVars

\* No deletion, whatever precedes it, takes the run of a baseline.
THEOREM BaselineRunsStay == StoreSpec => []BaselinesStand
<1>1. StoreInit => BaselinesStand
  BY DEF StoreInit, BaselinesStand
<1> QED
  BY <1>1, BaselinesStep, StoreTypeCorrect, PTL DEF StoreSpec

-----------------------------------------------------------------------------
(* A published key resolves *)

\* What a key resolves to is untouched by a step that keeps the rows it needs.
LEMMA StillResolves ==
  ASSUME NEW k \in Keys, cache[k] # NoPlace, KeyResolves(k), cache'[k] = cache[k],
         LET p == cache[k] IN
         /\ Exists(p[1])' /\ pipeline'[p[1]] = pipeline[p[1]]
         /\ runStage'[p] = runStage[p] /\ runSignal'[p] = runSignal[p]
         /\ p \in kept => p \in kept'
  PROVE  KeyResolves(k)'
BY DEF KeyResolves, RetentionAt

LEMMA RemoveKeys ==
  ASSUME StoreTypeOK, KeysResolve, NEW rs \in SUBSET RunIds, Remove(rs)
  PROVE  KeysResolve'
<1> SUFFICES ASSUME NEW k \in Keys, cache'[k] # NoPlace
             PROVE  KeyResolves(k)'
  BY DEF KeysResolve
<1>1. cache[k] # NoPlace /\ cache'[k] = cache[k] /\ cache[k][1] \notin rs
  BY DEF Remove, Unpublish, StoreTypeOK
<1>2. KeyResolves(k)
  BY <1>1 DEF KeysResolve
<1>3. cache[k] \in Places /\ cache[k] \in AllPlaces /\ cache[k][1] \in RunIds
  BY <1>1, PlacesAreAllPlaces DEF StoreTypeOK, Places
<1>4. Exists(cache[k][1])
  BY <1>2 DEF KeyResolves
<1> QED  BY <1>1, <1>2, <1>3, <1>4, StillResolves DEF Remove, Exists

LEMMA StageWriteKeys ==
  ASSUME StoreTypeOK, RowsHaveRuns, KeysResolve,
         NEW r \in RunIds, NEW g \in Groups, NEW o \in Ordinals, NEW k \in Keys,
         StageWrite(<<r, g, o>>, k)
  PROVE  KeysResolve'
<1> DEFINE p == <<r, g, o>>
<1>1. p \in Places /\ p \in AllPlaces /\ p[1] = r /\ p[3] = o
  BY DEF Places, AllPlaces
<1>2. StageWrite(p, k)
  OBVIOUS
<1> HIDE DEF p
<1>3. /\ UNCHANGED <<status, pipeline>> /\ kept \subseteq kept'
      /\ \A q \in Places : q # p => runStage'[q] = runStage[q] /\ runSignal'[q] = runSignal[q]
  BY <1>1, <1>2, PlacesAreAllPlaces
  DEF StageWrite, RecordFailure, RecordOutput, CopyOutput, Insert, StoreTypeOK
<1>4. ASSUME NEW j \in Keys, cache[j] # NoPlace, cache'[j] = cache[j]
      PROVE  KeyResolves(j)'
  <2>1. KeyResolves(j) /\ cache[j] \in Places
    BY <1>4 DEF KeysResolve, StoreTypeOK
  <2>2. cache[j] # p
    BY <1>2, <2>1 DEF StageWrite, Unrecorded, KeyResolves, NoStageRow
  <2> QED  BY <1>3, <1>4, <2>1, <2>2, StillResolves DEF KeyResolves, Exists
<1>5. CASE UNCHANGED cache
  BY <1>4, <1>5 DEF KeysResolve
<1>6. ASSUME NEW c \in Contents \cup {NoContent}, NEW keep \in BOOLEAN,
             MayPublish(p, keep), RecordOutput(p, c, k, keep, TRUE)
      PROVE  KeysResolve'
  <2>1. \A j \in Keys : cache'[j] = IF j = k THEN p ELSE cache[j]
    BY <1>6 DEF RecordOutput, StoreTypeOK
  <2>2. KeyResolves(k)'
    <3>1. Exists(p[1])' /\ RetentionAt(p[1], p[3])' = "always" /\ keep
      BY <1>3, <1>6 DEF RecordOutput, CanRecordOutput, MayPublish, RetentionAt, Exists
    <3>2. runStage'[p] = [status |-> "ok", key |-> k, metrics |-> TRUE]
      BY <1>1, <1>6 DEF RecordOutput, StoreTypeOK
    <3>3. runSignal'[p] # NoContent => p \in kept'
      <4>1. runSignal[p] = NoContent
        BY <1>1, <1>2 DEF StageWrite, Unrecorded, RowsHaveRuns
      <4> QED  BY <1>6, <3>1, <4>1 DEF RecordOutput, Insert
    <3> QED  BY <2>1, <3>1, <3>2, <3>3 DEF KeyResolves
  <2> QED  BY <1>4, <2>1, <2>2 DEF KeysResolve
<1> QED
  BY <1>2, <1>5, <1>6 DEF StageWrite, RecordFailure, CopyOutput, RecordOutput

LEMMA RunWriteKeys ==
  ASSUME StoreTypeOK, RowsHaveRuns, KeysResolve, NEW r \in RunIds, RunWrite(r)
  PROVE  KeysResolve'
<1>1. ASSUME NEW g \in Groups, RecordSource(r, g)
      PROVE  KeysResolve'
  <2> SUFFICES ASSUME NEW k \in Keys, cache'[k] # NoPlace
               PROVE  KeyResolves(k)'
    BY DEF KeysResolve
  <2> DEFINE p == cache[k]
  <2>1. cache' = cache /\ KeyResolves(k) /\ p \in Places /\ p # <<r, g, SourceStage>>
    BY <1>1, SourceIsNoOrdinal DEF RecordSource, KeysResolve, StoreTypeOK, Places
  <2>2. /\ UNCHANGED <<status, pipeline, runStage>> /\ kept \subseteq kept'
        /\ runSignal'[p] = runSignal[p]
    BY <1>1, <2>1, PlacesAreAllPlaces DEF RecordSource, Insert, StoreTypeOK
  <2> QED  BY <2>1, <2>2, StillResolves DEF KeyResolves, Exists
<1>2. ASSUME NEW g \in Groups, ForgetSamples(r, g, Provisional(r))
      PROVE  KeysResolve'
  <2> SUFFICES ASSUME NEW k \in Keys, cache'[k] # NoPlace
               PROVE  KeyResolves(k)'
    BY DEF KeysResolve
  <2> DEFINE p == cache[k]
  <2>1. cache' = cache /\ KeyResolves(k) /\ p \in Places
    BY <1>2 DEF ForgetSamples, KeysResolve, StoreTypeOK
  <2>2. p[1] = r => p[3] \notin Provisional(r)
    BY <2>1 DEF KeyResolves, Provisional
  <2>3. p \in kept => p \in kept'
    BY <1>2, <2>2 DEF ForgetSamples
  <2>4. UNCHANGED <<status, pipeline, runStage, runSignal>>
    BY <1>2 DEF ForgetSamples
  <2> QED  BY <2>1, <2>3, <2>4, StillResolves DEF KeyResolves, Exists
<1>3. ASSUME NEW s \in RunStatus \ {"running"}, FinishRun(r, s)
      PROVE  KeysResolve'
  BY <1>3 DEF FinishRun, KeysResolve, KeyResolves, RetentionAt, Exists, StoreTypeOK, RunStatus
<1>4. CASE UNCHANGED <<status, pipeline, runStage, runSignal, kept, cache>>
  BY <1>4 DEF KeysResolve, KeyResolves, RetentionAt, Exists
<1> QED
  BY <1>1, <1>2, <1>3, <1>4, StageWriteKeys DEF RunWrite, RecordSourceRefused, RecordGroup

LEMMA KeysStep ==
  ASSUME StoreTypeOK, RowsHaveRuns, KeysResolve, [StoreNext]_storeVars
  PROVE  KeysResolve'
<1>1. ASSUME NEW r \in RunIds, NEW p \in Pipelines, BeginRun(r, p)
      PROVE  KeysResolve'
  <2>1. ~Exists(r) /\ r # NoRun
    BY <1>1 DEF BeginRun, IsNextRunId, RunIds, NoRun
  <2>2. /\ \A q \in RunIds : q # r => status'[q] = status[q] /\ pipeline'[q] = pipeline[q]
        /\ UNCHANGED <<runStage, runSignal, kept, cache>>
    BY <1>1 DEF BeginRun, StoreTypeOK
  <2> SUFFICES ASSUME NEW k \in Keys, cache'[k] # NoPlace
               PROVE  KeyResolves(k)'
    BY DEF KeysResolve
  <2>3. KeyResolves(k) /\ cache[k] \in Places
    BY <2>2 DEF KeysResolve, StoreTypeOK
  <2>4. cache[k][1] \in RunIds /\ cache[k][1] # r
    BY <2>1, <2>3 DEF Places, KeyResolves
  <2> QED  BY <2>2, <2>3, <2>4, StillResolves DEF KeyResolves, Exists
<1>2. ASSUME NEW r \in RunIds, DeleteRun(r)
      PROVE  KeysResolve'
  BY <1>2, RemoveKeys DEF DeleteRun
<1>3. ASSUME NEW p \in Pipelines, NEW keep \in Keeps, PruneRuns(p, keep)
      PROVE  KeysResolve'
  BY <1>3, RemoveKeys, DoomedType DEF PruneRuns
<1>4. ASSUME NEW k \in Keys, CacheForget(k) \/ ClearCache
      PROVE  KeysResolve'
  BY <1>4 DEF CacheForget, ClearCache, KeysResolve, KeyResolves, RetentionAt, Exists, StoreTypeOK
<1>5. CASE UNCHANGED <<status, pipeline, runStage, runSignal, kept, cache>>
  BY <1>5 DEF KeysResolve, KeyResolves, RetentionAt, Exists
<1>6. CASE ClearCache
  BY <1>6 DEF ClearCache, KeysResolve
<1> QED
  BY <1>1, <1>2, <1>3, <1>4, <1>5, <1>6, RunWriteKeys
  DEF StoreNext, Promote, DeleteBaseline, DeleteGroup, storeVars

\* A key found in the cache names a row that was written under it and still has
\* its samples, as long as callers keep to the scheduler's discipline.
THEOREM PublishedKeysResolve == StoreSpec => []KeysResolve
<1>1. StoreInit => KeysResolve
  BY DEF StoreInit, KeysResolve
<1> QED
  BY <1>1, KeysStep, StoreTypeCorrect, NoRowOutlivesItsRun, PTL DEF StoreSpec

-----------------------------------------------------------------------------
(* A blob's count covers the rows that name it *)

\* References of a blob's count that no row accounts for.
Slack(c) == refcount[c] - References(c)
SameSlack == \A c \in Contents : Slack(c)' = Slack(c)

LEMMA CountsAreNumbers ==
  ASSUME StoreTypeOK, NEW c
  PROVE  /\ IsFiniteSet(KeptRows(c)) /\ Cardinality(KeptRows(c)) \in Nat
         /\ IsFiniteSet(Lenders(c)) /\ Cardinality(Lenders(c)) \in Nat
<1>1. KeptRows(c) \in SUBSET kept /\ Lenders(c) \in SUBSET Groups
  BY DEF KeptRows, Lenders, StoreTypeOK
<1>2. IsFiniteSet(kept) /\ IsFiniteSet(Groups)
  BY StoreAssumption DEF StoreTypeOK
<1> QED  BY <1>1, <1>2, FS_Subset, FS_CardinalityType

LEMMA IdleSlack ==
  ASSUME UNCHANGED <<runSignal, kept, library, refcount>>
  PROVE  SameSlack
BY DEF SameSlack, Slack, References, KeptRows, Lenders

\* A row recorded with its samples takes the one reference it adds.
LEMMA InsertSlack ==
  ASSUME StoreTypeOK, RowsHaveRuns,
         NEW p \in AllPlaces, NEW c \in Contents \cup {NoContent}, NEW keep \in BOOLEAN,
         c # NoContent => runSignal[p] = NoContent,
         Insert(p, c), Retain(IF keep THEN c ELSE NoContent),
         kept' = (IF keep /\ c # NoContent THEN kept \cup {p} ELSE kept),
         library' = library
  PROVE  SameSlack
<1> SUFFICES ASSUME NEW d \in Contents PROVE Slack(d)' = Slack(d)
  BY DEF SameSlack
<1>1. refcount[d] \in Nat
  BY DEF StoreTypeOK
<1>2. Lenders(d)' = Lenders(d)
  BY DEF Lenders
<1>3. \A q \in kept : runSignal'[q] = runSignal[q] /\ (c # NoContent => q # p)
  BY DEF Insert, RowsHaveRuns, StoreTypeOK
<1>4. CASE keep /\ c = d
  <2>1. c # NoContent /\ runSignal'[p] = d
    BY <1>4, StoreAssumption DEF Insert, StoreTypeOK
  <2>2. KeptRows(d)' = KeptRows(d) \cup {p} /\ p \notin KeptRows(d)
    BY <1>3, <1>4, <2>1 DEF KeptRows
  <2>3. Cardinality(KeptRows(d)') = Cardinality(KeptRows(d)) + 1
    BY <2>2, FS_AddElement, CountsAreNumbers
  <2>4. refcount'[d] = refcount[d] + 1
    BY <1>4, <2>1 DEF Retain, StoreTypeOK
  <2>5. Cardinality(KeptRows(d)) \in Nat /\ Cardinality(Lenders(d)) \in Nat
    BY CountsAreNumbers
  <2>6. References(d)' = References(d) + 1 /\ References(d) \in Nat
    BY <1>2, <2>3, <2>5 DEF References
  <2> QED  BY <1>1, <2>4, <2>6 DEF Slack
<1>5. CASE ~(keep /\ c = d)
  <2>1. keep /\ c # NoContent => runSignal'[p] = c
    BY DEF Insert, StoreTypeOK
  <2>2. KeptRows(d)' = KeptRows(d)
    BY <1>3, <1>5, <2>1 DEF KeptRows
  <2>3. refcount'[d] = refcount[d]
    BY <1>5, StoreAssumption DEF Retain, StoreTypeOK
  <2> QED  BY <1>1, <1>2, <2>2, <2>3 DEF References, Slack
<1> QED  BY <1>4, <1>5

\* Rows that lose their samples give up one reference each, and no more.
LEMMA ReleaseSlack ==
  ASSUME StoreTypeOK, RefcountsCover, NEW gone \in SUBSET kept,
         Release(gone), kept' = kept \ gone, library' = library,
         \A q \in kept' : runSignal'[q] = runSignal[q]
  PROVE  SameSlack
<1> SUFFICES ASSUME NEW d \in Contents PROVE Slack(d)' = Slack(d)
  BY DEF SameSlack
<1> DEFINE S == {p \in gone : runSignal[p] = d}
           n == Cardinality(S)
<1>1. refcount[d] \in Nat /\ refcount[d] >= Cardinality(KeptRows(d)) + Cardinality(Lenders(d))
  BY DEF RefcountsCover, References, StoreTypeOK
<1>2. Lenders(d)' = Lenders(d)
  BY DEF Lenders
<1>3. IsFiniteSet(S) /\ n \in Nat
  BY GoneCount DEF StoreTypeOK
<1>4. KeptRows(d) = KeptRows(d)' \cup S /\ KeptRows(d)' \cap S = {}
  BY DEF KeptRows
<1>5. IsFiniteSet(KeptRows(d)') /\ Cardinality(KeptRows(d)') \in Nat
  <2>1. KeptRows(d)' \in SUBSET KeptRows(d)
    BY <1>4
  <2> QED  BY <2>1, FS_Subset, FS_CardinalityType, CountsAreNumbers
<1>6. Cardinality(KeptRows(d)) = Cardinality(KeptRows(d)') + n
  <2> HIDE DEF S
  <2>1. Cardinality(KeptRows(d)' \cup S)
          = Cardinality(KeptRows(d)') + n - Cardinality(KeptRows(d)' \cap S)
    BY <1>3, <1>5, FS_Union
  <2> QED  BY <1>3, <1>4, <1>5, <2>1, FS_EmptySet
<1>7. refcount'[d] = IF n >= refcount[d] THEN 0 ELSE refcount[d] - n
  BY DEF Release
<1> HIDE DEF n
<1>8. Cardinality(KeptRows(d)) \in Nat /\ Cardinality(Lenders(d)) \in Nat
  BY CountsAreNumbers
<1>9. /\ References(d) = References(d)' + n /\ References(d)' \in Nat /\ n \in Nat
      /\ refcount[d] >= References(d)
  BY <1>1, <1>2, <1>3, <1>5, <1>6, <1>8 DEF References
<1> QED  BY <1>1, <1>7, <1>9 DEF Slack

LEMMA RemoveSlack ==
  ASSUME StoreTypeOK, RefcountsCover, NEW rs \in SUBSET RunIds, Remove(rs)
  PROVE  SameSlack
<1> DEFINE gone == {p \in kept : p[1] \in rs}
<1>1. \A q \in kept' : runSignal'[q] = runSignal[q]
  BY DEF Remove, StoreTypeOK
<1>2. gone \in SUBSET kept /\ Release(gone) /\ kept' = kept \ gone /\ library' = library
  BY DEF Remove
<1> QED  BY <1>1, <1>2, ReleaseSlack

LEMMA SweepSlack ==
  ASSUME StoreTypeOK, RefcountsCover, NEW r, NEW g, NEW stages, ForgetSamples(r, g, stages)
  PROVE  SameSlack
<1> DEFINE gone == {p \in kept : p[1] = r /\ p[2] = g /\ p[3] \in stages}
<1>1. /\ gone \in SUBSET kept /\ Release(gone) /\ kept' = kept \ gone
      /\ library' = library /\ runSignal' = runSignal
  BY DEF ForgetSamples
<1> QED  BY <1>1, ReleaseSlack

LEMMA SourceSlack ==
  ASSUME StoreTypeOK, RowsHaveRuns, NEW r \in RunIds, NEW g \in Groups, RecordSource(r, g)
  PROVE  SameSlack
<1> DEFINE p == <<r, g, SourceStage>>
<1>1. p \in AllPlaces /\ Source[g] \in Contents \cup {NoContent}
  BY StoreAssumption DEF AllPlaces
<1>2. /\ Source[g] # NoContent => runSignal[p] = NoContent
      /\ Insert(p, Source[g]) /\ Retain(Source[g]) /\ library' = library
      /\ kept' = IF TRUE /\ Source[g] # NoContent THEN kept \cup {p} ELSE kept
  BY DEF RecordSource, CanInsert
<1>3. Retain(IF TRUE THEN Source[g] ELSE NoContent)
  BY <1>2
<1> HIDE DEF p
<1> QED  BY <1>1, <1>2, <1>3, InsertSlack

LEMMA OutputSlack ==
  ASSUME StoreTypeOK, RowsHaveRuns, NEW p \in AllPlaces, NEW k,
         NEW c \in Contents \cup {NoContent}, NEW keep \in BOOLEAN, NEW publish,
         RecordOutput(p, c, k, keep, publish)
  PROVE  SameSlack
BY InsertSlack DEF RecordOutput, CanRecordOutput, CanInsert

LEMMA CopySlack ==
  ASSUME StoreTypeOK, RowsHaveRuns, NEW p \in AllPlaces, NEW k, NEW from \in Places,
         NEW metrics, CopyOutput(from, p, k, metrics)
  PROVE  SameSlack
<1> DEFINE c == runSignal[from]
           keep == from \in kept
<1>1. /\ c \in Contents \cup {NoContent} /\ keep \in BOOLEAN
      /\ runSignal[p] = NoContent /\ Insert(p, c) /\ library' = library
      /\ Retain(IF keep THEN c ELSE NoContent)
      /\ kept' = (IF keep /\ c # NoContent THEN kept \cup {p} ELSE kept)
  BY PlacesAreAllPlaces DEF CopyOutput, Copyable, CanInsert, StoreTypeOK
<1> HIDE DEF c, keep
<1> QED  BY <1>1, InsertSlack

LEMMA DeleteGroupSlack ==
  ASSUME StoreTypeOK, RefcountsCover, NEW g \in Groups, DeleteGroup(g)
  PROVE  SameSlack
<1> SUFFICES ASSUME NEW d \in Contents PROVE Slack(d)' = Slack(d)
  BY DEF SameSlack
<1>1. refcount[d] \in Nat /\ refcount[d] >= Cardinality(KeptRows(d)) + Cardinality(Lenders(d))
  BY DEF RefcountsCover, References, StoreTypeOK
<1>2. KeptRows(d)' = KeptRows(d) /\ g \in library /\ library' = library \ {g}
  BY DEF KeptRows, DeleteGroup
<1>3. CASE Source[g] = d
  <2>1. Lenders(d)' = Lenders(d) \ {g} /\ g \in Lenders(d)
    BY <1>2, <1>3 DEF Lenders
  <2>2. Cardinality(Lenders(d)') = Cardinality(Lenders(d)) - 1
    BY <2>1, FS_RemoveElement, CountsAreNumbers
  <2>3. d # NoContent /\ (refcount'[d] = IF refcount[d] = 0 THEN 0 ELSE refcount[d] - 1)
    BY <1>3, StoreAssumption DEF DeleteGroup, StoreTypeOK
  <2>4. Cardinality(Lenders(d)) # 0
    BY <2>1, FS_EmptySet, CountsAreNumbers
  <2> QED  BY <1>1, <1>2, <2>2, <2>3, <2>4, CountsAreNumbers DEF References, Slack
<1>4. CASE Source[g] # d
  <2>1. Lenders(d)' = Lenders(d)
    BY <1>2, <1>4 DEF Lenders
  <2>2. refcount'[d] = refcount[d]
    BY <1>4 DEF DeleteGroup, StoreTypeOK
  <2> QED  BY <1>1, <1>2, <2>1, <2>2 DEF References, Slack
<1> QED  BY <1>3, <1>4

\* The one job that leaves a reference behind: a source refused.
LEMMA RefusedCovers ==
  ASSUME StoreTypeOK, RefcountsCover, NEW r \in RunIds, NEW g \in Groups,
         RecordSourceRefused(r, g)
  PROVE  RefcountsCover'
<1>1. UNCHANGED <<runSignal, kept, library>>
  BY DEF RecordSourceRefused
<1>2. \A d \in Contents : /\ References(d)' = References(d)
                          /\ refcount[d] \in Nat /\ refcount'[d] >= refcount[d]
  BY <1>1, StoreAssumption
  DEF References, KeptRows, Lenders, RecordSourceRefused, Retain, StoreTypeOK
<1>3. \A d \in Contents : /\ References(d) \in Nat /\ refcount'[d] \in Nat
                          /\ refcount[d] >= References(d)
  <2>1. StoreTypeOK'
    BY RunWriteType DEF RunWrite
  <2> QED  BY <2>1, CountsAreNumbers DEF References, RefcountsCover, StoreTypeOK
<1> QED  BY <1>2, <1>3 DEF RefcountsCover

LEMMA RunWriteSlack ==
  ASSUME StoreTypeOK, RowsHaveRuns, RefcountsCover, NEW r \in RunIds, RunWrite(r)
  PROVE  SameSlack \/ \E g \in Groups : RecordSourceRefused(r, g)
<1>1. ASSUME NEW g \in Groups, RecordSource(r, g)
      PROVE  SameSlack
  BY <1>1, SourceSlack
<1>2. ASSUME NEW g \in Groups, NEW o \in Ordinals, NEW k \in Keys, StageWrite(<<r, g, o>>, k)
      PROVE  SameSlack
  <2> DEFINE p == <<r, g, o>>
  <2>1. p \in AllPlaces /\ StageWrite(p, k)
    BY <1>2 DEF AllPlaces
  <2> HIDE DEF p
  <2>2. CASE RecordFailure(p, k)
    BY <2>2, IdleSlack DEF RecordFailure
  <2> QED  BY <2>1, <2>2, OutputSlack, CopySlack DEF StageWrite
<1>3. ASSUME NEW g \in Groups, ForgetSamples(r, g, Provisional(r))
      PROVE  SameSlack
  BY <1>3, SweepSlack
<1>4. CASE UNCHANGED <<runSignal, kept, library, refcount>>
  BY <1>4, IdleSlack
<1> QED
  BY <1>1, <1>2, <1>3, <1>4 DEF RunWrite, RecordGroup, FinishRun

LEMMA CoverStep ==
  ASSUME StoreTypeOK, RowsHaveRuns, RefcountsCover, [StoreNext]_storeVars
  PROVE  RefcountsCover'
<1>1. CASE SameSlack
  <2> SUFFICES ASSUME NEW c \in Contents PROVE refcount'[c] >= References(c)'
    BY DEF RefcountsCover
  <2>1. StoreTypeOK'
    BY StoreTypeStep
  <2>2. refcount[c] \in Nat /\ refcount'[c] \in Nat
    BY <2>1 DEF StoreTypeOK
  <2>3. /\ Cardinality(KeptRows(c)) \in Nat /\ Cardinality(Lenders(c)) \in Nat
        /\ Cardinality(KeptRows(c)') \in Nat /\ Cardinality(Lenders(c)') \in Nat
    <3>1. KeptRows(c)' \in SUBSET kept' /\ Lenders(c)' \in SUBSET Groups
      BY <2>1 DEF KeptRows, Lenders, StoreTypeOK
    <3>2. IsFiniteSet(kept') /\ IsFiniteSet(Groups)
      BY <2>1, StoreAssumption DEF StoreTypeOK
    <3>3. IsFiniteSet(KeptRows(c)') /\ IsFiniteSet(Lenders(c)')
      BY <3>1, <3>2, FS_Subset
    <3> QED  BY <3>3, FS_CardinalityType, CountsAreNumbers
  <2>4. References(c) \in Nat /\ References(c)' \in Nat
    BY <2>3 DEF References
  <2>5. refcount'[c] - References(c)' = refcount[c] - References(c)
    BY <1>1 DEF SameSlack, Slack
  <2>6. refcount[c] >= References(c)
    BY DEF RefcountsCover
  <2> QED  BY <2>2, <2>4, <2>5, <2>6
<1>2. ASSUME NEW r \in RunIds, DeleteRun(r)
      PROVE  SameSlack
  BY <1>2, RemoveSlack DEF DeleteRun
<1>3. ASSUME NEW p \in Pipelines, NEW keep \in Keeps, PruneRuns(p, keep)
      PROVE  SameSlack
  BY <1>3, RemoveSlack, DoomedType DEF PruneRuns
<1>4. UNCHANGED <<runSignal, kept, library, refcount>> => SameSlack
  BY IdleSlack
<1>5. ASSUME NEW r \in RunIds, RunWrite(r)
      PROVE  RefcountsCover'
  <2>1. CASE \E g \in Groups : RecordSourceRefused(r, g)
    BY <2>1, RefusedCovers
  <2> QED  BY <1>1, <1>5, <2>1, RunWriteSlack
<1>6. ASSUME NEW g \in Groups, DeleteGroup(g)
      PROVE  SameSlack
  BY <1>6, DeleteGroupSlack
<1>7. ASSUME NEW p \in Pipelines, NEW r \in RunIds, BeginRun(r, p)
      PROVE  SameSlack
  BY <1>4, <1>7 DEF BeginRun
<1>8. ASSUME NEW k \in Keys, CacheForget(k)
      PROVE  SameSlack
  BY <1>4, <1>8 DEF CacheForget
<1>9. ASSUME NEW n \in Names, DeleteBaseline(n) \/ \E r \in RunIds : Promote(n, r)
      PROVE  SameSlack
  BY <1>4, <1>9 DEF DeleteBaseline, Promote
<1>10. CASE ClearCache \/ UNCHANGED storeVars
  BY <1>1, <1>4, <1>10 DEF ClearCache, storeVars
<1> QED  BY <1>1, <1>2, <1>3, <1>5, <1>6, <1>7, <1>8, <1>9, <1>10 DEF StoreNext

\* However runs copy, share, sweep and are deleted, and whatever references a
\* failed write leaks, a blob is never counted below the rows that need it.
THEOREM BlobsOutliveTheirRows == StoreSpec => []RefcountsCover
<1>1. StoreInit => RefcountsCover
  <2> SUFFICES ASSUME StoreInit, NEW c \in Contents PROVE refcount[c] >= References(c)
    BY DEF RefcountsCover
  <2>1. KeptRows(c) = {} /\ Lenders(c) = {g \in Groups : Source[g] = c}
    BY DEF StoreInit, KeptRows, Lenders
  <2>2. Cardinality(KeptRows(c)) = 0 /\ refcount[c] = Cardinality(Lenders(c))
    BY <2>1, FS_EmptySet DEF StoreInit
  <2> QED  BY <2>2, StoreTypeInit, CountsAreNumbers DEF References
<1> QED
  BY <1>1, CoverStep, StoreTypeCorrect, NoRowOutlivesItsRun, PTL DEF StoreSpec

NoneLive == "delete_live" \notin Upkeep

-----------------------------------------------------------------------------
(* The invariant *)

Running == {"groups", "artifacts", "status", "finish"}
\* Where a worker has yet to record the stage it is at, and where it has a stage.
Recording == Pcs \ {"rebuild", "close", "settled"}
AtStage == {"recall", "copy", "stale", "process", "rebuild"}

\* An execution under way has a run of its own, still running; it is past its
\* groups once they are in.
Owned(e) ==
  /\ mode[e] = "idle" => run[e] = NoRun
  /\ mode[e] \in Running => /\ run[e] \in RunIds /\ owner[run[e]] = e
                            /\ status[run[e]] = "running" /\ pipeline[run[e]] = Pipe(e)
  /\ mode[e] \in {"artifacts", "status", "finish", "done"} /\ run[e] # NoRun => AllSettled(e)
  /\ mode[e] = "finish" => verdict[e] # "running"

\* A worker is at a stage its pipeline has.
Placed(w) ==
  LET ws == worker[w]
      last == LastStage(Pipe(w[1]))
  IN
  /\ run[w[1]] = NoRun => ws.pc = "waiting"
  /\ ws.pc = "waiting" => ws.stage = 0
  /\ ws.pc # "waiting" => w[2] \in Job[w[1]].groups
  /\ ws.stage <= last + 1
  /\ ws.pc \in AtStage => ws.stage <= last
  /\ ws.pc \in {"assess", "sweep"} => ws.stage > last
  /\ ws.pc \in {"recall", "copy"} => ws.hit \in Places
  /\ ws.outcome = "error" => ws.pc = "settled"

\* Nothing is on record where a worker has yet to come.
Ahead(w) ==
  LET ws == worker[w]
      r == run[w[1]]
  IN mode[w[1]] = "groups" =>
       /\ ws.pc \in {"waiting", "source"} => runSignal[<<r, w[2], SourceStage>>] = NoContent
       /\ ws.pc \in Recording =>
            \A o \in Ordinals : o >= ws.stage => Unrecorded(<<r, w[2], o>>)
       /\ ws.pc = "rebuild" =>
            \A o \in Ordinals : o > ws.stage => Unrecorded(<<r, w[2], o>>)

Discipline == /\ \A e \in Execs : Owned(e)
              /\ \A w \in Team : Placed(w) /\ Ahead(w)
RunInv == TypeOK /\ RowsHaveRuns /\ Discipline

-----------------------------------------------------------------------------
(* Stages, keys and frames *)

LEMMA IntervalCount ==
  ASSUME NEW n \in Nat
  PROVE  IsFiniteSet(0 .. n) /\ Cardinality(0 .. n) = n + 1
<1> QED  BY FS_Interval

\* The ordinals of a pipeline's stages are an interval from 0.
LEMMA StagesAreCounted ==
  ASSUME NEW p \in Pipelines
  PROVE  /\ LastStage(p) \in Int /\ LastStage(p) >= -1
         /\ DOMAIN KindAt[p] = 0 .. LastStage(p)
<1> DEFINE D == DOMAIN KindAt[p]
<1>1. /\ D \subseteq Ordinals /\ Ordinals \subseteq Nat /\ IsFiniteSet(Ordinals)
      /\ \A o \in D : \A i \in 0 .. o : i \in D
  BY SchedulerAssumption, StoreAssumption
<1>2. LastStage(p) = Cardinality(D) - 1
  BY DEF LastStage
<1> HIDE DEF D
<1>3. IsFiniteSet(D) /\ Cardinality(D) \in Nat /\ D \subseteq Nat
  BY <1>1, FS_Subset, FS_CardinalityType
<1> DEFINE c == Cardinality(D)
<1>4. c \in Nat
  BY <1>3
<1>5. \A o \in D : o <= c - 1
  <2> TAKE o \in D
  <2>1. o \in Nat /\ 0 .. o \subseteq D
    BY <1>1, <1>3
  <2>2. Cardinality(0 .. o) <= c
    BY <2>1, <1>3, FS_Subset
  <2>3. Cardinality(0 .. o) = o + 1
    BY <2>1, IntervalCount
  <2> HIDE DEF c
  <2> QED  BY <2>1, <2>2, <2>3, <1>4
<1>6. \A o \in 0 .. c - 1 : o \in D
  <2> SUFFICES ASSUME NEW o \in 0 .. c - 1, o \notin D PROVE FALSE
    OBVIOUS
  <2>1. o \in Nat /\ o <= c - 1
    BY <1>4
  <2>2. \A i \in D : i < o
    BY <1>1, <1>3, <2>1
  <2>3. CASE o = 0
    <3>1. D = {}
      BY <1>3, <2>2, <2>3
    <3> QED  BY <3>1, <2>1, <2>3, FS_EmptySet
  <2>4. CASE o # 0
    <3>1. o - 1 \in Nat /\ D \subseteq 0 .. (o - 1)
      BY <1>3, <2>1, <2>2, <2>4
    <3>2. /\ IsFiniteSet(0 .. (o - 1)) /\ Cardinality(0 .. (o - 1)) = (o - 1) + 1
      BY <3>1, IntervalCount
    <3>3. c <= Cardinality(0 .. (o - 1))
      BY <3>1, <3>2, FS_Subset
    <3> HIDE DEF c
    <3> QED  BY <3>1, <3>2, <3>3, <2>1, <1>4
  <2> QED  BY <2>3, <2>4
<1>7. LastStage(p) = c - 1
  BY <1>2
<1>8. D = 0 .. c - 1
  <2> HIDE DEF c
  <2>1. \A o \in D : o \in 0 .. c - 1
    BY <1>3, <1>4, <1>5
  <2> QED  BY <2>1, <1>6
<1>9. LastStage(p) \in Int /\ LastStage(p) >= -1 /\ D = 0 .. LastStage(p)
  <2> HIDE DEF c
  <2> QED  BY <1>4, <1>7, <1>8
<1> QED  BY <1>9 DEF D

LEMMA JobTypes ==
  ASSUME NEW e \in Execs
  PROVE  /\ Pipe(e) \in Pipelines /\ Job[e].groups \subseteq Groups /\ Job[e].groups # {}
         /\ Job[e].cap \in Nat \cup {Unlimited} /\ Unlimited \notin Nat
<1>1. Job[e] \in Jobs
  BY SchedulerAssumption
<1>2. /\ Job[e].pipeline \in Pipelines /\ Job[e].groups \in (SUBSET Groups) \ {{}}
      /\ Job[e].cap \in Nat \cup {Unlimited}
  BY <1>1 DEF Jobs
<1> QED  BY <1>2 DEF Pipe, Unlimited

\* At a stage it has, a worker has a kind, a key and a place.
LEMMA StageTypes ==
  ASSUME TypeOK, NEW w \in Team, worker[w].stage <= LastStage(Pipe(w[1]))
  PROVE  /\ worker[w].stage \in Ordinals
         /\ worker[w].stage \in DOMAIN KindAt[Pipe(w[1])]
         /\ Stage(w) \in Kinds /\ KeyAt(w) \in Keys
<1>1. /\ w[1] \in Execs /\ worker[w] \in Workers
      /\ worker[w].stage \in Nat /\ worker[w].frame \in Frames
  BY DEF TypeOK, Team, Workers
<1>2. Pipe(w[1]) \in Pipelines
  BY <1>1, JobTypes
<1>3. worker[w].stage \in DOMAIN KindAt[Pipe(w[1])]
  BY <1>1, <1>2, StagesAreCounted
<1>4. Stage(w) \in Kinds /\ worker[w].stage \in Ordinals
  BY <1>2, <1>3, SchedulerAssumption DEF Stage
<1>5. StageKey(Stage(w), worker[w].frame) \in Keys
  <2>1. worker[w].frame.content \in Contents \cup {NoContent}
    BY <1>1 DEF Frames
  <2>2. worker[w].frame.content # NoContent =>
          worker[w].frame.content.data \in Data /\ worker[w].frame.content.time \in Times
    BY <2>1, SchedulerAssumption
  <2> QED  BY <1>4, <2>2, SchedulerAssumption DEF StageKey
<1> QED  BY <1>3, <1>4, <1>5 DEF KeyAt

\* What a stage hands back is a frame, whose bytes are counted.
LEMMA AppliedTypes ==
  ASSUME NEW kind \in Kinds, NEW f \in Frames, NEW g \in Applied(kind, f)
  PROVE  g \in Frames /\ FreshBytes(kind, f) \in Nat /\ FreshBytes(kind, g) \in Nat
<1>1. /\ f.content \in Contents \cup {NoContent} /\ f.stored \in BOOLEAN /\ f.attr \in Attrs
      /\ Contents = [data : Data, time : Times]
      /\ Size \in [Data -> Nat]
  BY SchedulerAssumption DEF Frames
<1>2. Patched(kind, f) \in Attrs
  BY <1>1, SchedulerAssumption DEF Patched
<1>3. CASE kind \in Fresh /\ f.content # NoContent
  <2>1. f.content.data \in Data /\ f.content.time \in Times
    BY <1>1, <1>3
  <2>2. NewData(kind, f) \subseteq Data
    BY <1>1, <1>3, <2>1, SchedulerAssumption DEF NewData
  <2>3. PICK d \in NewData(kind, f) :
          g = [content |-> [data |-> d, time |-> f.content.time], stored |-> FALSE,
               attr |-> Patched(kind, f)]
    BY <1>3 DEF Applied
  <2>4. g.content = [data |-> d, time |-> f.content.time] /\ d \in Data
    BY <2>2, <2>3
  <2>5. g \in Frames
    BY <1>1, <1>2, <2>1, <2>3, <2>4 DEF Frames
  <2>6. g.content.data \in Data
    BY <2>4
  <2> QED  BY <1>1, <2>1, <2>5, <2>6 DEF FreshBytes
<1>4. CASE ~(kind \in Fresh /\ f.content # NoContent)
  <2>1. g = [f EXCEPT !.attr = Patched(kind, f)]
    BY <1>4 DEF Applied
  <2>2. g \in Frames /\ g.content = f.content
    BY <1>1, <1>2, <2>1 DEF Frames
  <2> QED  BY <1>4, <2>2 DEF FreshBytes
<1> QED  BY <1>3, <1>4

-----------------------------------------------------------------------------
(* A worker writes to rows of its own run and group *)

\* The step leaves every other group's rows, and what runs there are, alone.
Local(r, g) ==
  /\ UNCHANGED <<status, pipeline, baseline, library>>
  /\ \A rg \in RunIds \X Groups : rg # <<r, g>> => runGroup'[rg] = runGroup[rg]
  /\ \A q \in AllPlaces : ~(q[1] = r /\ q[2] = g) =>
       runSignal'[q] = runSignal[q] /\ (q \in kept' <=> q \in kept)
  /\ \A q \in Places : ~(q[1] = r /\ q[2] = g) => runStage'[q] = runStage[q]

\* The rows of place p apart, the group's rows are left alone as well.
OnlyPlace(p) ==
  /\ UNCHANGED <<status, pipeline, baseline, library, runGroup>>
  /\ \A q \in AllPlaces : q # p =>
       runSignal'[q] = runSignal[q] /\ (q \in kept' <=> q \in kept)
  /\ \A q \in Places : q # p => runStage'[q] = runStage[q]

LEMMA OnlyPlaceIsLocal ==
  ASSUME NEW r \in RunIds, NEW g \in Groups, NEW o \in Ordinals \cup {SourceStage},
         OnlyPlace(<<r, g, o>>)
  PROVE  Local(r, g)
BY DEF OnlyPlace, Local

LEMMA SourceWrites ==
  ASSUME StoreTypeOK, NEW r \in RunIds, NEW g \in Groups,
         RecordSource(r, g) \/ RecordSourceRefused(r, g)
  PROVE  OnlyPlace(<<r, g, SourceStage>>) /\ Local(r, g) /\ UNCHANGED <<runStage, cache>>
<1>1. <<r, g, SourceStage>> \in AllPlaces
  BY DEF AllPlaces
<1>2. OnlyPlace(<<r, g, SourceStage>>) /\ UNCHANGED <<runStage, cache>>
  BY <1>1 DEF RecordSource, RecordSourceRefused, OnlyPlace, Insert, StoreTypeOK
<1> QED  BY <1>2, OnlyPlaceIsLocal

LEMMA GroupWrites ==
  ASSUME StoreTypeOK, NEW r \in RunIds, NEW g \in Groups, NEW s, RecordGroup(r, g, s)
  PROVE  Local(r, g) /\ UNCHANGED <<runStage, runSignal, kept, cache>>
BY DEF RecordGroup, Local, StoreTypeOK

LEMMA StageWrites ==
  ASSUME StoreTypeOK, NEW r \in RunIds, NEW g \in Groups, NEW o \in Ordinals, NEW k,
         \/ RecordFailure(<<r, g, o>>, k)
         \/ \E c, keep, publish : RecordOutput(<<r, g, o>>, c, k, keep, publish)
         \/ \E from, metrics : CopyOutput(from, <<r, g, o>>, k, metrics)
  PROVE  OnlyPlace(<<r, g, o>>) /\ Local(r, g)
<1> DEFINE p == <<r, g, o>>
<1>1. p \in AllPlaces /\ p \in Places
  BY DEF AllPlaces, Places
<1>2. OnlyPlace(p)
  <2> HIDE DEF p
  <2>1. CASE RecordFailure(p, k)
    BY <1>1, <2>1 DEF RecordFailure, OnlyPlace, StoreTypeOK
  <2>2. ASSUME NEW c, NEW keep, NEW publish, RecordOutput(p, c, k, keep, publish)
        PROVE  OnlyPlace(p)
    BY <1>1, <2>2 DEF RecordOutput, OnlyPlace, Insert, StoreTypeOK
  <2>3. ASSUME NEW from, NEW metrics, CopyOutput(from, p, k, metrics)
        PROVE  OnlyPlace(p)
    BY <1>1, <2>3 DEF CopyOutput, OnlyPlace, Insert, StoreTypeOK
  <2> QED  BY <2>1, <2>2, <2>3 DEF p
<1> QED  BY <1>2, OnlyPlaceIsLocal

LEMMA SweepWrites ==
  ASSUME NEW r \in RunIds, NEW g \in Groups, NEW stages, ForgetSamples(r, g, stages)
  PROVE  Local(r, g) /\ UNCHANGED <<runGroup, runStage, runSignal, cache>>
BY DEF ForgetSamples, Local

LEMMA IdleWrites ==
  ASSUME UNCHANGED storeVars \/ \E k \in Keys : CacheForget(k), NEW r, NEW g
  PROVE  Local(r, g) /\ UNCHANGED <<runGroup, runStage, runSignal, kept>>
BY DEF CacheForget, Local, storeVars

-----------------------------------------------------------------------------
(* A worker's step *)

\* The worker's run is there, running and its execution's own.
Live(w) ==
  LET r == run[w[1]] IN
  /\ w[1] \in Execs /\ w[2] \in Groups /\ w = <<w[1], w[2]>>
  /\ mode[w[1]] = "groups" /\ w[2] \in Job[w[1]].groups
  /\ r \in RunIds /\ owner[r] = w[1] /\ Exists(r)
  /\ status[r] = "running" /\ pipeline[r] = Pipe(w[1]) /\ Pipe(w[1]) \in Pipelines

\* What every step of a worker does, or leaves alone.
Moves(w) ==
  /\ Live(w)
  /\ [StoreNext]_storeVars /\ Local(run[w[1]], w[2])
  /\ UNCHANGED <<mode, run, owner, cancel, verdict>>
  /\ worker' \in [Team -> Workers]
  /\ \A v \in Team : v # w => worker'[v] = worker[v]
  /\ Placed(w)' /\ Ahead(w)'

LEMMA ReadyIsLive ==
  ASSUME RunInv, NEW w \in Team, NEW pc, Ready(w, pc), pc # "settled",
         pc = "waiting" => w[2] \in Job[w[1]].groups
  PROVE  Live(w)
<1>1. w[1] \in Execs /\ w[2] \in Groups /\ w = <<w[1], w[2]>>
  BY DEF Team
<1>2. Owned(w[1]) /\ Placed(w) /\ w[2] \in Job[w[1]].groups
  BY <1>1 DEF RunInv, Discipline, Ready, Placed
<1>3. ~AllSettled(w[1])
  BY <1>1, <1>2 DEF AllSettled, Ready
<1>4. mode[w[1]] = "groups"
  BY <1>1, <1>2, <1>3 DEF RunInv, TypeOK, Owned, Ready
<1> QED  BY <1>1, <1>2, <1>4, JobTypes DEF Live, Owned, Running, Exists, RunIds, NoRun

LEMMA GoTypes ==
  ASSUME RunInv, NEW w \in Team, NEW next \in Workers, Go(w, next)
  PROVE  /\ worker' \in [Team -> Workers] /\ worker'[w] = next
         /\ \A v \in Team : v # w => worker'[v] = worker[v]
BY DEF RunInv, TypeOK, Go

LEMMA WorkerTypes ==
  ASSUME RunInv, NEW w \in Team
  PROVE  /\ worker[w] \in Workers /\ worker[w].stage \in Nat /\ worker[w].frame \in Frames
         /\ worker[w].pc \in Pcs /\ worker[w].hit \in Places \cup {NoPlace}
         /\ LastStage(Pipe(w[1])) \in Int
         /\ Placed(w) /\ Ahead(w)
<1>1. w[1] \in Execs
  BY DEF Team
<1> QED  BY <1>1, JobTypes, StagesAreCounted DEF RunInv, TypeOK, Discipline, Workers

\* The stage write of a worker is one the store's discipline allows.
LEMMA StageWriteIsOwn ==
  ASSUME RunInv, NEW w \in Team, Live(w), worker[w].stage <= LastStage(Pipe(w[1])),
         worker[w].pc \in Recording, StageWrite(At(w), KeyAt(w))
  PROVE  StoreNext
<1>1. run[w[1]] \in RunIds /\ w[2] \in Groups
  BY DEF Live
<1>2. worker[w].stage \in Ordinals /\ KeyAt(w) \in Keys
  BY StageTypes DEF RunInv
<1>3. RunWrite(run[w[1]])
  BY <1>1, <1>2 DEF RunWrite, At
<1> QED  BY <1>1, <1>3 DEF StoreNext

LEMMA StageIsUnrecorded ==
  ASSUME RunInv, NEW w \in Team, Live(w), worker[w].stage <= LastStage(Pipe(w[1])),
         worker[w].pc \in Recording
  PROVE  /\ At(w) \in Places /\ At(w) = <<run[w[1]], w[2], worker[w].stage>>
         /\ worker[w].stage \in Ordinals
         /\ Unrecorded(At(w)) /\ runSignal[At(w)] = NoContent
<1>1. worker[w].stage \in Ordinals /\ worker[w].stage \in Nat
  BY StageTypes, WorkerTypes DEF RunInv
<1>2. At(w) \in Places /\ At(w) = <<run[w[1]], w[2], worker[w].stage>>
  BY <1>1 DEF At, Places, Live
<1>3. Unrecorded(At(w))
  <2>1. Ahead(w) /\ mode[w[1]] = "groups"
    BY WorkerTypes DEF Live
  <2>2. \A o \in Ordinals : o >= worker[w].stage => Unrecorded(<<run[w[1]], w[2], o>>)
    BY <2>1 DEF Ahead
  <2>3. worker[w].stage >= worker[w].stage
    BY <1>1
  <2> QED  BY <1>1, <1>2, <2>2, <2>3
<1>4. runSignal[At(w)] = NoContent
  BY <1>2, <1>3 DEF RunInv, RowsHaveRuns, Unrecorded
<1> QED  BY <1>1, <1>2, <1>3, <1>4

\* A worker that gives up is settled, whatever its job left behind.
LEMMA AbortMoves ==
  ASSUME RunInv, NEW w \in Team, Live(w), Abort(w),
         [StoreNext]_storeVars, Local(run[w[1]], w[2]),
         UNCHANGED <<mode, run, owner, cancel, verdict>>
  PROVE  Moves(w)
<1> DEFINE next == [worker[w] EXCEPT !.pc = "settled", !.outcome = "error"]
<1>1. /\ next \in Workers /\ next.pc = "settled" /\ next.stage = worker[w].stage
  BY WorkerTypes DEF Workers, Pcs
<1>2. /\ worker' \in [Team -> Workers] /\ worker'[w] = next
      /\ \A v \in Team : v # w => worker'[v] = worker[v]
  BY <1>1, GoTypes DEF Abort
<1> HIDE DEF next
<1>3. Placed(w)'
  <2>1. run[w[1]] # NoRun /\ w[2] \in Job[w[1]].groups
    BY DEF Live, Exists
  <2> QED  BY <1>1, <1>2, <2>1, WorkerTypes DEF Placed, AtStage
<1>4. Ahead(w)'
  BY <1>1, <1>2 DEF Ahead, Recording
<1> QED  BY <1>2, <1>3, <1>4 DEF Moves

\* A worker that goes on: what is to be shown of where it goes.
LEMMA GoMoves ==
  ASSUME RunInv, NEW w \in Team, Live(w), NEW next \in Workers, Go(w, next),
         [StoreNext]_storeVars, Local(run[w[1]], w[2]),
         UNCHANGED <<mode, run, owner, cancel, verdict>>,
         next.pc # "waiting", next.outcome # "error",
         next.stage <= LastStage(Pipe(w[1])) + 1,
         next.pc \in AtStage => next.stage <= LastStage(Pipe(w[1])),
         next.pc \in {"assess", "sweep"} => next.stage > LastStage(Pipe(w[1])),
         next.pc \in {"recall", "copy"} => next.hit \in Places,
         next.pc = "source" => runSignal'[<<run[w[1]], w[2], SourceStage>>] = NoContent,
         next.pc \in Recording =>
           \A o \in Ordinals : o >= next.stage =>
             runStage'[<<run[w[1]], w[2], o>>] = NoStageRow,
         next.pc = "rebuild" =>
           \A o \in Ordinals : o > next.stage =>
             runStage'[<<run[w[1]], w[2], o>>] = NoStageRow
  PROVE  Moves(w)
<1>1. /\ worker' \in [Team -> Workers] /\ worker'[w] = next
      /\ \A v \in Team : v # w => worker'[v] = worker[v]
  BY GoTypes
<1>2. Placed(w)'
  <2>1. run'[w[1]] # NoRun /\ w[2] \in Job[w[1]].groups
    BY DEF Live, Exists
  <2> QED  BY <1>1, <2>1 DEF Placed
<1>3. Ahead(w)'
  BY <1>1 DEF Ahead, Unrecorded
<1> QED  BY <1>1, <1>2, <1>3 DEF Moves

LEMMA StartGroupMoves ==
  ASSUME RunInv, NEW w \in Team, StartGroup(w)
  PROVE  Moves(w)
<1>1. Live(w) /\ worker[w].pc = "waiting"
  BY ReadyIsLive DEF StartGroup, Ready
<1>2. /\ UNCHANGED storeVars /\ UNCHANGED <<mode, run, owner, cancel, verdict>>
      /\ Local(run[w[1]], w[2]) /\ [StoreNext]_storeVars
  BY IdleWrites DEF StartGroup, OnlyWorker, SameExec
<1>3. CASE Abort(w)
  BY <1>1, <1>2, <1>3, AbortMoves
<1>4. CASE ~Abort(w)
  <2> DEFINE next == [worker[w] EXCEPT !.pc = "source"]
  <2>1. Go(w, next)
    BY <1>4 DEF StartGroup
  <2>2. /\ next \in Workers /\ next.pc = "source" /\ next.stage = worker[w].stage
        /\ next.outcome = worker[w].outcome
    BY WorkerTypes DEF Workers, Pcs
  <2> HIDE DEF next
  <2>3. worker[w].outcome # "error" /\ worker[w].stage <= LastStage(Pipe(w[1])) + 1
    BY <1>1, WorkerTypes DEF Placed
  <2>4. runSignal'[<<run[w[1]], w[2], SourceStage>>] = NoContent
    BY <1>1, <1>2, WorkerTypes DEF Ahead, Live, storeVars
  <2>5. \A o \in Ordinals : o >= next.stage =>
           runStage'[<<run[w[1]], w[2], o>>] = NoStageRow
    BY <1>1, <1>2, <2>2, WorkerTypes DEF Ahead, Live, storeVars, Unrecorded, Recording, Pcs
  <2> QED
    BY <1>1, <1>2, <2>1, <2>2, <2>3, <2>4, <2>5, GoMoves DEF AtStage
<1> QED  BY <1>3, <1>4

LEMMA StoreSourceMoves ==
  ASSUME RunInv, NEW w \in Team, StoreSource(w)
  PROVE  Moves(w)
<1> DEFINE r == run[w[1]]
           g == w[2]
<1>1. Live(w) /\ worker[w].pc = "source" /\ r \in RunIds /\ g \in Groups
  BY ReadyIsLive DEF StoreSource, Ready, Live
<1>2. UNCHANGED <<mode, run, owner, cancel, verdict>>
  BY DEF StoreSource, SameExec
<1>3. StoreTypeOK
  BY DEF RunInv, TypeOK
<1>4. CASE RecordSource(r, g) /\ Go(w, [worker[w] EXCEPT !.pc = "open"])
  <2> DEFINE next == [worker[w] EXCEPT !.pc = "open"]
  <2>1. Go(w, next)
    BY <1>4
  <2>2. /\ next \in Workers /\ next.pc = "open" /\ next.stage = worker[w].stage
        /\ next.outcome = worker[w].outcome
    BY WorkerTypes DEF Workers, Pcs
  <2> HIDE DEF next
  <2>3. worker[w].outcome # "error" /\ worker[w].stage <= LastStage(Pipe(w[1])) + 1
    BY <1>1, WorkerTypes DEF Placed
  <2>4. Local(r, g) /\ UNCHANGED runStage
    BY <1>1, <1>3, <1>4, SourceWrites
  <2>5. [StoreNext]_storeVars
    BY <1>1, <1>4 DEF StoreNext, RunWrite
  <2>6. \A o \in Ordinals : o >= next.stage =>
           runStage'[<<run[w[1]], w[2], o>>] = NoStageRow
    BY <1>1, <2>2, <2>4, WorkerTypes DEF Ahead, Live, Unrecorded, Recording, Pcs
  <2> QED
    BY <1>1, <1>2, <2>1, <2>2, <2>3, <2>4, <2>5, <2>6, GoMoves DEF AtStage
<1>5. CASE RecordSourceRefused(r, g) /\ Abort(w)
  <2>1. Local(r, g) /\ [StoreNext]_storeVars
    BY <1>1, <1>3, <1>5, SourceWrites DEF StoreNext, RunWrite
  <2> QED  BY <1>1, <1>2, <1>5, <2>1, AbortMoves
<1>6. CASE UNCHANGED storeVars /\ Abort(w)
  BY <1>1, <1>2, <1>6, IdleWrites, AbortMoves
<1> QED  BY <1>4, <1>5, <1>6 DEF StoreSource

LEMMA OpenGroupMoves ==
  ASSUME RunInv, NEW w \in Team, OpenGroup(w)
  PROVE  Moves(w)
<1> DEFINE r == run[w[1]]
           g == w[2]
<1>1. Live(w) /\ worker[w].pc = "open" /\ r \in RunIds /\ g \in Groups
  BY ReadyIsLive DEF OpenGroup, Ready, Live
<1>2. UNCHANGED <<mode, run, owner, cancel, verdict>> /\ StoreTypeOK
  BY DEF OpenGroup, SameExec, RunInv, TypeOK
<1>3. CASE RecordGroup(r, g, "running") /\ Go(w, [worker[w] EXCEPT !.pc = "stage"])
  <2> DEFINE next == [worker[w] EXCEPT !.pc = "stage"]
  <2>1. Go(w, next)
    BY <1>3
  <2>2. /\ next \in Workers /\ next.pc = "stage" /\ next.stage = worker[w].stage
        /\ next.outcome = worker[w].outcome
    BY WorkerTypes DEF Workers, Pcs
  <2> HIDE DEF next
  <2>3. worker[w].outcome # "error" /\ worker[w].stage <= LastStage(Pipe(w[1])) + 1
    BY <1>1, WorkerTypes DEF Placed
  <2>4. Local(r, g) /\ UNCHANGED runStage
    BY <1>1, <1>2, <1>3, GroupWrites
  <2>5. [StoreNext]_storeVars
    BY <1>1, <1>3 DEF StoreNext, RunWrite, RunStatus
  <2>6. \A o \in Ordinals : o >= next.stage =>
           runStage'[<<run[w[1]], w[2], o>>] = NoStageRow
    BY <1>1, <2>2, <2>4, WorkerTypes DEF Ahead, Live, Unrecorded, Recording, Pcs
  <2> QED
    BY <1>1, <1>2, <2>1, <2>2, <2>3, <2>4, <2>5, <2>6, GoMoves DEF AtStage
<1>4. CASE UNCHANGED storeVars /\ Abort(w)
  BY <1>1, <1>2, <1>4, IdleWrites, AbortMoves
<1>5. CASE RecordGroup(r, g, "running") /\ Abort(w)
  <2>1. Local(r, g) /\ [StoreNext]_storeVars
    BY <1>1, <1>2, <1>5, GroupWrites DEF StoreNext, RunWrite, RunStatus
  <2> QED  BY <1>1, <1>2, <1>5, <2>1, AbortMoves
<1> QED  BY <1>3, <1>4, <1>5 DEF OpenGroup

\* What is ahead of a worker that has its stage still to record.
LEMMA StillAhead ==
  ASSUME RunInv, NEW w \in Team, Live(w), worker[w].pc \in Recording
  PROVE  /\ worker[w].outcome # "error"
         /\ worker[w].stage <= LastStage(Pipe(w[1])) + 1
         /\ \A o \in Ordinals : o >= worker[w].stage =>
              Unrecorded(<<run[w[1]], w[2], o>>)
BY WorkerTypes DEF Placed, Ahead, Live, Recording

LEMMA BeginStageMoves ==
  ASSUME RunInv, NEW w \in Team, BeginStage(w)
  PROVE  Moves(w)
<1> DEFINE ws == worker[w]
           last == LastStage(Pipe(w[1]))
           hit == IF Job[w[1]].useCache /\ Stage(w) \in Pure THEN cache[KeyAt(w)] ELSE NoPlace
<1>1. Live(w) /\ ws.pc = "stage"
  BY ReadyIsLive DEF BeginStage, Ready
<1>2. /\ UNCHANGED storeVars /\ UNCHANGED <<mode, run, owner, cancel, verdict>>
      /\ Local(run[w[1]], w[2]) /\ [StoreNext]_storeVars
  BY IdleWrites DEF BeginStage, OnlyWorker, SameExec
<1>3. /\ ws.outcome # "error" /\ ws.stage <= last + 1 /\ ws.stage \in Nat /\ last \in Int
      /\ \A o \in Ordinals : o >= ws.stage => runStage'[<<run[w[1]], w[2], o>>] = NoStageRow
  BY <1>1, <1>2, StillAhead, WorkerTypes DEF Recording, Pcs, storeVars, Unrecorded
<1>4. CASE ws.stage > last /\ Go(w, [ws EXCEPT !.pc = "assess"])
  <2> DEFINE next == [ws EXCEPT !.pc = "assess"]
  <2>1. /\ next \in Workers /\ next.pc = "assess" /\ next.stage = ws.stage
        /\ next.outcome = ws.outcome
    BY WorkerTypes DEF Workers, Pcs
  <2>2. Go(w, next)
    BY <1>4
  <2> HIDE DEF next
  <2> QED  BY <1>1, <1>2, <1>3, <1>4, <2>1, <2>2, GoMoves DEF AtStage
<1>5. CASE Abort(w)
  BY <1>1, <1>2, <1>5, AbortMoves
<1>6. CASE ws.stage <= last
           /\ Go(w, [ws EXCEPT !.pc = IF hit = NoPlace THEN "process" ELSE "recall", !.hit = hit])
  <2> DEFINE next == [ws EXCEPT !.pc = IF hit = NoPlace THEN "process" ELSE "recall",
                                !.hit = hit]
  <2>1. hit \in Places \cup {NoPlace}
    BY <1>6, StageTypes DEF RunInv, TypeOK, StoreTypeOK
  <2>2. Go(w, next)
    BY <1>6
  <2> HIDE DEF hit
  <2>3. /\ next \in Workers /\ next.pc \in {"process", "recall"}
        /\ next.stage = ws.stage /\ next.outcome = ws.outcome
        /\ next.pc = "recall" => next.hit \in Places
    BY <2>1, WorkerTypes DEF Workers, Pcs
  <2> HIDE DEF next
  <2> QED  BY <1>1, <1>2, <1>3, <1>6, <2>2, <2>3, GoMoves DEF AtStage
<1> QED  BY <1>4, <1>5, <1>6 DEF BeginStage

LEMMA RecallMoves ==
  ASSUME RunInv, NEW w \in Team, Recall(w)
  PROVE  Moves(w)
<1> DEFINE ws == worker[w]
           row == runStage[ws.hit]
           next == [ws EXCEPT !.pc = "copy", !.metrics = row.metrics]
<1>1. Live(w) /\ ws.pc = "recall" /\ Go(w, next)
  BY ReadyIsLive DEF Recall, Ready
<1>2. /\ UNCHANGED storeVars /\ UNCHANGED <<mode, run, owner, cancel, verdict>>
      /\ Local(run[w[1]], w[2]) /\ [StoreNext]_storeVars
  BY IdleWrites DEF Recall, OnlyWorker, SameExec
<1>3. /\ ws.outcome # "error" /\ ws.stage <= LastStage(Pipe(w[1])) + 1
      /\ ws.stage <= LastStage(Pipe(w[1])) /\ ws.hit \in Places
      /\ ws.stage \in Nat /\ LastStage(Pipe(w[1])) \in Int
      /\ \A o \in Ordinals : o >= ws.stage => runStage'[<<run[w[1]], w[2], o>>] = NoStageRow
  BY <1>1, <1>2, StillAhead, WorkerTypes
  DEF Recording, Pcs, storeVars, Unrecorded, Placed, AtStage
<1>4. row.metrics \in BOOLEAN
  BY <1>3 DEF RunInv, TypeOK, StoreTypeOK, StageRows
<1> HIDE DEF row
<1>5. /\ next \in Workers /\ next.pc = "copy" /\ next.stage = ws.stage
      /\ next.outcome = ws.outcome /\ next.hit = ws.hit
  BY <1>4, WorkerTypes DEF Workers, Pcs
<1> HIDE DEF next
<1> QED  BY <1>1, <1>2, <1>3, <1>5, GoMoves DEF AtStage

LEMMA CopyMoves ==
  ASSUME RunInv, NEW w \in Team, Copy(w)
  PROVE  Moves(w)
<1> DEFINE ws == worker[w]
           from == ws.hit
           last == LastStage(Pipe(w[1]))
           p == At(w)
<1>1. Live(w) /\ ws.pc = "copy" /\ ws.pc \in Recording
  BY ReadyIsLive DEF Copy, Ready, Recording, Pcs
<1>2. UNCHANGED <<mode, run, owner, cancel, verdict>> /\ StoreTypeOK
  BY DEF Copy, SameExec, RunInv, TypeOK
<1>3. /\ ws.outcome # "error" /\ ws.stage <= last + 1 /\ ws.stage <= last /\ from \in Places
      /\ ws.metrics \in BOOLEAN /\ ws.stage \in Nat /\ last \in Int
      /\ \A o \in Ordinals : o >= ws.stage => Unrecorded(<<run[w[1]], w[2], o>>)
  BY <1>1, StillAhead, WorkerTypes DEF Placed, AtStage, Workers
<1>4. /\ p \in Places /\ p = <<run[w[1]], w[2], ws.stage>> /\ ws.stage \in Ordinals
      /\ Unrecorded(p) /\ run[w[1]] \in RunIds /\ w[2] \in Groups
  BY <1>1, <1>3, StageIsUnrecorded DEF Live
<1>5. CASE CopyOutput(from, p, KeyAt(w), ws.metrics) /\ Go(w, [ws EXCEPT !.pc = "rebuild"])
  <2> DEFINE next == [ws EXCEPT !.pc = "rebuild"]
  <2>1. /\ next \in Workers /\ next.pc = "rebuild" /\ next.stage = ws.stage
        /\ next.outcome = ws.outcome
    BY WorkerTypes DEF Workers, Pcs
  <2>2. Go(w, next)
    BY <1>5
  <2>3. StoreNext
    BY <1>1, <1>3, <1>4, <1>5, StageWriteIsOwn DEF StageWrite
  <2>4. OnlyPlace(p) /\ Local(run[w[1]], w[2])
    BY <1>2, <1>4, <1>5, StageWrites
  <2>5. \A o \in Ordinals : o > ws.stage => runStage'[<<run[w[1]], w[2], o>>] = NoStageRow
    <3> SUFFICES ASSUME NEW o \in Ordinals, o > ws.stage
                 PROVE  runStage'[<<run[w[1]], w[2], o>>] = NoStageRow
      OBVIOUS
    <3>1. o # ws.stage /\ o >= ws.stage
      BY <1>3, StoreAssumption
    <3>2. <<run[w[1]], w[2], o>> \in Places /\ <<run[w[1]], w[2], o>> # p
      BY <1>4, <3>1 DEF Places
    <3> QED  BY <1>3, <2>4, <3>1, <3>2 DEF OnlyPlace, Unrecorded
  <2> HIDE DEF next
  <2> QED  BY <1>1, <1>2, <1>3, <2>1, <2>2, <2>3, <2>4, <2>5, GoMoves DEF AtStage, Recording
<1>6. CASE UNCHANGED storeVars /\ Go(w, [ws EXCEPT !.pc = "stale"])
  <2> DEFINE next == [ws EXCEPT !.pc = "stale"]
  <2>1. /\ next \in Workers /\ next.pc = "stale" /\ next.stage = ws.stage
        /\ next.outcome = ws.outcome
    BY WorkerTypes DEF Workers, Pcs
  <2>2. Go(w, next)
    BY <1>6
  <2>3. \A o \in Ordinals : o >= ws.stage => runStage'[<<run[w[1]], w[2], o>>] = NoStageRow
    BY <1>3, <1>6 DEF storeVars, Unrecorded
  <2>4. Local(run[w[1]], w[2])
    BY <1>6, IdleWrites
  <2> HIDE DEF next
  <2> QED  BY <1>1, <1>2, <1>3, <1>6, <2>1, <2>2, <2>3, <2>4, GoMoves DEF AtStage
<1>7. CASE UNCHANGED storeVars /\ Abort(w)
  BY <1>1, <1>2, <1>7, IdleWrites, AbortMoves
<1> QED  BY <1>5, <1>6, <1>7 DEF Copy

LEMMA ForgetStaleMoves ==
  ASSUME RunInv, NEW w \in Team, ForgetStale(w)
  PROVE  Moves(w)
<1> DEFINE ws == worker[w]
           next == [ws EXCEPT !.pc = "process", !.hit = NoPlace]
<1>1. Live(w) /\ ws.pc = "stale" /\ ws.pc \in Recording /\ Go(w, next)
  BY ReadyIsLive DEF ForgetStale, Ready, Recording, Pcs
<1>2. UNCHANGED <<mode, run, owner, cancel, verdict>> /\ CacheForget(KeyAt(w))
  BY DEF ForgetStale, SameExec
<1>3. /\ ws.outcome # "error" /\ ws.stage <= LastStage(Pipe(w[1])) + 1
      /\ ws.stage <= LastStage(Pipe(w[1])) /\ KeyAt(w) \in Keys
      /\ ws.stage \in Nat /\ LastStage(Pipe(w[1])) \in Int
      /\ \A o \in Ordinals : o >= ws.stage => Unrecorded(<<run[w[1]], w[2], o>>)
  BY <1>1, StillAhead, WorkerTypes, StageTypes DEF Placed, AtStage, RunInv
<1>4. Local(run[w[1]], w[2]) /\ UNCHANGED runStage /\ [StoreNext]_storeVars
  BY <1>2, <1>3, IdleWrites DEF StoreNext
<1>5. /\ next \in Workers /\ next.pc = "process" /\ next.stage = ws.stage
      /\ next.outcome = ws.outcome
  BY WorkerTypes DEF Workers, Pcs
<1> HIDE DEF next
<1>6. \A o \in Ordinals : o >= ws.stage => runStage'[<<run[w[1]], w[2], o>>] = NoStageRow
  BY <1>3, <1>4 DEF Unrecorded
<1> QED  BY <1>1, <1>2, <1>3, <1>4, <1>5, <1>6, GoMoves DEF AtStage

\* A stage that is on record is behind the worker, and nothing is ahead.
LEMMA PastStageMoves ==
  ASSUME RunInv, NEW w \in Team, Live(w), NEW f \in Frames, Go(w, PastStage(w, f)),
         [StoreNext]_storeVars, Local(run[w[1]], w[2]),
         UNCHANGED <<mode, run, owner, cancel, verdict>>,
         worker[w].outcome # "error", worker[w].stage <= LastStage(Pipe(w[1])),
         \A o \in Ordinals : o > worker[w].stage =>
           runStage'[<<run[w[1]], w[2], o>>] = NoStageRow
  PROVE  Moves(w)
<1> DEFINE ws == worker[w]
           next == PastStage(w, f)
<1>1. ws.stage \in Nat /\ LastStage(Pipe(w[1])) \in Int
  BY WorkerTypes
<1>2. /\ next \in Workers /\ next.pc = "stage" /\ next.stage = ws.stage + 1
      /\ next.outcome = ws.outcome
  <2>1. next = [ws EXCEPT !.pc = "stage", !.stage = ws.stage + 1, !.frame = f, !.hit = NoPlace]
    BY DEF PastStage
  <2>2. ws.stage + 1 \in Nat
    BY <1>1
  <2> HIDE DEF next
  <2> QED  BY <2>1, <2>2, WorkerTypes DEF Workers, Pcs
<1> HIDE DEF next
<1>3. \A o \in Ordinals : o >= next.stage => o > ws.stage
  BY <1>1, <1>2, StoreAssumption
<1>4. next.stage <= LastStage(Pipe(w[1])) + 1
  BY <1>1, <1>2
<1> QED  BY <1>2, <1>3, <1>4, GoMoves DEF AtStage, next

LEMMA RebuildMoves ==
  ASSUME RunInv, NEW w \in Team, Rebuild(w)
  PROVE  Moves(w)
<1> DEFINE c == runSignal[At(w)]
           f == FrameOf(c, worker[w].frame.attr)
<1>1. Live(w) /\ worker[w].pc = "rebuild"
  BY ReadyIsLive DEF Rebuild, Ready
<1>2. /\ UNCHANGED storeVars /\ UNCHANGED <<mode, run, owner, cancel, verdict>>
      /\ Local(run[w[1]], w[2]) /\ [StoreNext]_storeVars
  BY IdleWrites DEF Rebuild, OnlyWorker, SameExec
<1>3. CASE Abort(w)
  BY <1>1, <1>2, <1>3, AbortMoves
<1>4. CASE Go(w, PastStage(w, f))
  <2>1. worker[w].stage <= LastStage(Pipe(w[1])) /\ worker[w].outcome # "error"
    BY <1>1, WorkerTypes DEF Placed, AtStage
  <2>2. At(w) \in AllPlaces
    BY <1>1, <2>1, StageTypes DEF At, AllPlaces, Live, RunInv
  <2>3. f \in Frames
    BY <2>2, WorkerTypes DEF RunInv, TypeOK, StoreTypeOK, Frames, FrameOf
  <2>4. \A o \in Ordinals : o > worker[w].stage =>
           runStage'[<<run[w[1]], w[2], o>>] = NoStageRow
    BY <1>1, <1>2, WorkerTypes DEF Ahead, Live, storeVars, Unrecorded
  <2> HIDE DEF f
  <2> QED  BY <1>1, <1>2, <1>4, <2>1, <2>3, <2>4, PastStageMoves
<1> QED  BY <1>3, <1>4 DEF Rebuild

\* A worker that has only its group to close.
LEMMA CloseMoves ==
  ASSUME RunInv, NEW w \in Team, Live(w), NEW next \in Workers, Go(w, next),
         next.pc \in {"close", "settled"}, next.stage = worker[w].stage,
         next.outcome # "error",
         [StoreNext]_storeVars, Local(run[w[1]], w[2]),
         UNCHANGED <<mode, run, owner, cancel, verdict>>
  PROVE  Moves(w)
<1>1. next.stage <= LastStage(Pipe(w[1])) + 1
  BY WorkerTypes DEF Placed
<1> QED  BY <1>1, GoMoves DEF AtStage, Recording

LEMMA FailStageMoves ==
  ASSUME RunInv, NEW w \in Team, FailStage(w)
  PROVE  Moves(w)
<1>1. Live(w) /\ worker[w].pc = "process" /\ worker[w].pc \in Recording
  BY ReadyIsLive DEF FailStage, Ready, Recording, Pcs
<1>2. UNCHANGED <<mode, run, owner, cancel, verdict>> /\ StoreTypeOK
  BY DEF FailStage, SameExec, RunInv, TypeOK
<1>3. worker[w].stage <= LastStage(Pipe(w[1]))
  BY <1>1, WorkerTypes DEF Placed, AtStage
<1>4. /\ At(w) = <<run[w[1]], w[2], worker[w].stage>> /\ worker[w].stage \in Ordinals
      /\ Unrecorded(At(w)) /\ run[w[1]] \in RunIds /\ w[2] \in Groups
  BY <1>1, <1>3, StageIsUnrecorded DEF Live
<1>5. ASSUME NEW o \in {"failed", "cancelled"}, RecordFailure(At(w), KeyAt(w)),
             Go(w, [worker[w] EXCEPT !.pc = "close", !.outcome = o])
      PROVE  Moves(w)
  <2> DEFINE next == [worker[w] EXCEPT !.pc = "close", !.outcome = o]
  <2>1. /\ next \in Workers /\ next.pc = "close" /\ next.stage = worker[w].stage
        /\ next.outcome # "error"
    BY WorkerTypes DEF Workers, Pcs
  <2>2. Go(w, next)
    BY <1>5
  <2> HIDE DEF next
  <2>3. StoreNext
    BY <1>1, <1>3, <1>4, <1>5, StageWriteIsOwn DEF StageWrite
  <2>4. Local(run[w[1]], w[2])
    BY <1>2, <1>4, <1>5, StageWrites
  <2> QED  BY <1>1, <1>2, <2>1, <2>2, <2>3, <2>4, CloseMoves
<1>6. CASE UNCHANGED storeVars /\ Abort(w)
  BY <1>1, <1>2, <1>6, IdleWrites, AbortMoves
<1> QED  BY <1>5, <1>6 DEF FailStage

LEMMA FinishStageMoves ==
  ASSUME RunInv, NEW w \in Team, FinishStage(w)
  PROVE  Moves(w) /\ recorded' \in [Execs -> Nat]
<1> DEFINE e == w[1]
           keep(f) == Retention[Pipe(e)][worker[w].stage] # "never"
                        /\ Fits(e, FreshBytes(Stage(w), f))
<1>1. Live(w) /\ worker[w].pc = "process" /\ worker[w].pc \in Recording
  BY ReadyIsLive DEF FinishStage, Ready, Recording, Pcs
<1>2. UNCHANGED <<mode, run, owner, cancel, verdict>> /\ StoreTypeOK
  BY DEF FinishStage, RunInv, TypeOK
<1>3. /\ worker[w].stage <= LastStage(Pipe(e)) /\ worker[w].outcome # "error"
      /\ worker[w].stage \in Nat /\ worker[w].frame \in Frames
  BY <1>1, WorkerTypes DEF Placed, AtStage
<1>4. /\ At(w) = <<run[e], w[2], worker[w].stage>> /\ worker[w].stage \in Ordinals
      /\ Unrecorded(At(w)) /\ run[e] \in RunIds /\ w[2] \in Groups /\ Stage(w) \in Kinds
  BY <1>1, <1>3, StageIsUnrecorded, StageTypes DEF Live, RunInv
<1>5. PICK f \in Applied(Stage(w), worker[w].frame) :
        LET bytes == FreshBytes(Stage(w), f) IN
        /\ recorded' = IF keep(f) /\ Job[e].cap # Unlimited
                       THEN [recorded EXCEPT ![e] = @ + bytes] ELSE recorded
        /\ IF CanRecord(w, f, keep(f))
           THEN /\ RecordOutput(At(w), f.content, KeyAt(w), keep(f), Publishes(w, keep(f)))
                /\ Go(w, IF keep(f) THEN [worker[w] EXCEPT !.pc = "rebuild", !.frame = f]
                                    ELSE PastStage(w, f))
           ELSE UNCHANGED storeVars /\ Abort(w)
  BY DEF FinishStage
<1>6. f \in Frames /\ FreshBytes(Stage(w), f) \in Nat
  BY <1>3, <1>4, AppliedTypes
<1>7. recorded' \in [Execs -> Nat]
  BY <1>1, <1>5, <1>6 DEF RunInv, TypeOK, Live
<1>8. keep(f) \in BOOLEAN /\ f.content \in Contents \cup {NoContent}
  BY <1>6 DEF Frames, Fits
<1>9. CASE CanRecord(w, f, keep(f))
  <2> DEFINE pub == Publishes(w, keep(f))
  <2>1. RecordOutput(At(w), f.content, KeyAt(w), keep(f), pub)
    BY <1>5, <1>9
  <2>2. pub \in BOOLEAN /\ (pub => MayPublish(At(w), keep(f)))
    <3>1. RetentionAt(run[e], worker[w].stage) = Retention[Pipe(e)][worker[w].stage]
      BY <1>1 DEF RetentionAt, Live
    <3> QED  BY <1>4, <1>8, <3>1 DEF Publishes, MayPublish
  <2>3. OnlyPlace(At(w)) /\ Local(run[e], w[2])
    BY <1>2, <1>4, <2>1, StageWrites
  <2>4. StageWrite(At(w), KeyAt(w))
    BY <1>4, <1>8, <2>1, <2>2 DEF StageWrite
  <2>5. StoreNext
    BY <1>1, <1>3, <2>4, StageWriteIsOwn
  <2>6. \A o \in Ordinals : o > worker[w].stage => runStage'[<<run[e], w[2], o>>] = NoStageRow
    <3> SUFFICES ASSUME NEW o \in Ordinals, o > worker[w].stage
                 PROVE  runStage'[<<run[e], w[2], o>>] = NoStageRow
      OBVIOUS
    <3>1. o # worker[w].stage /\ o >= worker[w].stage
      BY <1>3, StoreAssumption
    <3>2. <<run[e], w[2], o>> \in Places /\ <<run[e], w[2], o>> # At(w)
      BY <1>4, <3>1 DEF Places
    <3>3. Unrecorded(<<run[e], w[2], o>>)
      BY <1>1, <3>1, StillAhead
    <3> QED  BY <2>3, <3>2, <3>3 DEF OnlyPlace, Unrecorded
  <2> HIDE DEF keep, pub
  <2>7. CASE keep(f)
    <3> DEFINE next == [worker[w] EXCEPT !.pc = "rebuild", !.frame = f]
    <3>1. /\ next \in Workers /\ next.pc = "rebuild" /\ next.stage = worker[w].stage
          /\ next.outcome = worker[w].outcome
      BY <1>6, WorkerTypes DEF Workers, Pcs
    <3>2. Go(w, next)
      BY <1>5, <1>9, <2>7
    <3>3. worker[w].stage <= LastStage(Pipe(e)) + 1
      BY WorkerTypes DEF Placed
    <3> HIDE DEF next
    <3>4. \A o \in Ordinals : o > next.stage => runStage'[<<run[w[1]], w[2], o>>] = NoStageRow
      BY <2>6, <3>1
    <3>5. /\ next.pc # "waiting" /\ next.pc \notin {"assess", "sweep", "recall", "copy", "source"}
          /\ next.pc \notin Recording
      BY <3>1 DEF Recording
    <3>6. Live(w) /\ [StoreNext]_storeVars /\ Local(run[w[1]], w[2])
          /\ UNCHANGED <<mode, run, owner, cancel, verdict>>
      BY <1>1, <1>2, <2>3, <2>5
    <3>7. next.outcome # "error" /\ next.stage <= LastStage(Pipe(w[1])) + 1
          /\ next.stage <= LastStage(Pipe(w[1]))
      BY <1>3, <3>1, <3>3
    <3> QED  BY <1>7, <3>1, <3>2, <3>4, <3>5, <3>6, <3>7, GoMoves
  <2>8. CASE ~keep(f)
    <3>1. Go(w, PastStage(w, f))
      BY <1>5, <1>9, <2>8
    <3>2. Live(w) /\ [StoreNext]_storeVars /\ Local(run[w[1]], w[2])
          /\ UNCHANGED <<mode, run, owner, cancel, verdict>>
      BY <1>1, <1>2, <2>3, <2>5
    <3> QED  BY <1>3, <1>6, <1>7, <2>6, <3>1, <3>2, PastStageMoves
  <2> QED  BY <1>7, <2>7, <2>8
<1>10. CASE ~CanRecord(w, f, keep(f))
  <2>1. UNCHANGED storeVars /\ Abort(w)
    BY <1>5, <1>10
  <2> QED  BY <1>1, <1>2, <1>7, <2>1, IdleWrites, AbortMoves
<1> QED  BY <1>9, <1>10

LEMMA AssessMoves ==
  ASSUME RunInv, NEW w \in Team, Assess(w)
  PROVE  Moves(w)
<1>1. Live(w) /\ worker[w].pc = "assess"
  BY ReadyIsLive DEF Assess, Ready
<1>2. /\ UNCHANGED storeVars /\ UNCHANGED <<mode, run, owner, cancel, verdict>>
      /\ Local(run[w[1]], w[2]) /\ [StoreNext]_storeVars
  BY IdleWrites DEF Assess, OnlyWorker, SameExec
<1>3. /\ worker[w].outcome # "error" /\ worker[w].stage <= LastStage(Pipe(w[1])) + 1
      /\ worker[w].stage > LastStage(Pipe(w[1]))
      /\ \A o \in Ordinals : o >= worker[w].stage =>
           runStage'[<<run[w[1]], w[2], o>>] = NoStageRow
  BY <1>1, <1>2, StillAhead, WorkerTypes DEF Recording, Pcs, storeVars, Unrecorded, Placed
<1>4. CASE Go(w, [worker[w] EXCEPT !.pc = "sweep"])
  <2> DEFINE next == [worker[w] EXCEPT !.pc = "sweep"]
  <2>1. /\ next \in Workers /\ next.pc = "sweep" /\ next.stage = worker[w].stage
        /\ next.outcome = worker[w].outcome
    BY WorkerTypes DEF Workers, Pcs
  <2>2. Go(w, next)
    BY <1>4
  <2> HIDE DEF next
  <2> QED  BY <1>1, <1>2, <1>3, <2>1, <2>2, GoMoves DEF AtStage
<1>5. CASE Go(w, [worker[w] EXCEPT !.pc = "close", !.outcome = "failed"])
  <2> DEFINE next == [worker[w] EXCEPT !.pc = "close", !.outcome = "failed"]
  <2>1. /\ next \in Workers /\ next.pc = "close" /\ next.stage = worker[w].stage
        /\ next.outcome # "error"
    BY WorkerTypes DEF Workers, Pcs
  <2>2. Go(w, next)
    BY <1>5
  <2> HIDE DEF next
  <2> QED  BY <1>1, <1>2, <2>1, <2>2, CloseMoves
<1>6. CASE Abort(w)
  BY <1>1, <1>2, <1>6, AbortMoves
<1> QED  BY <1>4, <1>5, <1>6 DEF Assess

\* The stages a worker sweeps are those the store would let it: a pipeline has
\* no rows at ordinals where it has no stage.
LEMMA SweepIsProvisional ==
  ASSUME RunInv, NEW w \in Team, Live(w), worker[w].pc = "sweep",
         ForgetSamples(run[w[1]], w[2], Provision(Pipe(w[1])))
  PROVE  ForgetSamples(run[w[1]], w[2], Provisional(run[w[1]]))
<1> DEFINE r == run[w[1]]
           g == w[2]
           p == Pipe(w[1])
<1>1. /\ p \in Pipelines /\ r \in RunIds /\ g \in Groups
      /\ worker[w].stage = LastStage(p) + 1 /\ LastStage(p) \in Int
      /\ DOMAIN KindAt[p] = 0 .. LastStage(p)
  BY StagesAreCounted, WorkerTypes DEF Live, Placed
<1>2. Provisional(r) = {o \in Ordinals : Retention[p][o] = "on_failure"}
  BY DEF Provisional, RetentionAt, Live
<1>3. Provision(p) \subseteq Provisional(r)
  BY <1>1, <1>2, SchedulerAssumption DEF Provision
<1>4. \A o \in Provisional(r) \ Provision(p) : <<r, g, o>> \notin kept
  <2> TAKE o \in Provisional(r) \ Provision(p)
  <2>1. o \in Ordinals /\ o \notin DOMAIN KindAt[p] /\ o \in Nat
    BY <1>1, <1>2, StoreAssumption DEF Provision
  <2>2. o >= worker[w].stage
    BY <1>1, <2>1
  <2>3. Unrecorded(<<r, g, o>>) /\ <<r, g, o>> \in Places
    BY <1>1, <2>1, <2>2, StillAhead DEF Places, Recording, Pcs
  <2> QED  BY <2>3 DEF RunInv, RowsHaveRuns, Unrecorded
<1>5. \A q \in kept : q[1] = r /\ q[2] = g =>
        (q[3] \in Provision(p) <=> q[3] \in Provisional(r))
  <2> SUFFICES ASSUME NEW q \in kept, q[1] = r, q[2] = g,
                      q[3] \in Provisional(r), q[3] \notin Provision(p)
               PROVE  FALSE
    BY <1>3
  <2>1. q = <<r, g, q[3]>>
    BY DEF RunInv, TypeOK, StoreTypeOK, AllPlaces
  <2> QED  BY <1>4, <2>1
<1> HIDE DEF r, g, p
<1>6. {q \in kept : q[1] = r /\ q[2] = g /\ q[3] \in Provision(p)}
        = {q \in kept : q[1] = r /\ q[2] = g /\ q[3] \in Provisional(r)}
  BY <1>5
<1>7. ForgetSamples(r, g, Provision(p)) => ForgetSamples(r, g, Provisional(r))
  BY <1>6 DEF ForgetSamples
<1> QED  BY <1>7 DEF r, g, p

LEMMA SweepMoves ==
  ASSUME RunInv, NEW w \in Team, Sweep(w)
  PROVE  Moves(w)
<1> DEFINE next == [worker[w] EXCEPT !.pc = "close"]
<1>1. Live(w) /\ worker[w].pc = "sweep" /\ Go(w, next)
  BY ReadyIsLive DEF Sweep, Ready
<1>2. /\ UNCHANGED <<mode, run, owner, cancel, verdict>>
      /\ ForgetSamples(run[w[1]], w[2], Provision(Pipe(w[1])))
  BY DEF Sweep, SameExec
<1>3. run[w[1]] \in RunIds /\ w[2] \in Groups
  BY <1>1 DEF Live
<1>4. Local(run[w[1]], w[2])
  BY <1>2, <1>3, SweepWrites
<1>5. StoreNext
  <2>1. ForgetSamples(run[w[1]], w[2], Provisional(run[w[1]]))
    BY <1>1, <1>2, SweepIsProvisional
  <2>2. RunWrite(run[w[1]])
    BY <1>3, <2>1 DEF RunWrite
  <2> QED  BY <1>3, <2>2 DEF StoreNext
<1>6. /\ next \in Workers /\ next.pc = "close" /\ next.stage = worker[w].stage
      /\ next.outcome = worker[w].outcome /\ worker[w].outcome # "error"
  BY <1>1, WorkerTypes DEF Workers, Pcs, Placed
<1> HIDE DEF next
<1> QED  BY <1>1, <1>2, <1>4, <1>5, <1>6, CloseMoves

LEMMA CloseGroupMoves ==
  ASSUME RunInv, NEW w \in Team, CloseGroup(w)
  PROVE  Moves(w)
<1>1. Live(w) /\ worker[w].pc = "close"
  BY ReadyIsLive DEF CloseGroup, Ready
<1>2. UNCHANGED <<mode, run, owner, cancel, verdict>> /\ StoreTypeOK
  BY DEF CloseGroup, SameExec, RunInv, TypeOK
<1>3. /\ worker[w].outcome # "error" /\ worker[w].outcome \in RunStatus
      /\ run[w[1]] \in RunIds /\ w[2] \in Groups
  BY <1>1, WorkerTypes DEF Placed, Workers, RunStatus, Live
<1>4. CASE RecordGroup(run[w[1]], w[2], worker[w].outcome)
           /\ Go(w, [worker[w] EXCEPT !.pc = "settled"])
  <2> DEFINE next == [worker[w] EXCEPT !.pc = "settled"]
  <2>1. /\ next \in Workers /\ next.pc = "settled" /\ next.stage = worker[w].stage
        /\ next.outcome = worker[w].outcome
    BY WorkerTypes DEF Workers, Pcs
  <2>2. Go(w, next)
    BY <1>4
  <2> HIDE DEF next
  <2>3. Local(run[w[1]], w[2])
    BY <1>2, <1>3, <1>4, GroupWrites
  <2>4. RunWrite(run[w[1]])
    BY <1>3, <1>4 DEF RunWrite
  <2>5. StoreNext
    BY <1>3, <2>4 DEF StoreNext
  <2> QED  BY <1>1, <1>2, <1>3, <2>1, <2>2, <2>3, <2>5, CloseMoves
<1>5. CASE UNCHANGED storeVars /\ Abort(w)
  BY <1>1, <1>2, <1>5, IdleWrites, AbortMoves
<1> QED  BY <1>4, <1>5 DEF CloseGroup

LEMMA JobFailsMoves ==
  ASSUME RunInv, NEW w \in Team, JobFails(w)
  PROVE  Moves(w)
<1>1. mode[w[1]] = "groups" /\ worker[w].pc # "waiting" /\ worker[w].pc # "settled"
  BY DEF JobFails
<1>2. Live(w)
  <2>1. w[1] \in Execs /\ w[2] \in Groups /\ w = <<w[1], w[2]>>
    BY DEF Team
  <2>2. Owned(w[1]) /\ Placed(w)
    BY <2>1 DEF RunInv, Discipline
  <2> QED
    BY <1>1, <2>1, <2>2, JobTypes DEF Live, Owned, Placed, Running, Exists, RunIds, NoRun
<1>3. UNCHANGED <<mode, run, owner, cancel, verdict>> /\ StoreTypeOK /\ Abort(w)
      /\ run[w[1]] \in RunIds /\ w[2] \in Groups
  BY <1>2 DEF JobFails, RunInv, TypeOK, Live
<1>4. CASE UNCHANGED storeVars
  BY <1>2, <1>3, <1>4, IdleWrites, AbortMoves
<1>5. CASE RecordSourceRefused(run[w[1]], w[2])
  <2>1. Local(run[w[1]], w[2])
    BY <1>3, <1>5, SourceWrites
  <2>2. RunWrite(run[w[1]])
    BY <1>3, <1>5 DEF RunWrite
  <2>3. StoreNext
    BY <1>3, <2>2 DEF StoreNext
  <2> QED  BY <1>2, <1>3, <2>1, <2>3, AbortMoves
<1> QED  BY <1>4, <1>5 DEF JobFails

\* A step of a worker, whichever it is.
LEMMA WorkerMoves ==
  ASSUME RunInv, NEW w \in Team, WorkerStep(w) \/ JobFails(w)
  PROVE  Moves(w) /\ recorded' \in [Execs -> Nat] /\ faults' \in 0 .. MaxFaults
<1>1. Moves(w)
  BY StartGroupMoves, StoreSourceMoves, OpenGroupMoves, BeginStageMoves, RecallMoves, CopyMoves,
     ForgetStaleMoves, RebuildMoves, FailStageMoves, FinishStageMoves, AssessMoves, SweepMoves,
     CloseGroupMoves, JobFailsMoves DEF WorkerStep
<1>2. recorded' \in [Execs -> Nat]
  <2>1. CASE FinishStage(w)
    BY <2>1, FinishStageMoves
  <2>2. CASE ~FinishStage(w)
    <3>1. recorded' = recorded
      BY <2>2 DEF WorkerStep, StartGroup, StoreSource, OpenGroup, BeginStage, Recall, Copy,
         ForgetStale, Rebuild, FailStage, Assess, Sweep, CloseGroup, JobFails, OnlyWorker, SameExec
    <3> QED  BY <3>1 DEF RunInv, TypeOK
  <2> QED  BY <2>1, <2>2
<1>3. faults' \in 0 .. MaxFaults
  <2>1. CASE JobFails(w)
    BY <2>1, SchedulerAssumption DEF JobFails, RunInv, TypeOK
  <2>2. CASE ~JobFails(w)
    <3>1. faults' = faults
      BY <2>2 DEF WorkerStep, StartGroup, StoreSource, OpenGroup, BeginStage, Recall, Copy,
         ForgetStale, Rebuild, FailStage, FinishStage, Assess, Sweep, CloseGroup, OnlyWorker, SameExec
    <3> QED  BY <3>1 DEF RunInv, TypeOK
  <2> QED  BY <2>1, <2>2
<1> QED  BY <1>1, <1>2, <1>3

-----------------------------------------------------------------------------
(* The invariant is kept *)

LEMMA WorkerKeeps ==
  ASSUME RunInv, NEW w \in Team, Moves(w),
         recorded' \in [Execs -> Nat], faults' \in 0 .. MaxFaults
  PROVE  RunInv'
<1> USE DEF RunInv
<1>1. Live(w) /\ StoreTypeOK /\ [StoreNext]_storeVars
      /\ UNCHANGED <<mode, run, owner, cancel, verdict, status, pipeline>>
  BY DEF Moves, Local, TypeOK
<1>2. StoreTypeOK' /\ RowsHaveRuns'
  BY <1>1, StoreTypeStep, RowsStep
<1>3. TypeOK'
  BY <1>1, <1>2 DEF TypeOK, Moves
<1>4. ASSUME NEW e \in Execs PROVE Owned(e)'
  <2>1. Owned(e)
    BY DEF Discipline
  <2>2. CASE e = w[1]
    BY <1>1, <2>1, <2>2 DEF Owned, Live
  <2>3. CASE e # w[1]
    <3>1. \A g \in Job[e].groups : <<e, g>> \in Team /\ <<e, g>> # w
      BY <2>3, JobTypes DEF Team
    <3>2. AllSettled(e) => AllSettled(e)'
      BY <3>1 DEF AllSettled, Moves
    <3> QED  BY <1>1, <2>1, <3>2 DEF Owned
  <2> QED  BY <2>2, <2>3
<1>5. ASSUME NEW v \in Team PROVE Placed(v)' /\ Ahead(v)'
  <2>1. CASE v = w
    BY <2>1 DEF Moves
  <2>2. CASE v # w
    <3>1. worker'[v] = worker[v] /\ Placed(v) /\ Ahead(v) /\ Owned(v[1])
          /\ v[1] \in Execs /\ v[2] \in Groups /\ v = <<v[1], v[2]>>
      BY <2>2 DEF Moves, Discipline, Team
    <3>2. Placed(v)'
      BY <1>1, <3>1 DEF Placed
    <3>3. ASSUME mode[v[1]] = "groups"
          PROVE  /\ run[v[1]] \in RunIds
                 /\ ~(run[v[1]] = run[w[1]] /\ v[2] = w[2])
      BY <1>1, <2>2, <3>1, <3>3 DEF Owned, Running, Live
    <3>4. ASSUME mode[v[1]] = "groups", NEW o \in Ordinals
          PROVE  runStage'[<<run[v[1]], v[2], o>>] = runStage[<<run[v[1]], v[2], o>>]
      <4>1. <<run[v[1]], v[2], o>> \in Places
        BY <3>1, <3>3, <3>4 DEF Places
      <4> QED  BY <3>3, <3>4, <4>1 DEF Moves, Local
    <3>5. ASSUME mode[v[1]] = "groups"
          PROVE  runSignal'[<<run[v[1]], v[2], SourceStage>>]
                   = runSignal[<<run[v[1]], v[2], SourceStage>>]
      <4>1. <<run[v[1]], v[2], SourceStage>> \in AllPlaces
        BY <3>1, <3>3, <3>5 DEF AllPlaces
      <4> QED  BY <3>3, <3>5, <4>1 DEF Moves, Local
    <3>6. Ahead(v)'
      BY <1>1, <3>1, <3>4, <3>5 DEF Ahead, Unrecorded
    <3> QED  BY <3>2, <3>6
  <2> QED  BY <2>1, <2>2
<1> QED  BY <1>2, <1>3, <1>4, <1>5 DEF Discipline

LEMMA RunsHaveIds == NoRun \notin RunIds
BY DEF NoRun, RunIds

\* What an execution does with the store but begin its run.
LEMMA ExecKeeps ==
  ASSUME RunInv, NEW e \in Execs,
         Tally(e) \/ RecordRunArtifacts(e) \/ Decide(e) \/ Finish(e) \/ RunFails(e) \/ Cancel(e)
           \/ Kill(e)
  PROVE  [StoreNext]_storeVars /\ RunInv'
<1> USE DEF RunInv, SameWorkers, Enter
<1>1. Owned(e) /\ TypeOK /\ StoreTypeOK /\ e \in DOMAIN mode
  BY DEF Discipline, TypeOK
<1>2. UNCHANGED <<run, owner, worker>>
      /\ \A d \in Execs : d # e => mode'[d] = mode[d] /\ verdict'[d] = verdict[d]
  BY <1>1 DEF Tally, RecordRunArtifacts, Decide, Finish, RunFails, Cancel, Kill, TypeOK
<1>3. \/ UNCHANGED storeVars
      \/ /\ mode[e] = "finish" /\ mode'[e] = "done" /\ run[e] \in RunIds
         /\ verdict[e] \in RunStatus \ {"running"} /\ FinishRun(run[e], verdict[e])
  BY <1>1
  DEF Tally, RecordRunArtifacts, Decide, Finish, RunFails, Cancel, Kill, Owned, Running, TypeOK
<1>4. [StoreNext]_storeVars
  BY <1>3 DEF StoreNext, RunWrite
<1>5. StoreTypeOK' /\ RowsHaveRuns'
  BY <1>1, <1>4, StoreTypeStep, RowsStep
<1>6. UNCHANGED <<pipeline, runStage, runSignal>>
      /\ \A r \in RunIds : status'[r] = status[r] \/ (mode[e] = "finish" /\ r = run[e])
  <2>1. CASE UNCHANGED storeVars
    BY <2>1 DEF storeVars
  <2>2. CASE mode[e] = "finish" /\ run[e] \in RunIds /\ FinishRun(run[e], verdict[e])
    BY <1>1, <2>2 DEF FinishRun, StoreTypeOK
  <2> QED  BY <1>3, <2>1, <2>2
<1>7. TypeOK'
  <2>1. /\ mode' \in [Execs -> {"idle", "groups", "artifacts", "status", "finish", "done", "dead"}]
        /\ cancel' \in [Execs -> BOOLEAN]
    BY <1>1
    DEF Tally, RecordRunArtifacts, Decide, Finish, RunFails, Cancel, Kill, TypeOK
  <2>2. verdict' \in [Execs -> RunStatus]
    BY <1>1
    DEF Tally, RecordRunArtifacts, Decide, Finish, RunFails, Cancel, Kill, TypeOK, RunStatus
  <2>3. recorded' = recorded /\ faults' \in 0 .. MaxFaults
    BY <1>1, SchedulerAssumption
    DEF Tally, RecordRunArtifacts, Decide, Finish, RunFails, Cancel, Kill, TypeOK
  <2> QED  BY <1>1, <1>2, <1>5, <2>1, <2>2, <2>3 DEF TypeOK
<1>8. ASSUME NEW d \in Execs PROVE Owned(d)'
  <2>1. Owned(d) /\ (AllSettled(d)' <=> AllSettled(d))
    BY <1>2 DEF Discipline, AllSettled
  <2>2. CASE d = e
    <3>1. CASE mode'[e] \in {"done", "dead"}
      <4>1. mode[e] \in {"artifacts", "finish"} \/ mode'[e] = "dead" \/ run[e] = NoRun
        BY <1>1, <3>1 DEF Tally, RecordRunArtifacts, Decide, Finish, RunFails, Cancel, Kill,
           TypeOK, Owned
      <4> QED  BY <1>2, <2>1, <2>2, <3>1, <4>1 DEF Owned, Running
    <3>2. CASE mode'[e] \notin {"done", "dead"}
      <4>1. /\ mode[e] \in Running /\ mode'[e] \in Running
            /\ mode'[e] # "groups" => AllSettled(e)
            /\ mode'[e] = "finish" => verdict'[e] # "running"
        <5>1. ~(Finish(e) \/ RunFails(e) \/ Kill(e))
          BY <1>1, <3>2 DEF Finish, RunFails, Kill, TypeOK
        <5>2. CASE Tally(e)
          BY <1>1, <5>2 DEF Tally, Running, TypeOK
        <5>3. CASE RecordRunArtifacts(e)
          BY <1>1, <1>7, <3>2, <5>3, RunsHaveIds DEF RecordRunArtifacts, Running, TypeOK, Owned
        <5>4. CASE Decide(e)
          BY <1>1, <1>7, <5>4, RunsHaveIds DEF Decide, Running, TypeOK, Owned
        <5>5. CASE Cancel(e)
          BY <1>1, <5>5, RunsHaveIds DEF Cancel, Running, TypeOK, Owned
        <5> QED  BY <5>1, <5>2, <5>3, <5>4, <5>5
      <4>2. UNCHANGED status
        BY <1>3, <3>2 DEF storeVars
      <4> QED  BY <1>2, <1>6, <2>1, <2>2, <3>2, <4>1, <4>2 DEF Owned, Running
    <3> QED  BY <3>1, <3>2
  <2>3. CASE d # e
    <3>1. mode[d] \in Running /\ mode[e] = "finish" => run[d] # run[e]
      BY <1>1, <2>1, <2>3 DEF Owned, Running
    <3> QED  BY <1>2, <1>6, <2>1, <2>3, <3>1 DEF Owned, Running
  <2> QED  BY <2>2, <2>3
<1>9. ASSUME NEW v \in Team PROVE Placed(v)' /\ Ahead(v)'
  <2>1. Placed(v) /\ Ahead(v) /\ v[1] \in Execs
    BY DEF Discipline, Team
  <2>2. mode'[v[1]] = "groups" => mode[v[1]] = "groups"
    BY <1>1, <1>2, <2>1
    DEF Tally, RecordRunArtifacts, Decide, Finish, RunFails, Cancel, Kill, TypeOK
  <2> QED  BY <1>2, <1>6, <2>1, <2>2 DEF Placed, Ahead, Unrecorded
<1> QED  BY <1>4, <1>5, <1>7, <1>8, <1>9 DEF Discipline

LEMMA BeginKeeps ==
  ASSUME RunInv, NEW e \in Execs, Begin(e)
  PROVE  [StoreNext]_storeVars /\ RunInv'
<1> USE DEF RunInv
<1>1. PICK r \in RunIds : /\ BeginRun(r, Pipe(e))
                          /\ run' = [run EXCEPT ![e] = r]
                          /\ owner' = [owner EXCEPT ![r] = e]
  BY DEF Begin
<1>2. /\ mode[e] = "idle" /\ mode' = [mode EXCEPT ![e] = "groups"]
      /\ UNCHANGED <<cancel, recorded, verdict, worker, faults>>
      /\ TypeOK /\ StoreTypeOK /\ Owned(e) /\ Pipe(e) \in Pipelines
  BY JobTypes DEF Begin, Enter, TypeOK, Discipline
<1>3. [StoreNext]_storeVars
  BY <1>1, <1>2 DEF StoreNext
<1>4. StoreTypeOK' /\ RowsHaveRuns'
  BY <1>2, <1>3, StoreTypeStep, RowsStep
<1>5. TypeOK'
  BY <1>1, <1>2, <1>4 DEF TypeOK
<1>6. /\ ~Exists(r) /\ r # NoRun /\ status[r] = "absent"
      /\ status' = [status EXCEPT ![r] = "running"]
      /\ pipeline' = [pipeline EXCEPT ![r] = Pipe(e)]
      /\ UNCHANGED <<runStage, runSignal>>
  BY <1>1 DEF BeginRun, IsNextRunId, RunIds, NoRun, Exists
<1>7. ASSUME NEW d \in Execs PROVE Owned(d)'
  <2>1. Owned(d) /\ (AllSettled(d)' <=> AllSettled(d))
    BY <1>2 DEF Discipline, AllSettled
  <2>2. CASE d = e
    BY <1>1, <1>2, <1>6, <2>2 DEF Owned, TypeOK, StoreTypeOK
  <2>3. CASE d # e
    <3>1. mode'[d] = mode[d] /\ run'[d] = run[d]
      BY <1>1, <1>2, <2>3 DEF TypeOK
    <3>2. mode[d] \in Running => run[d] # r
      BY <1>6, <2>1 DEF Owned
    <3> QED  BY <1>1, <1>2, <1>6, <2>1, <3>1, <3>2 DEF Owned, TypeOK, StoreTypeOK
  <2> QED  BY <2>2, <2>3
<1>8. ASSUME NEW v \in Team PROVE Placed(v)' /\ Ahead(v)'
  <2>1. /\ Placed(v) /\ Ahead(v) /\ v[1] \in Execs /\ v[2] \in Groups
        /\ worker[v].stage \in Nat
    BY WorkerTypes DEF Discipline, Team
  <2>2. CASE v[1] = e
    <3>1. worker[v].pc = "waiting" /\ run'[v[1]] = r
      BY <1>1, <1>2, <2>1, <2>2 DEF Owned, Placed, TypeOK
    <3>2. \A o \in Ordinals : runStage[<<r, v[2], o>>] = NoStageRow
      <4> TAKE o \in Ordinals
      <4>1. <<r, v[2], o>> \in Places
        BY <2>1 DEF Places
      <4> QED  BY <1>6, <4>1 DEF RowsHaveRuns
    <3>3. runSignal[<<r, v[2], SourceStage>>] = NoContent
      <4>1. <<r, v[2], SourceStage>> \in AllPlaces
        BY <2>1 DEF AllPlaces
      <4> QED  BY <1>6, <4>1 DEF RowsHaveRuns
    <3>4. Placed(v)'
      BY <1>2, <1>6, <2>1, <3>1 DEF Placed
    <3>5. Ahead(v)'
      BY <1>2, <1>6, <3>1, <3>2, <3>3 DEF Ahead, Unrecorded
    <3> QED  BY <3>4, <3>5
  <2>3. CASE v[1] # e
    <3>1. mode'[v[1]] = mode[v[1]] /\ run'[v[1]] = run[v[1]]
      BY <1>1, <1>2, <2>1, <2>3 DEF TypeOK
    <3> QED  BY <1>2, <1>6, <2>1, <3>1 DEF Placed, Ahead, Unrecorded
  <2> QED  BY <2>2, <2>3
<1> QED  BY <1>3, <1>4, <1>5, <1>7, <1>8 DEF Discipline

\* Deletions take rows of runs that are not in flight, and nothing else.
LEMMA RemoveSpares ==
  ASSUME StoreTypeOK, NEW rs \in SUBSET RunIds, Remove(rs)
  PROVE  /\ \A r \in RunIds \ rs : status'[r] = status[r] /\ pipeline'[r] = pipeline[r]
         /\ \A r \in rs : status'[r] = "absent"
         /\ \A p \in AllPlaces : p[1] \notin rs =>
              runSignal'[p] = runSignal[p] /\ (p \in kept' <=> p \in kept)
         /\ \A p \in AllPlaces : p[1] \in rs => runSignal'[p] = NoContent
         /\ \A p \in Places : runStage'[p] = IF p[1] \in rs THEN NoStageRow ELSE runStage[p]
         /\ \A rg \in RunIds \X Groups : rg[1] \notin rs => runGroup'[rg] = runGroup[rg]
BY DEF Remove, StoreTypeOK

\* What maintenance leaves of the runs that stay, and of those it takes.
Spares ==
  /\ \A r \in RunIds : /\ status[r] = "running" => status'[r] = "running"
                       /\ status'[r] \in {status[r], "absent"}
                       /\ status'[r] # "absent" => pipeline'[r] = pipeline[r]
  /\ \A p \in AllPlaces :
       /\ runSignal'[p] \in {runSignal[p], NoContent}
       /\ status'[p[1]] # "absent" =>
            runSignal'[p] = runSignal[p] /\ (p \in kept' <=> p \in kept)
  /\ \A p \in Places :
       /\ runStage'[p] \in {runStage[p], NoStageRow}
       /\ status'[p[1]] # "absent" => runStage'[p] = runStage[p]
  /\ \A rg \in RunIds \X Groups :
       status'[rg[1]] # "absent" =>
         runGroup'[rg] = runGroup[rg] \/ (runGroup'[rg] = "none" /\ rg[2] \notin library')
  /\ library' \subseteq library
  /\ "remove" \notin Upkeep =>
       /\ library' = library
       /\ \A rg \in RunIds \X Groups :
            status'[rg[1]] # "absent" => runGroup'[rg] = runGroup[rg]

LEMMA MaintainSpares ==
  ASSUME NoneLive, RunInv, Maintain
  PROVE  [StoreNext]_storeVars /\ Spares
<1>1. StoreTypeOK
  BY DEF RunInv, TypeOK
<1>2. ASSUME NEW rs \in SUBSET RunIds, Remove(rs), \A r \in rs : status[r] # "running"
      PROVE  Spares
  <2>1. \A p \in AllPlaces : p[1] \in RunIds
    BY DEF AllPlaces
  <2>2. \A rg \in RunIds \X Groups : rg[1] \in RunIds
    OBVIOUS
  <2>3. \A p \in Places : p[1] \in RunIds /\ p \in AllPlaces
    BY PlacesAreAllPlaces DEF Places
  <2>4. library' = library
    BY <1>2 DEF Remove
  <2>5. \A rg \in RunIds \X Groups :
          status'[rg[1]] # "absent" => runGroup'[rg] = runGroup[rg]
    BY <1>1, <1>2, <2>2, RemoveSpares
  <2>6. \A p \in AllPlaces :
          /\ runSignal'[p] \in {runSignal[p], NoContent}
          /\ status'[p[1]] # "absent" =>
               runSignal'[p] = runSignal[p] /\ (p \in kept' <=> p \in kept)
    BY <1>1, <1>2, <2>1, RemoveSpares
  <2>7. \A p \in Places :
          /\ runStage'[p] \in {runStage[p], NoStageRow}
          /\ status'[p[1]] # "absent" => runStage'[p] = runStage[p]
    BY <1>1, <1>2, <2>3, RemoveSpares
  <2>8. \A r \in RunIds : /\ status[r] = "running" => status'[r] = "running"
                          /\ status'[r] \in {status[r], "absent"}
                          /\ status'[r] # "absent" => pipeline'[r] = pipeline[r]
    BY <1>1, <1>2, RemoveSpares
  <2> QED  BY <2>4, <2>5, <2>6, <2>7, <2>8 DEF Spares
<1>3. ASSUME UNCHANGED <<status, pipeline, runGroup, runStage, runSignal, kept, library>>
      PROVE  Spares
  BY <1>3 DEF Spares
<1>4. ASSUME NEW r \in RunIds, status[r] # "running", DeleteRun(r)
      PROVE  StoreNext /\ Spares
  BY <1>2, <1>4 DEF DeleteRun, StoreNext
<1>5. ASSUME NEW p \in Pipelines, NEW keep \in Keeps, PruneRuns(p, keep)
      PROVE  StoreNext /\ Spares
  <2>1. Doomed(p, keep) \in SUBSET RunIds /\ \A r \in Doomed(p, keep) : status[r] # "running"
    BY DEF Doomed
  <2>2. Spares
    BY <1>2, <1>5, <2>1 DEF PruneRuns
  <2> QED  BY <1>5, <2>2 DEF StoreNext
<1>6. CASE ClearCache
  BY <1>3, <1>6 DEF ClearCache, StoreNext
<1>7. ASSUME NEW n \in Names, NEW r \in RunIds, Promote(n, r)
      PROVE  StoreNext /\ Spares
  BY <1>3, <1>7 DEF Promote, StoreNext
<1>8. ASSUME NEW n \in Names, DeleteBaseline(n)
      PROVE  StoreNext /\ Spares
  BY <1>3, <1>8 DEF DeleteBaseline, StoreNext
<1>9. ASSUME NEW g \in Groups, DeleteGroup(g), "remove" \in Upkeep
      PROVE  StoreNext /\ Spares
  <2>1. /\ UNCHANGED <<status, pipeline, runStage, runSignal, kept>>
        /\ library' = library \ {g}
        /\ \A rg \in RunIds \X Groups :
             runGroup'[rg] = IF rg[2] = g THEN "none" ELSE runGroup[rg]
    BY <1>9 DEF DeleteGroup
  <2>2. \A rg \in RunIds \X Groups :
          runGroup'[rg] = runGroup[rg] \/ (runGroup'[rg] = "none" /\ rg[2] \notin library')
    BY <2>1
  <2>3. Spares
    BY <1>9, <2>1, <2>2 DEF Spares
  <2> QED  BY <1>9, <2>3 DEF StoreNext
<1> QED  BY <1>4, <1>5, <1>6, <1>7, <1>8, <1>9 DEF Maintain, NoneLive

LEMMA MaintainKeeps ==
  ASSUME NoneLive, RunInv, Maintain
  PROVE  [StoreNext]_storeVars /\ RunInv'
<1> USE DEF RunInv
<1>1. [StoreNext]_storeVars /\ Spares /\ UNCHANGED execVars /\ StoreTypeOK
  BY MaintainSpares DEF Maintain, TypeOK
<1>2. StoreTypeOK' /\ RowsHaveRuns'
  BY <1>1, StoreTypeStep, RowsStep
<1>3. TypeOK'
  BY <1>1, <1>2 DEF TypeOK, execVars
<1>4. ASSUME NEW e \in Execs PROVE Owned(e)'
  BY <1>1 DEF Owned, Discipline, Spares, execVars, AllSettled
<1>5. ASSUME NEW v \in Team PROVE Placed(v)' /\ Ahead(v)'
  <2>1. Placed(v) /\ Ahead(v) /\ Owned(v[1]) /\ v[1] \in Execs /\ v[2] \in Groups
    BY DEF Discipline, Team
  <2>2. Placed(v)'
    BY <1>1, <2>1 DEF Placed, execVars
  <2>3. mode[v[1]] = "groups" => run[v[1]] \in RunIds
    BY <2>1 DEF Owned, Running
  <2>4. ASSUME mode[v[1]] = "groups"
        PROVE  /\ runSignal'[<<run[v[1]], v[2], SourceStage>>]
                    \in {runSignal[<<run[v[1]], v[2], SourceStage>>], NoContent}
               /\ \A o \in Ordinals : runStage'[<<run[v[1]], v[2], o>>]
                    \in {runStage[<<run[v[1]], v[2], o>>], NoStageRow}
    <3>1. <<run[v[1]], v[2], SourceStage>> \in AllPlaces
          /\ \A o \in Ordinals : <<run[v[1]], v[2], o>> \in Places
      BY <2>1, <2>3, <2>4 DEF AllPlaces, Places
    <3> QED  BY <1>1, <3>1 DEF Spares
  <2>5. Ahead(v)'
    <3>1. UNCHANGED <<mode, run, worker>>
      BY <1>1 DEF execVars
    <3> QED  BY <2>1, <2>4, <3>1 DEF Ahead, Unrecorded
  <2> QED  BY <2>2, <2>5
<1> QED  BY <1>1, <1>2, <1>3, <1>4, <1>5 DEF Discipline

LEMMA RunInvStep ==
  ASSUME NoneLive, RunInv, [Next]_vars
  PROVE  [StoreNext]_storeVars /\ RunInv'
<1>1. ASSUME NEW w \in Team, WorkerStep(w) \/ JobFails(w)
      PROVE  [StoreNext]_storeVars /\ RunInv'
  <2>1. Moves(w) /\ recorded' \in [Execs -> Nat] /\ faults' \in 0 .. MaxFaults
    BY <1>1, WorkerMoves
  <2> QED  BY <2>1, WorkerKeeps DEF Moves
<1>2. ASSUME NEW e \in Execs, ExecStep(e) \/ RunFails(e) \/ Cancel(e) \/ Kill(e)
      PROVE  [StoreNext]_storeVars /\ RunInv'
  BY <1>2, ExecKeeps, BeginKeeps DEF ExecStep
<1>3. CASE Maintain
  BY <1>3, MaintainKeeps
<1>4. CASE UNCHANGED vars
  <2>1. UNCHANGED <<storeVars, execVars>>
    BY <1>4 DEF vars
  <2>2. StoreTypeOK' /\ RowsHaveRuns'
    BY <2>1, StoreTypeStep, RowsStep DEF RunInv, TypeOK
  <2>3. UNCHANGED <<mode, run, owner, cancel, recorded, verdict, worker, faults,
                    status, pipeline, runStage, runSignal>>
    BY <2>1 DEF storeVars, execVars
  <2>4. TypeOK'
    BY <2>2, <2>3 DEF RunInv, TypeOK
  <2>5. Discipline'
    BY <2>3 DEF RunInv, Discipline, Owned, Placed, Ahead, AllSettled, Unrecorded
  <2> QED  BY <2>1, <2>2, <2>4, <2>5 DEF RunInv
<1> QED  BY <1>1, <1>2, <1>3, <1>4 DEF Next, AllDone

LEMMA RunInvInit ==
  ASSUME Init
  PROVE  RunInv
<1>1. StoreTypeOK /\ RowsHaveRuns
  BY StoreTypeInit, PlacesAreAllPlaces DEF Init, StoreInit, RowsHaveRuns, Exists
<1>2. worker \in [Team -> Workers]
  <2>1. \A w \in Team : FrameOf(Source[w[2]], GroupAttr[w[2]]) \in Frames
    BY StoreAssumption, SchedulerAssumption DEF Team, FrameOf, Frames
  <2> QED  BY <2>1 DEF Init, Workers, Pcs
<1>3. owner \in [RunIds -> Execs]
  BY SchedulerAssumption DEF Init
<1>4. TypeOK
  BY <1>1, <1>2, <1>3, SchedulerAssumption DEF Init, TypeOK, RunStatus
<1>5. \A w \in Team : Placed(w) /\ Ahead(w)
  <2> TAKE w \in Team
  <2>1. LastStage(Pipe(w[1])) \in Int /\ LastStage(Pipe(w[1])) >= -1 /\ w[1] \in Execs
    BY JobTypes, StagesAreCounted DEF Team
  <2>2. /\ worker[w].pc = "waiting" /\ worker[w].stage = 0 /\ worker[w].outcome = "ok"
        /\ mode[w[1]] = "idle"
    BY <2>1 DEF Init
  <2> QED  BY <2>1, <2>2 DEF Placed, Ahead, AtStage
<1>6. \A e \in Execs : Owned(e)
  BY DEF Init, Owned, Running
<1> QED  BY <1>1, <1>4, <1>5, <1>6 DEF RunInv, Discipline

\* The invariant the theorems below rest on.
THEOREM RunInvariant ==
  ASSUME NoneLive
  PROVE  Spec => []RunInv
<1>1. Init => RunInv
  BY RunInvInit
<1>2. RunInv /\ [Next]_vars => RunInv'
  BY RunInvStep
<1> QED  BY <1>1, <1>2, PTL DEF Spec

\* However many executions share a library: every job a worker sends it is one the store's
\* discipline allows, so what the store promises under that discipline holds of runs.
THEOREM RunsKeepTheDiscipline ==
  ASSUME NoneLive
  PROVE  Spec => StoreSpec
<1>1. Init => StoreInit
  BY DEF Init
<1>2. RunInv /\ [Next]_vars => [StoreNext]_storeVars
  BY RunInvStep
<1>3. Spec => []RunInv
  BY RunInvariant
<1> QED  BY <1>1, <1>2, <1>3, PTL DEF Spec, StoreSpec

\* Every variable of a run and of the store keeps to its type.
THEOREM RunsAreTyped ==
  ASSUME NoneLive
  PROVE  Spec => []TypeOK
<1>1. RunInv => TypeOK
  BY DEF RunInv
<1>2. Spec => []RunInv
  BY RunInvariant
<1> QED  BY <1>1, <1>2, PTL

\* Published keys resolve while executions race each other, the cache and deletions.
THEOREM RunKeysResolve ==
  ASSUME NoneLive
  PROVE  Spec => []KeysResolve
<1>1. Spec => StoreSpec
  BY RunsKeepTheDiscipline
<1>2. StoreSpec => []KeysResolve
  BY PublishedKeysResolve
<1> QED  BY <1>1, <1>2, PTL

-----------------------------------------------------------------------------
(* Finished runs *)

\* No row of run r changes, nor whose run it is.
Untouched(r) ==
  /\ status'[r] = status[r] /\ pipeline'[r] = pipeline[r] /\ owner'[r] = owner[r]
  /\ \A g \in Groups : runGroup'[<<r, g>>] = runGroup[<<r, g>>]
  /\ \A p \in AllPlaces : p[1] = r =>
       runSignal'[p] = runSignal[p] /\ (p \in kept' <=> p \in kept)
  /\ \A p \in Places : p[1] = r => runStage'[p] = runStage[p]

LEMMA UntouchedRows ==
  ASSUME NEW r \in RunIds, Untouched(r)
  PROVE  Rows(r)' = Rows(r)
<1> DEFINE row(go) == <<runStage[<<r, go[1], go[2]>>], runSignal[<<r, go[1], go[2]>>],
                        <<r, go[1], go[2]>> \in kept>>
<1>1. ASSUME NEW go \in Groups \X Ordinals
      PROVE  row(go)' = row(go)
  <2>1. <<r, go[1], go[2]>> \in Places /\ <<r, go[1], go[2]>> \in AllPlaces
    BY DEF Places, AllPlaces
  <2>2. (<<r, go[1], go[2]>> \in kept') = (<<r, go[1], go[2]>> \in kept)
    BY <2>1 DEF Untouched
  <2> QED  BY <2>1, <2>2 DEF Untouched
<1>2. [go \in Groups \X Ordinals |-> row(go)]' = [go \in Groups \X Ordinals |-> row(go)]
  <2> HIDE DEF row
  <2> QED  BY <1>1
<1>3. [g \in Groups |-> runGroup[<<r, g>>]]' = [g \in Groups |-> runGroup[<<r, g>>]]
  BY DEF Untouched
<1>4. status'[r] = status[r]
  BY DEF Untouched
<1> QED  BY <1>2, <1>3, <1>4 DEF Rows

\* A worker's step leaves every run but its own alone.
LEMMA WorkerSpares ==
  ASSUME NEW w \in Team, Moves(w), NEW r \in RunIds, r # run[w[1]]
  PROVE  Untouched(r)
<1>1. Local(run[w[1]], w[2]) /\ owner' = owner
  BY DEF Moves
<1> QED  BY <1>1 DEF Local, Untouched

LEMMA FinishedStep ==
  ASSUME NoneLive, "remove" \notin Upkeep, RunInv, [Next]_vars,
         NEW r \in RunIds, Finished(r)
  PROVE  status'[r] = "absent" \/ Untouched(r)
<1>1. status[r] # "running" /\ status[r] # "absent" /\ Exists(r)
  BY RunsHaveIds DEF Finished, Exists
<1>2. ASSUME NEW w \in Team, WorkerStep(w) \/ JobFails(w)
      PROVE  Untouched(r)
  <2>1. Moves(w)
    BY <1>2, WorkerMoves
  <2>2. r # run[w[1]]
    BY <1>1, <2>1 DEF Moves, Live
  <2> QED  BY <2>1, <2>2, WorkerSpares
<1>3. ASSUME UNCHANGED storeVars, owner' = owner
      PROVE  Untouched(r)
  BY <1>3 DEF storeVars, Untouched
<1>4. ASSUME NEW e \in Execs, Begin(e)
      PROVE  Untouched(r)
  <2>1. PICK q \in RunIds : BeginRun(q, Pipe(e)) /\ owner' = [owner EXCEPT ![q] = e]
    BY <1>4 DEF Begin
  <2>2. q # r
    BY <1>1, <2>1 DEF BeginRun, IsNextRunId, RunIds
  <2> QED  BY <2>1, <2>2 DEF BeginRun, Untouched, RunInv, TypeOK, StoreTypeOK
<1>5. ASSUME NEW e \in Execs, Finish(e)
      PROVE  Untouched(r)
  <2>1. owner' = owner /\ mode[e] = "finish"
    BY <1>5 DEF Finish, SameWorkers
  <2>2. run[e] \in RunIds /\ status[run[e]] = "running"
    BY <2>1 DEF RunInv, Discipline, Owned, Running
  <2>3. CASE FinishRun(run[e], verdict[e])
    BY <1>1, <2>1, <2>2, <2>3 DEF FinishRun, Untouched, RunInv, TypeOK, StoreTypeOK
  <2> QED  BY <1>3, <1>5, <2>1, <2>3 DEF Finish
<1>6. ASSUME NEW e \in Execs,
             Tally(e) \/ RecordRunArtifacts(e) \/ Decide(e) \/ RunFails(e) \/ Cancel(e) \/ Kill(e)
      PROVE  Untouched(r)
  BY <1>3, <1>6 DEF Tally, RecordRunArtifacts, Decide, RunFails, Cancel, Kill, SameWorkers
<1>7. CASE Maintain
  <2>1. Spares /\ owner' = owner
    BY <1>7, MaintainSpares DEF Maintain, execVars
  <2>2. \A g \in Groups : <<r, g>> \in RunIds \X Groups
    OBVIOUS
  <2> QED  BY <2>1, <2>2 DEF Spares, Untouched
<1>8. CASE UNCHANGED vars
  BY <1>3, <1>8 DEF vars, execVars
<1> QED
  BY <1>2, <1>4, <1>5, <1>6, <1>7, <1>8 DEF Next, ExecStep, AllDone

\* No row of a finished run changes until it is deleted, whatever workers, executions and
\* maintenance are under way; deleting a group takes the rows that name it, and is left out.
THEOREM FinishedRunsStay ==
  ASSUME NoneLive, "remove" \notin Upkeep
  PROVE  Spec => FinishedRunsFixed
<1>1. RunInv /\ [Next]_vars
        => [\A r \in RunIds : Finished(r) => status'[r] = "absent" \/ Rows(r)' = Rows(r)]_vars
  BY FinishedStep, UntouchedRows
<1>2. Spec => []RunInv
  BY RunInvariant
<1> QED  BY <1>1, <1>2, PTL DEF Spec, FinishedRunsFixed

-----------------------------------------------------------------------------
(* References *)

\* A worker's source is new to its run, so its row is never refused.
LEMMA SourceIsNew ==
  ASSUME RunInv, NEW w \in Team, Live(w), worker[w].pc = "source"
  PROVE  CanInsert(<<run[w[1]], w[2], SourceStage>>)
<1>1. Ahead(w) /\ mode[w[1]] = "groups" /\ Exists(run[w[1]])
  BY WorkerTypes DEF Live
<1> QED  BY <1>1 DEF Ahead, CanInsert

\* Every job of a worker that does its work leaves as many references as rows.
LEMMA WorkerSlack ==
  ASSUME RunInv, RefcountsCover, NEW w \in Team, WorkerStep(w)
  PROVE  SameSlack
<1>1. StoreTypeOK /\ RowsHaveRuns
  BY DEF RunInv, TypeOK
<1>2. CASE UNCHANGED storeVars
  BY <1>2, IdleSlack DEF storeVars
<1>3. CASE StoreSource(w)
  <2>1. Live(w) /\ worker[w].pc = "source" /\ run[w[1]] \in RunIds /\ w[2] \in Groups
    BY <1>3, ReadyIsLive DEF StoreSource, Ready, Live
  <2>2. RecordSource(run[w[1]], w[2]) \/ UNCHANGED storeVars
    BY <1>3, <2>1, SourceIsNew DEF StoreSource
  <2> QED  BY <1>1, <1>2, <2>1, <2>2, SourceSlack
<1>4. CASE OpenGroup(w) \/ CloseGroup(w)
  BY <1>2, <1>4, IdleSlack DEF OpenGroup, CloseGroup, RecordGroup
<1>5. CASE Copy(w)
  <2>1. Live(w) /\ worker[w].pc = "copy" /\ worker[w].pc \in Recording
    BY <1>5, ReadyIsLive DEF Copy, Ready, Recording, Pcs
  <2>2. worker[w].hit \in Places /\ worker[w].stage <= LastStage(Pipe(w[1]))
    BY <2>1, WorkerTypes DEF Placed, AtStage
  <2>3. At(w) \in AllPlaces
    BY <2>1, <2>2, StageIsUnrecorded, PlacesAreAllPlaces
  <2>4. CopyOutput(worker[w].hit, At(w), KeyAt(w), worker[w].metrics) \/ UNCHANGED storeVars
    BY <1>5 DEF Copy
  <2> QED  BY <1>1, <1>2, <2>2, <2>3, <2>4, CopySlack
<1>6. CASE ForgetStale(w)
  BY <1>6, IdleSlack DEF ForgetStale, CacheForget
<1>7. CASE FailStage(w)
  BY <1>2, <1>7, IdleSlack DEF FailStage, RecordFailure
<1>8. CASE FinishStage(w)
  <2>1. Live(w) /\ worker[w].pc = "process" /\ worker[w].pc \in Recording
    BY <1>8, ReadyIsLive DEF FinishStage, Ready, Recording, Pcs
  <2>2. worker[w].stage <= LastStage(Pipe(w[1])) /\ worker[w].frame \in Frames
    BY <2>1, WorkerTypes DEF Placed, AtStage
  <2>3. At(w) \in AllPlaces /\ Stage(w) \in Kinds
    BY <2>1, <2>2, StageIsUnrecorded, StageTypes, PlacesAreAllPlaces DEF RunInv
  <2>4. PICK f \in Applied(Stage(w), worker[w].frame), keep \in BOOLEAN :
          \/ RecordOutput(At(w), f.content, KeyAt(w), keep, Publishes(w, keep))
          \/ UNCHANGED storeVars
    <3>1. \A f \in Applied(Stage(w), worker[w].frame) :
            (Retention[Pipe(w[1])][worker[w].stage] # "never"
               /\ Fits(w[1], FreshBytes(Stage(w), f))) \in BOOLEAN
      OBVIOUS
    <3> QED  BY <1>8, <3>1 DEF FinishStage
  <2>5. f.content \in Contents \cup {NoContent}
    BY <2>2, <2>3, AppliedTypes DEF Frames
  <2> QED  BY <1>1, <1>2, <2>3, <2>4, <2>5, OutputSlack
<1>9. CASE Sweep(w)
  BY <1>1, <1>9, SweepSlack DEF Sweep
<1>10. CASE StartGroup(w) \/ BeginStage(w) \/ Recall(w) \/ Rebuild(w) \/ Assess(w)
  BY <1>2, <1>10 DEF StartGroup, BeginStage, Recall, Rebuild, Assess, OnlyWorker
<1> QED
  BY <1>3, <1>4, <1>5, <1>6, <1>7, <1>8, <1>9, <1>10 DEF WorkerStep

LEMMA MaintainSlack ==
  ASSUME StoreTypeOK, RefcountsCover, Maintain
  PROVE  SameSlack
<1>1. ASSUME UNCHANGED <<runSignal, kept, library, refcount>>
      PROVE  SameSlack
  BY <1>1, IdleSlack
<1>2. ASSUME NEW r \in RunIds, DeleteRun(r)
      PROVE  SameSlack
  BY <1>2, RemoveSlack DEF DeleteRun
<1>3. ASSUME NEW p \in Pipelines, NEW keep \in Keeps, PruneRuns(p, keep)
      PROVE  SameSlack
  BY <1>3, RemoveSlack, DoomedType DEF PruneRuns
<1>4. ASSUME NEW g \in Groups, DeleteGroup(g)
      PROVE  SameSlack
  BY <1>4, DeleteGroupSlack
<1>5. CASE ClearCache
  BY <1>1, <1>5 DEF ClearCache
<1>6. ASSUME NEW n \in Names, DeleteBaseline(n) \/ \E r \in RunIds : Promote(n, r)
      PROVE  SameSlack
  BY <1>1, <1>6 DEF DeleteBaseline, Promote
<1> QED  BY <1>2, <1>3, <1>4, <1>5, <1>6 DEF Maintain

LEMMA ExactStep ==
  ASSUME NoneLive, MaxFaults = 0, RunInv, RefcountsExact, [Next]_vars
  PROVE  RefcountsExact'
<1>1. /\ StoreTypeOK /\ StoreTypeOK'
      /\ faults = 0
  BY RunInvStep DEF RunInv, TypeOK
<1>2. \A c \in Contents : refcount[c] \in Nat /\ refcount'[c] \in Nat
  BY <1>1 DEF StoreTypeOK
<1>3. RefcountsCover
  BY <1>2 DEF RefcountsExact, RefcountsCover
<1>4. SameSlack
  <2>1. ASSUME NEW w \in Team, WorkerStep(w) \/ JobFails(w)
        PROVE  SameSlack
    BY <1>1, <1>3, <2>1, WorkerSlack DEF JobFails
  <2>2. ASSUME UNCHANGED <<runSignal, kept, library, refcount>>
        PROVE  SameSlack
    BY <2>2, IdleSlack
  <2>3. ASSUME NEW e \in Execs, ExecStep(e) \/ RunFails(e) \/ Cancel(e) \/ Kill(e)
        PROVE  SameSlack
    <3>1. UNCHANGED <<runSignal, kept, library, refcount>>
      BY <2>3
      DEF ExecStep, Begin, BeginRun, Tally, RecordRunArtifacts, Decide, Finish, FinishRun,
          RunFails, Cancel, Kill, SameWorkers, storeVars
    <3> QED  BY <2>2, <3>1
  <2>4. CASE UNCHANGED vars
    BY <2>2, <2>4 DEF vars, storeVars
  <2>5. CASE Maintain
    BY <1>1, <1>3, <2>5, MaintainSlack
  <2> QED  BY <2>1, <2>3, <2>4, <2>5 DEF Next, AllDone
<1> SUFFICES ASSUME NEW c \in Contents PROVE refcount'[c] = References(c)'
  BY DEF RefcountsExact
<1>5. refcount'[c] - References(c)' = refcount[c] - References(c) /\ refcount[c] = References(c)
  BY <1>4 DEF SameSlack, Slack, RefcountsExact
<1>6. References(c)' \in Nat
  <2>1. KeptRows(c)' \in SUBSET kept' /\ Lenders(c)' \in SUBSET Groups
    BY <1>1 DEF KeptRows, Lenders, StoreTypeOK
  <2>2. IsFiniteSet(kept') /\ IsFiniteSet(Groups)
    BY <1>1, StoreAssumption DEF StoreTypeOK
  <2>3. IsFiniteSet(KeptRows(c)') /\ IsFiniteSet(Lenders(c)')
    BY <2>1, <2>2, FS_Subset
  <2>4. Cardinality(KeptRows(c)') \in Nat /\ Cardinality(Lenders(c)') \in Nat
    BY <2>3, FS_CardinalityType
  <2> QED  BY <2>4 DEF References
<1> QED  BY <1>2, <1>5, <1>6

\* While no job fails, a blob's count is exactly the rows that name it, so the last of them to
\* go takes it along.  (A failed job may leave a reference behind: record_source has no
\* transaction, and RefcountsCover is what remains.)
THEOREM RefcountsAreExact ==
  ASSUME NoneLive, MaxFaults = 0
  PROVE  Spec => []RefcountsExact
<1>1. Init => RefcountsExact
  <2> SUFFICES ASSUME StoreInit, NEW c \in Contents PROVE refcount[c] = References(c)
    BY DEF RefcountsExact, Init
  <2>1. KeptRows(c) = {} /\ Lenders(c) = {g \in Groups : Source[g] = c}
    BY DEF StoreInit, KeptRows, Lenders
  <2>2. Cardinality(KeptRows(c)) = 0 /\ refcount[c] = Cardinality(Lenders(c))
    BY <2>1, FS_EmptySet DEF StoreInit
  <2>3. Cardinality(Lenders(c)) \in Nat
    BY StoreTypeInit, CountsAreNumbers
  <2> QED  BY <2>2, <2>3 DEF References
<1>2. RunInv /\ RefcountsExact /\ [Next]_vars => RefcountsExact'
  BY ExactStep
<1>3. Spec => []RunInv
  BY RunInvariant
<1> QED  BY <1>1, <1>2, <1>3, PTL DEF Spec

-----------------------------------------------------------------------------
(* What a worker has done, and what is left to show for it *)

Passed(p) == runStage[p].status \in {"ok", "cached"}
Sampled(p) == runSignal[p] # NoContent => p \in kept
Done(ws) == ws.pc \in {"close", "settled"} /\ ws.outcome = "ok"

\* Every stage behind the worker is on record, all of them once it is done.
Behind(w) ==
  LET ws == worker[w] IN
  /\ ws.pc \notin {"close", "settled"} => ws.outcome = "ok"
  /\ Done(ws) => ws.stage > LastStage(Pipe(w[1]))
  /\ mode[w[1]] \in Running =>
       /\ \A o \in Ordinals : o < ws.stage => Passed(<<run[w[1]], w[2], o>>)
       /\ ws.pc = "rebuild" => Passed(At(w))

\* The group's row says how its worker ended, and has nothing to say before.
Told(w) ==
  LET ws == worker[w]
      row == runGroup[<<run[w[1]], w[2]>>]
  IN mode[w[1]] \in Running =>
       /\ row \in {"ok", "failed", "cancelled"} => ws.pc = "settled" /\ ws.outcome = row
       /\ ws.pc = "settled" /\ ws.outcome = "ok" /\ w[2] \in library => row = "ok"

\* Provisional samples are there until a worker is done, and gone after.  A row
\* that came without its samples stops the worker before it moves on.
Evident(w) ==
  LET ws == worker[w]
      at(o) == <<run[w[1]], w[2], o>>
  IN mode[w[1]] \in Running =>
       /\ Job[w[1]].cap = Unlimited /\ ws.outcome # "error" /\ ~Done(ws) =>
            \A o \in Provisional(run[w[1]]) :
              (ws.pc = "rebuild" /\ o = ws.stage) \/ Sampled(at(o))
       /\ Done(ws) => \A o \in Provisional(run[w[1]]) : at(o) \notin kept

\* A verdict is the one the groups call for.
Ruled(e) ==
  mode[e] = "finish" => /\ verdict[e] = "ok" => Outcomes(e) = {"ok"}
                        /\ verdict[e] = "failed" => Outcomes(e) # {"ok"}
                        /\ verdict[e] = "cancelled" => cancel[e]

GroupRowsHaveRuns == \A rg \in RunIds \X Groups : runGroup[rg] # "none" => Exists(rg[1])
LibraryStands == "remove" \notin Upkeep => library = Groups
Shown(w) == Behind(w) /\ Told(w) /\ Evident(w)
Account == /\ \A w \in Team : Shown(w)
           /\ \A e \in Execs : Ruled(e)
           /\ GroupRowsHaveRuns /\ LibraryStands

\* The worker's run is where it was, and so are the stages whose samples are provisional.
LEMMA MovesInPlace ==
  ASSUME RunInv, NEW w \in Team, Moves(w)
  PROVE  /\ Live(w) /\ mode[w[1]] = "groups" /\ mode[w[1]] \in Running
         /\ UNCHANGED <<mode, run, status, pipeline, library>>
         /\ Provisional(run[w[1]])' = Provisional(run[w[1]])
         /\ Provisional(run[w[1]]) \subseteq Ordinals
         /\ worker[w].stage \in Nat /\ LastStage(Pipe(w[1])) \in Int /\ Placed(w)
<1>1. UNCHANGED <<mode, run, status, pipeline, library>>
  BY DEF Moves, Local
<1> QED  BY <1>1, WorkerTypes DEF Moves, Live, Running, Provisional, RetentionAt, Exists

\* A worker that goes on to its next job with its stages' rows as they were.
LEMMA QuietShows ==
  ASSUME RunInv, NEW w \in Team, Moves(w), Shown(w),
         UNCHANGED runStage,
         runGroup'[<<run[w[1]], w[2]>>] \in {runGroup[<<run[w[1]], w[2]>>], "running"},
         \A o \in Ordinals :
           /\ runSignal'[<<run[w[1]], w[2], o>>] = runSignal[<<run[w[1]], w[2], o>>]
           /\ <<run[w[1]], w[2], o>> \in kept' <=> <<run[w[1]], w[2], o>> \in kept,
         worker[w].pc \notin {"rebuild", "close", "settled"},
         worker'[w].pc \notin {"rebuild", "close", "settled"},
         worker'[w].stage = worker[w].stage, worker'[w].outcome = worker[w].outcome
  PROVE  Shown(w)'
<1>1. /\ mode[w[1]] \in Running /\ UNCHANGED <<mode, run, status, pipeline, library>>
      /\ Provisional(run[w[1]])' = Provisional(run[w[1]])
      /\ Provisional(run[w[1]]) \subseteq Ordinals
  BY MovesInPlace
<1>2. Behind(w)'
  BY <1>1 DEF Shown, Behind, Done, Passed
<1>3. Told(w)'
  BY <1>1 DEF Shown, Told
<1>4. Evident(w)'
  <2>1. ~Done(worker[w]) /\ ~Done(worker'[w])
    BY DEF Done
  <2> QED  BY <1>1, <2>1 DEF Shown, Evident, Sampled
<1> QED  BY <1>2, <1>3, <1>4 DEF Shown

\* A worker that gives up has said nothing yet.
LEMMA AbortShows ==
  ASSUME RunInv, NEW w \in Team, Moves(w), Shown(w), Abort(w), UNCHANGED runStage,
         runGroup' = runGroup \/ runGroup'[<<run[w[1]], w[2]>>] = "running",
         worker[w].pc # "settled"
  PROVE  Shown(w)'
<1>1. /\ mode[w[1]] \in Running /\ UNCHANGED <<mode, run, status, pipeline, library>>
  BY MovesInPlace
<1>2. /\ worker'[w].pc = "settled" /\ worker'[w].outcome = "error"
      /\ worker'[w].stage = worker[w].stage
  <2> DEFINE next == [worker[w] EXCEPT !.pc = "settled", !.outcome = "error"]
  <2>1. /\ next \in Workers /\ next.pc = "settled" /\ next.outcome = "error"
        /\ next.stage = worker[w].stage
    BY WorkerTypes DEF Workers, Pcs
  <2>2. worker'[w] = next
    BY <2>1, GoTypes DEF Abort
  <2> HIDE DEF next
  <2> QED  BY <2>1, <2>2
<1>3. Behind(w)'
  BY <1>1, <1>2 DEF Shown, Behind, Done, Passed
<1>4. Told(w)'
  BY <1>1, <1>2 DEF Shown, Told
<1>5. Evident(w)'
  BY <1>2 DEF Evident, Done
<1> QED  BY <1>3, <1>4, <1>5 DEF Shown

\* A worker with its stage on record, to rebuild its frame from or to leave behind.
LEMMA RecordedShows ==
  ASSUME RunInv, NEW w \in Team, Moves(w), Shown(w),
         worker[w].pc \in {"copy", "process", "rebuild"},
         worker[w].stage <= LastStage(Pipe(w[1])),
         OnlyPlace(At(w)), runStage'[At(w)].status \in {"ok", "cached"},
         worker'[w].outcome = worker[w].outcome,
         \/ worker'[w].pc = "rebuild" /\ worker'[w].stage = worker[w].stage
         \/ /\ worker'[w].pc = "stage" /\ worker'[w].stage = worker[w].stage + 1
            /\ Job[w[1]].cap = Unlimited /\ worker[w].stage \in Provisional(run[w[1]]) =>
                 (runSignal'[At(w)] # NoContent => At(w) \in kept')
  PROVE  Shown(w)'
<1> DEFINE r == run[w[1]]
           g == w[2]
           s == worker[w].stage
           t == worker'[w].stage
<1>1. /\ Live(w) /\ mode[w[1]] \in Running /\ UNCHANGED <<mode, run, status, pipeline, library>>
      /\ Provisional(r)' = Provisional(r) /\ Provisional(r) \subseteq Ordinals
      /\ s \in Nat /\ r \in RunIds /\ g \in Groups
  BY MovesInPlace DEF Live
<1>2. At(w) = <<r, g, s>> /\ s \in Ordinals
  BY StageTypes DEF At, RunInv
<1>3. UNCHANGED runGroup
      /\ \A o \in Ordinals : o # s =>
           /\ runStage'[<<r, g, o>>] = runStage[<<r, g, o>>]
           /\ runSignal'[<<r, g, o>>] = runSignal[<<r, g, o>>]
           /\ <<r, g, o>> \in kept' <=> <<r, g, o>> \in kept
  <2>1. \A o \in Ordinals : <<r, g, o>> \in Places /\ <<r, g, o>> \in AllPlaces
    BY <1>1 DEF Places, AllPlaces
  <2> QED  BY <1>2, <2>1 DEF OnlyPlace
<1>4. /\ worker[w].pc \notin {"close", "settled"} /\ worker[w].outcome = "ok"
      /\ worker'[w].outcome = "ok" /\ ~Done(worker[w]) /\ ~Done(worker'[w])
      /\ worker'[w].pc \in {"rebuild", "stage"}
  BY DEF Shown, Behind, Done
<1>5. Behind(w)'
  <2>1. ASSUME NEW o \in Ordinals, o < t
        PROVE  runStage'[<<r, g, o>>].status \in {"ok", "cached"}
    <3>1. CASE o = s
      BY <1>2, <3>1
    <3>2. CASE o # s
      <4>1. o < s
        <5>1. o \in Nat /\ s \in Nat /\ t \in {s, s + 1} /\ o < t /\ o # s
          BY <1>1, <2>1, <3>2, StoreAssumption
        <5> HIDE DEF s, t
        <5> QED  BY <5>1
      <4>2. runStage[<<r, g, o>>].status \in {"ok", "cached"}
        BY <1>1, <4>1 DEF Shown, Behind, Passed
      <4> QED  BY <1>3, <3>2, <4>2
    <3> QED  BY <3>1, <3>2
  <2>2. worker'[w].pc = "rebuild" => At(w)' = At(w)
    BY <1>1, <1>4 DEF At
  <2> HIDE DEF r, g, s, t
  <2> QED  BY <1>1, <1>4, <2>1, <2>2 DEF Behind, Passed, r, g, t
<1>6. Told(w)'
  BY <1>1, <1>3, <1>4 DEF Shown, Told
<1>7. Evident(w)'
  <2> SUFFICES ASSUME Job[w[1]].cap = Unlimited, NEW o \in Provisional(r)
               PROVE  \/ worker'[w].pc = "rebuild" /\ o = t
                      \/ runSignal'[<<r, g, o>>] # NoContent => <<r, g, o>> \in kept'
    BY <1>1, <1>4 DEF Evident, Sampled
  <2>1. CASE o = s
    BY <1>2, <2>1
  <2>2. CASE o # s
    <3>1. runSignal[<<r, g, o>>] # NoContent => <<r, g, o>> \in kept
      BY <1>1, <1>4, <2>2 DEF Shown, Evident, Sampled
    <3> QED  BY <1>1, <1>3, <2>2, <3>1
  <2> QED  BY <2>1, <2>2
<1> QED  BY <1>5, <1>6, <1>7 DEF Shown

\* A worker whose group fails leaves the samples of the stages behind it.
LEMMA FailureShows ==
  ASSUME RunInv, NEW w \in Team, Moves(w), Shown(w),
         worker[w].pc \in {"process", "assess"},
         UNCHANGED <<runGroup, runSignal, kept>>,
         \A o \in Ordinals : o < worker[w].stage =>
           runStage'[<<run[w[1]], w[2], o>>] = runStage[<<run[w[1]], w[2], o>>],
         worker'[w].pc = "close", worker'[w].outcome \in {"failed", "cancelled"},
         worker'[w].stage = worker[w].stage
  PROVE  Shown(w)'
<1>1. /\ mode[w[1]] \in Running /\ UNCHANGED <<mode, run, status, pipeline, library>>
      /\ Provisional(run[w[1]])' = Provisional(run[w[1]])
  BY MovesInPlace
<1>2. worker[w].outcome = "ok" /\ ~Done(worker[w]) /\ ~Done(worker'[w])
  BY DEF Shown, Behind, Done
<1>3. Behind(w)'
  BY <1>1, <1>2 DEF Shown, Behind, Passed
<1>4. Told(w)'
  BY <1>1 DEF Shown, Told
<1>5. Evident(w)'
  BY <1>1, <1>2 DEF Shown, Evident, Sampled
<1> QED  BY <1>3, <1>4, <1>5 DEF Shown

LEMMA GoesTo ==
  ASSUME RunInv, NEW w \in Team, NEW pc \in Pcs, NEW o \in {"ok", "failed", "cancelled", "error"},
         Go(w, [worker[w] EXCEPT !.pc = pc, !.outcome = o])
  PROVE  worker'[w].pc = pc /\ worker'[w].outcome = o /\ worker'[w].stage = worker[w].stage
<1> DEFINE next == [worker[w] EXCEPT !.pc = pc, !.outcome = o]
<1>1. next \in Workers /\ next.pc = pc /\ next.outcome = o /\ next.stage = worker[w].stage
  BY WorkerTypes DEF Workers
<1>2. worker'[w] = next
  BY <1>1, GoTypes
<1> HIDE DEF next
<1> QED  BY <1>1, <1>2

LEMMA GoesOn ==
  ASSUME RunInv, NEW w \in Team, NEW pc \in Pcs, Go(w, [worker[w] EXCEPT !.pc = pc])
  PROVE  /\ worker'[w].pc = pc /\ worker'[w].outcome = worker[w].outcome
         /\ worker'[w].stage = worker[w].stage
<1> DEFINE next == [worker[w] EXCEPT !.pc = pc]
<1>1. /\ next \in Workers /\ next.pc = pc /\ next.outcome = worker[w].outcome
      /\ next.stage = worker[w].stage
  BY WorkerTypes DEF Workers
<1>2. worker'[w] = next
  BY <1>1, GoTypes
<1> HIDE DEF next
<1> QED  BY <1>1, <1>2

LEMMA GoesPast ==
  ASSUME RunInv, NEW w \in Team, NEW f \in Frames, Go(w, PastStage(w, f))
  PROVE  /\ worker'[w].pc = "stage" /\ worker'[w].outcome = worker[w].outcome
         /\ worker'[w].stage = worker[w].stage + 1
<1> DEFINE next == PastStage(w, f)
<1>1. worker[w].stage + 1 \in Nat
  BY WorkerTypes
<1>2. /\ next \in Workers /\ next.pc = "stage" /\ next.outcome = worker[w].outcome
      /\ next.stage = worker[w].stage + 1
  BY <1>1, WorkerTypes DEF Workers, Pcs, PastStage
<1>3. worker'[w] = next
  BY <1>2, GoTypes
<1> HIDE DEF next
<1> QED  BY <1>2, <1>3

-----------------------------------------------------------------------------
(* What each step of a worker shows *)

LEMMA StartGroupShows ==
  ASSUME RunInv, NEW w \in Team, Shown(w), StartGroup(w)
  PROVE  Shown(w)'
<1>1. Moves(w) /\ UNCHANGED storeVars /\ worker[w].pc = "waiting"
  BY StartGroupMoves DEF StartGroup, OnlyWorker, Ready
<1>2. CASE Abort(w)
  BY <1>1, <1>2, AbortShows DEF storeVars
<1>3. CASE Go(w, [worker[w] EXCEPT !.pc = "source"])
  <2>1. "source" \in Pcs
    BY DEF Pcs
  <2> QED  BY <1>1, <1>3, <2>1, GoesOn, QuietShows DEF storeVars
<1> QED  BY <1>2, <1>3 DEF StartGroup

LEMMA StoreSourceShows ==
  ASSUME RunInv, NEW w \in Team, Shown(w), StoreSource(w)
  PROVE  Shown(w)'
<1> DEFINE r == run[w[1]]
           g == w[2]
<1>1. Moves(w) /\ worker[w].pc = "source" /\ r \in RunIds /\ g \in Groups /\ StoreTypeOK
  BY StoreSourceMoves DEF StoreSource, Ready, Moves, Live, RunInv, TypeOK
<1>2. CASE UNCHANGED storeVars /\ Abort(w)
  BY <1>1, <1>2, AbortShows DEF storeVars
<1>3. CASE RecordSourceRefused(r, g) /\ Abort(w)
  BY <1>1, <1>3, AbortShows DEF RecordSourceRefused
<1>4. CASE RecordSource(r, g) /\ Go(w, [worker[w] EXCEPT !.pc = "open"])
  <2>1. OnlyPlace(<<r, g, SourceStage>>) /\ UNCHANGED runStage
    BY <1>1, <1>4, SourceWrites
  <2>2. \A o \in Ordinals : <<r, g, o>> \in AllPlaces /\ <<r, g, o>> # <<r, g, SourceStage>>
    BY <1>1, SourceIsNoOrdinal DEF AllPlaces
  <2>3. "open" \in Pcs
    BY DEF Pcs
  <2>4. /\ runGroup' = runGroup
        /\ \A o \in Ordinals :
             /\ runSignal'[<<r, g, o>>] = runSignal[<<r, g, o>>]
             /\ <<r, g, o>> \in kept' <=> <<r, g, o>> \in kept
    BY <2>1, <2>2 DEF OnlyPlace
  <2>5. /\ worker'[w].pc = "open" /\ worker'[w].outcome = worker[w].outcome
        /\ worker'[w].stage = worker[w].stage
    BY <1>4, <2>3, GoesOn
  <2> QED  BY <1>1, <2>1, <2>4, <2>5, QuietShows
<1> QED  BY <1>2, <1>3, <1>4 DEF StoreSource

LEMMA OpenGroupShows ==
  ASSUME RunInv, NEW w \in Team, Shown(w), OpenGroup(w)
  PROVE  Shown(w)'
<1>1. /\ Moves(w) /\ worker[w].pc = "open" /\ run[w[1]] \in RunIds /\ w[2] \in Groups
      /\ StoreTypeOK /\ "stage" \in Pcs
  BY OpenGroupMoves DEF OpenGroup, Ready, Moves, Live, RunInv, TypeOK, Pcs
<1>2. CASE UNCHANGED storeVars /\ Abort(w)
  BY <1>1, <1>2, AbortShows DEF storeVars
<1>3. CASE RecordGroup(run[w[1]], w[2], "running") /\ Go(w, [worker[w] EXCEPT !.pc = "stage"])
  <2>1. /\ UNCHANGED <<runStage, runSignal, kept>>
        /\ runGroup'[<<run[w[1]], w[2]>>] = "running"
    BY <1>1, <1>3 DEF RecordGroup, StoreTypeOK
  <2> QED  BY <1>1, <1>3, <2>1, GoesOn, QuietShows
<1>4. CASE RecordGroup(run[w[1]], w[2], "running") /\ Abort(w)
  <2>1. UNCHANGED runStage /\ runGroup'[<<run[w[1]], w[2]>>] = "running"
    BY <1>1, <1>4 DEF RecordGroup, StoreTypeOK
  <2> QED  BY <1>1, <1>4, <2>1, AbortShows
<1> QED  BY <1>2, <1>3, <1>4 DEF OpenGroup

LEMMA BeginStageShows ==
  ASSUME RunInv, NEW w \in Team, Shown(w), BeginStage(w)
  PROVE  Shown(w)'
<1> DEFINE ws == worker[w]
           hit == IF Job[w[1]].useCache /\ Stage(w) \in Pure THEN cache[KeyAt(w)] ELSE NoPlace
<1>1. Moves(w) /\ UNCHANGED storeVars /\ ws.pc = "stage" /\ "assess" \in Pcs
  BY BeginStageMoves DEF BeginStage, OnlyWorker, Ready, Pcs
<1>2. CASE Abort(w)
  BY <1>1, <1>2, AbortShows DEF storeVars
<1>3. CASE Go(w, [ws EXCEPT !.pc = "assess"])
  BY <1>1, <1>3, GoesOn, QuietShows DEF storeVars
<1>4. CASE /\ ws.stage <= LastStage(Pipe(w[1]))
           /\ Go(w, [ws EXCEPT !.pc = IF hit = NoPlace THEN "process" ELSE "recall", !.hit = hit])
  <2> DEFINE next == [ws EXCEPT !.pc = IF hit = NoPlace THEN "process" ELSE "recall",
                                !.hit = hit]
  <2>1. hit \in Places \cup {NoPlace}
    BY <1>4, StageTypes DEF RunInv, TypeOK, StoreTypeOK
  <2>2. Go(w, next)
    BY <1>4
  <2> HIDE DEF hit
  <2>3. /\ next \in Workers /\ next.pc \in {"process", "recall"}
        /\ next.stage = ws.stage /\ next.outcome = ws.outcome
    BY <2>1, WorkerTypes DEF Workers, Pcs
  <2>4. worker'[w] = next
    BY <2>2, <2>3, GoTypes
  <2> HIDE DEF next
  <2> QED  BY <1>1, <2>3, <2>4, QuietShows DEF storeVars
<1> QED  BY <1>2, <1>3, <1>4 DEF BeginStage

LEMMA RecallShows ==
  ASSUME RunInv, NEW w \in Team, Shown(w), Recall(w)
  PROVE  Shown(w)'
<1> DEFINE ws == worker[w]
           row == runStage[ws.hit]
           next == [ws EXCEPT !.pc = "copy", !.metrics = row.metrics]
<1>1. Moves(w) /\ UNCHANGED storeVars /\ ws.pc = "recall" /\ Go(w, next)
  BY RecallMoves DEF Recall, OnlyWorker, Ready
<1>2. row.metrics \in BOOLEAN
  <2>1. ws.hit \in Places
    BY <1>1, WorkerTypes DEF Placed
  <2> QED  BY <2>1 DEF RunInv, TypeOK, StoreTypeOK, StageRows
<1> HIDE DEF row
<1>3. /\ next \in Workers /\ next.pc = "copy" /\ next.stage = ws.stage
      /\ next.outcome = ws.outcome
  BY <1>2, WorkerTypes DEF Workers, Pcs
<1>4. worker'[w] = next
  BY <1>1, <1>3, GoTypes
<1> HIDE DEF next
<1> QED  BY <1>1, <1>3, <1>4, QuietShows DEF storeVars

LEMMA CopyShows ==
  ASSUME RunInv, NEW w \in Team, Shown(w), Copy(w)
  PROVE  Shown(w)'
<1>1. /\ Moves(w) /\ worker[w].pc = "copy" /\ worker[w].pc \in Recording
      /\ Live(w) /\ run[w[1]] \in RunIds /\ w[2] \in Groups /\ StoreTypeOK
      /\ "rebuild" \in Pcs /\ "stale" \in Pcs
  BY CopyMoves DEF Copy, Ready, Recording, Pcs, Moves, Live, RunInv, TypeOK
<1>2. CASE UNCHANGED storeVars /\ Abort(w)
  BY <1>1, <1>2, AbortShows DEF storeVars
<1>3. CASE UNCHANGED storeVars /\ Go(w, [worker[w] EXCEPT !.pc = "stale"])
  BY <1>1, <1>3, GoesOn, QuietShows DEF storeVars
<1>4. CASE CopyOutput(worker[w].hit, At(w), KeyAt(w), worker[w].metrics)
           /\ Go(w, [worker[w] EXCEPT !.pc = "rebuild"])
  <2>1. worker[w].stage <= LastStage(Pipe(w[1]))
    BY <1>1, WorkerTypes DEF Placed, AtStage
  <2>2. /\ At(w) \in Places /\ At(w) = <<run[w[1]], w[2], worker[w].stage>>
        /\ worker[w].stage \in Ordinals
    BY <1>1, <2>1, StageIsUnrecorded
  <2>3. OnlyPlace(At(w))
    BY <1>1, <1>4, <2>2, StageWrites
  <2>4. runStage'[At(w)].status = "cached"
    BY <1>1, <1>4, <2>2 DEF CopyOutput, StoreTypeOK
  <2>5. /\ worker'[w].pc = "rebuild" /\ worker'[w].outcome = worker[w].outcome
        /\ worker'[w].stage = worker[w].stage
    BY <1>1, <1>4, GoesOn
  <2> QED  BY <1>1, <2>1, <2>3, <2>4, <2>5, RecordedShows
<1> QED  BY <1>2, <1>3, <1>4 DEF Copy

LEMMA ForgetStaleShows ==
  ASSUME RunInv, NEW w \in Team, Shown(w), ForgetStale(w)
  PROVE  Shown(w)'
<1> DEFINE next == [worker[w] EXCEPT !.pc = "process", !.hit = NoPlace]
<1>1. Moves(w) /\ worker[w].pc = "stale" /\ Go(w, next)
  BY ForgetStaleMoves DEF ForgetStale, Ready
<1>2. UNCHANGED <<runGroup, runStage, runSignal, kept>>
  BY DEF ForgetStale, CacheForget
<1>3. /\ next \in Workers /\ next.pc = "process" /\ next.stage = worker[w].stage
      /\ next.outcome = worker[w].outcome
  BY WorkerTypes DEF Workers, Pcs
<1>4. worker'[w] = next
  BY <1>1, <1>3, GoTypes
<1> HIDE DEF next
<1> QED  BY <1>1, <1>2, <1>3, <1>4, QuietShows

\* A row whose samples are gone stops the worker: what it goes on from is there.
LEMMA RebuildShows ==
  ASSUME RunInv, NEW w \in Team, Shown(w), Rebuild(w)
  PROVE  Shown(w)'
<1> DEFINE c == runSignal[At(w)]
           f == FrameOf(c, worker[w].frame.attr)
<1>1. Moves(w) /\ UNCHANGED storeVars /\ worker[w].pc = "rebuild" /\ Live(w)
  BY RebuildMoves DEF Rebuild, OnlyWorker, Ready, Moves
<1>2. CASE Abort(w)
  BY <1>1, <1>2, AbortShows DEF storeVars
<1>3. CASE (c # NoContent => At(w) \in kept) /\ Go(w, PastStage(w, f))
  <2>1. worker[w].stage <= LastStage(Pipe(w[1]))
    BY <1>1, WorkerTypes DEF Placed, AtStage
  <2>2. At(w) \in AllPlaces
    BY <1>1, <2>1, StageTypes DEF At, AllPlaces, Live, RunInv
  <2>3. f \in Frames
    BY <2>2, WorkerTypes DEF RunInv, TypeOK, StoreTypeOK, Frames, FrameOf
  <2>4. /\ worker'[w].pc = "stage" /\ worker'[w].outcome = worker[w].outcome
        /\ worker'[w].stage = worker[w].stage + 1
    <3> HIDE DEF f
    <3> QED  BY <1>3, <2>3, GoesPast
  <2>5. OnlyPlace(At(w)) /\ runStage' = runStage /\ runSignal' = runSignal /\ kept' = kept
    BY <1>1 DEF OnlyPlace, storeVars
  <2>6. Passed(At(w))
    <3>1. mode[w[1]] \in Running
      BY <1>1, MovesInPlace
    <3> QED  BY <1>1, <3>1 DEF Shown, Behind
  <2> QED  BY <1>1, <1>3, <2>1, <2>4, <2>5, <2>6, RecordedShows DEF Passed
<1> QED  BY <1>2, <1>3 DEF Rebuild

LEMMA FailStageShows ==
  ASSUME RunInv, NEW w \in Team, Shown(w), FailStage(w)
  PROVE  Shown(w)'
<1>1. /\ Moves(w) /\ worker[w].pc = "process" /\ worker[w].pc \in Recording
      /\ Live(w) /\ run[w[1]] \in RunIds /\ w[2] \in Groups /\ StoreTypeOK /\ "close" \in Pcs
  BY FailStageMoves DEF FailStage, Ready, Recording, Pcs, Moves, Live, RunInv, TypeOK
<1>2. CASE UNCHANGED storeVars /\ Abort(w)
  BY <1>1, <1>2, AbortShows DEF storeVars
<1>3. ASSUME NEW o \in {"failed", "cancelled"}, RecordFailure(At(w), KeyAt(w)),
             Go(w, [worker[w] EXCEPT !.pc = "close", !.outcome = o])
      PROVE  Shown(w)'
  <2>1. worker[w].stage <= LastStage(Pipe(w[1])) /\ worker[w].stage \in Nat
    BY <1>1, WorkerTypes DEF Placed, AtStage
  <2>2. /\ At(w) = <<run[w[1]], w[2], worker[w].stage>> /\ worker[w].stage \in Ordinals
    BY <1>1, <2>1, StageIsUnrecorded
  <2>3. OnlyPlace(At(w)) /\ UNCHANGED <<runGroup, runSignal, kept>>
    BY <1>1, <1>3, <2>2, StageWrites DEF RecordFailure
  <2>4. \A q \in Ordinals : q < worker[w].stage =>
          runStage'[<<run[w[1]], w[2], q>>] = runStage[<<run[w[1]], w[2], q>>]
    <3> SUFFICES ASSUME NEW q \in Ordinals, q < worker[w].stage
                 PROVE  runStage'[<<run[w[1]], w[2], q>>] = runStage[<<run[w[1]], w[2], q>>]
      OBVIOUS
    <3>1. q # worker[w].stage
      BY <2>1, StoreAssumption
    <3>2. <<run[w[1]], w[2], q>> \in Places /\ <<run[w[1]], w[2], q>> # At(w)
      BY <1>1, <2>2, <3>1 DEF Places
    <3> QED  BY <2>3, <3>2 DEF OnlyPlace
  <2>5. /\ worker'[w].pc = "close" /\ worker'[w].outcome = o
        /\ worker'[w].stage = worker[w].stage
    BY <1>1, <1>3, GoesTo
  <2> QED  BY <1>1, <2>3, <2>4, <2>5, FailureShows
<1> QED  BY <1>2, <1>3 DEF FailStage

\* Without a cap nothing a stage must leave behind is turned away.
LEMMA FinishStageShows ==
  ASSUME RunInv, NEW w \in Team, Shown(w), FinishStage(w)
  PROVE  Shown(w)'
<1> DEFINE e == w[1]
           keep(f) == Retention[Pipe(e)][worker[w].stage] # "never"
                        /\ Fits(e, FreshBytes(Stage(w), f))
<1>1. /\ Moves(w) /\ worker[w].pc = "process" /\ worker[w].pc \in Recording
      /\ Live(w) /\ run[e] \in RunIds /\ w[2] \in Groups /\ StoreTypeOK /\ "rebuild" \in Pcs
  BY FinishStageMoves DEF FinishStage, Ready, Recording, Pcs, Moves, Live, RunInv, TypeOK
<1>2. /\ worker[w].stage <= LastStage(Pipe(e)) /\ worker[w].stage \in Nat
      /\ worker[w].frame \in Frames
  BY <1>1, WorkerTypes DEF Placed, AtStage
<1>3. /\ At(w) = <<run[e], w[2], worker[w].stage>> /\ worker[w].stage \in Ordinals
      /\ At(w) \in Places /\ At(w) \in AllPlaces /\ Stage(w) \in Kinds
  BY <1>1, <1>2, StageIsUnrecorded, StageTypes, PlacesAreAllPlaces DEF RunInv
<1>4. PICK f \in Applied(Stage(w), worker[w].frame) :
        IF CanRecord(w, f, keep(f))
        THEN /\ RecordOutput(At(w), f.content, KeyAt(w), keep(f), Publishes(w, keep(f)))
             /\ Go(w, IF keep(f) THEN [worker[w] EXCEPT !.pc = "rebuild", !.frame = f]
                                 ELSE PastStage(w, f))
        ELSE UNCHANGED storeVars /\ Abort(w)
  BY DEF FinishStage
<1>5. f \in Frames /\ f.content \in Contents \cup {NoContent}
  BY <1>2, <1>3, AppliedTypes DEF Frames
<1>6. CASE UNCHANGED storeVars /\ Abort(w)
  BY <1>1, <1>6, AbortShows DEF storeVars
<1>7. CASE /\ RecordOutput(At(w), f.content, KeyAt(w), keep(f), Publishes(w, keep(f)))
           /\ Go(w, IF keep(f) THEN [worker[w] EXCEPT !.pc = "rebuild", !.frame = f]
                               ELSE PastStage(w, f))
  <2>1. OnlyPlace(At(w))
    BY <1>1, <1>3, <1>7, StageWrites
  <2>2. runStage'[At(w)].status = "ok"
    BY <1>1, <1>3, <1>7 DEF RecordOutput, StoreTypeOK
  <2>3. CASE keep(f)
    <3> DEFINE next == [worker[w] EXCEPT !.pc = "rebuild", !.frame = f]
    <3>1. /\ next \in Workers /\ next.pc = "rebuild" /\ next.stage = worker[w].stage
          /\ next.outcome = worker[w].outcome
      BY <1>5, WorkerTypes DEF Workers, Pcs
    <3>2. Go(w, next)
      BY <1>7, <2>3
    <3>3. worker'[w] = next
      BY <3>1, <3>2, GoTypes
    <3> HIDE DEF next
    <3> QED  BY <1>1, <1>2, <2>1, <2>2, <3>1, <3>3, RecordedShows
  <2>4. CASE ~keep(f)
    <3>1. Go(w, PastStage(w, f))
      BY <1>7, <2>4
    <3>2. /\ worker'[w].pc = "stage" /\ worker'[w].outcome = worker[w].outcome
          /\ worker'[w].stage = worker[w].stage + 1
      BY <1>5, <3>1, GoesPast
    <3>3. ~(Job[e].cap = Unlimited /\ worker[w].stage \in Provisional(run[e]))
      <4>1. SUFFICES ASSUME Job[e].cap = Unlimited, worker[w].stage \in Provisional(run[e])
                     PROVE  keep(f)
        BY <2>4
      <4>2. Retention[Pipe(e)][worker[w].stage] = "on_failure"
        BY <1>1, <4>1 DEF Provisional, RetentionAt, Live
      <4> QED  BY <4>1, <4>2 DEF Fits
    <3> HIDE DEF keep
    <3> QED  BY <1>1, <1>2, <2>1, <2>2, <3>2, <3>3, RecordedShows
  <2> QED  BY <2>3, <2>4
<1> QED  BY <1>4, <1>6, <1>7

LEMMA AssessShows ==
  ASSUME RunInv, NEW w \in Team, Shown(w), Assess(w)
  PROVE  Shown(w)'
<1>1. /\ Moves(w) /\ UNCHANGED storeVars /\ worker[w].pc = "assess"
      /\ "sweep" \in Pcs /\ "close" \in Pcs
  BY AssessMoves DEF Assess, OnlyWorker, Ready, Pcs
<1>2. CASE Abort(w)
  BY <1>1, <1>2, AbortShows DEF storeVars
<1>3. CASE Go(w, [worker[w] EXCEPT !.pc = "sweep"])
  BY <1>1, <1>3, GoesOn, QuietShows DEF storeVars
<1>4. CASE Go(w, [worker[w] EXCEPT !.pc = "close", !.outcome = "failed"])
  <2>1. /\ worker'[w].pc = "close" /\ worker'[w].outcome = "failed"
        /\ worker'[w].stage = worker[w].stage
    BY <1>1, <1>4, GoesTo
  <2> QED  BY <1>1, <2>1, FailureShows DEF storeVars
<1> QED  BY <1>2, <1>3, <1>4 DEF Assess

LEMMA SweepShows ==
  ASSUME RunInv, NEW w \in Team, Shown(w), Sweep(w)
  PROVE  Shown(w)'
<1> DEFINE r == run[w[1]]
           g == w[2]
<1>1. /\ Moves(w) /\ worker[w].pc = "sweep" /\ Live(w) /\ "close" \in Pcs
      /\ ForgetSamples(r, g, Provision(Pipe(w[1]))) /\ Go(w, [worker[w] EXCEPT !.pc = "close"])
  BY SweepMoves DEF Sweep, Ready, Moves, Pcs
<1>2. ForgetSamples(r, g, Provisional(r))
  BY <1>1, SweepIsProvisional
<1>3. /\ UNCHANGED <<runGroup, runStage, runSignal>>
      /\ \A o \in Provisional(r) : <<r, g, o>> \notin kept'
  BY <1>2 DEF ForgetSamples
<1>4. /\ mode[w[1]] \in Running /\ UNCHANGED <<mode, run, status, pipeline, library>>
      /\ Provisional(r)' = Provisional(r) /\ Placed(w)
  BY <1>1, MovesInPlace
<1>5. /\ worker'[w].pc = "close" /\ worker'[w].outcome = worker[w].outcome
      /\ worker'[w].stage = worker[w].stage
  BY <1>1, GoesOn
<1>6. worker[w].outcome = "ok" /\ worker[w].stage > LastStage(Pipe(w[1])) /\ Done(worker'[w])
  BY <1>1, <1>4, <1>5 DEF Shown, Behind, Placed, Done
<1>7. Behind(w)'
  BY <1>1, <1>3, <1>4, <1>5, <1>6 DEF Shown, Behind, Passed
<1>8. Told(w)'
  BY <1>1, <1>3, <1>4, <1>5 DEF Shown, Told
<1>9. Evident(w)'
  BY <1>3, <1>4, <1>6 DEF Evident
<1> QED  BY <1>7, <1>8, <1>9 DEF Shown

LEMMA CloseGroupShows ==
  ASSUME RunInv, NEW w \in Team, Shown(w), CloseGroup(w)
  PROVE  Shown(w)'
<1>1. /\ Moves(w) /\ worker[w].pc = "close" /\ Live(w) /\ "settled" \in Pcs
      /\ run[w[1]] \in RunIds /\ w[2] \in Groups /\ StoreTypeOK
  BY CloseGroupMoves DEF CloseGroup, Ready, Moves, Live, RunInv, TypeOK, Pcs
<1>2. CASE UNCHANGED storeVars /\ Abort(w)
  BY <1>1, <1>2, AbortShows DEF storeVars
<1>3. CASE RecordGroup(run[w[1]], w[2], worker[w].outcome)
           /\ Go(w, [worker[w] EXCEPT !.pc = "settled"])
  <2>1. /\ UNCHANGED <<runStage, runSignal, kept>>
        /\ runGroup'[<<run[w[1]], w[2]>>] = worker[w].outcome
    BY <1>1, <1>3 DEF RecordGroup, StoreTypeOK
  <2>2. /\ mode[w[1]] \in Running /\ UNCHANGED <<mode, run, status, pipeline, library>>
        /\ Provisional(run[w[1]])' = Provisional(run[w[1]])
    BY <1>1, MovesInPlace
  <2>3. /\ worker'[w].pc = "settled" /\ worker'[w].outcome = worker[w].outcome
        /\ worker'[w].stage = worker[w].stage
    BY <1>1, <1>3, GoesOn
  <2>4. Behind(w)'
    BY <1>1, <2>1, <2>2, <2>3 DEF Shown, Behind, Passed, Done
  <2>5. Told(w)'
    BY <2>1, <2>2, <2>3 DEF Told
  <2>6. Evident(w)'
    BY <1>1, <2>1, <2>2, <2>3 DEF Shown, Evident, Done, Sampled
  <2> QED  BY <2>4, <2>5, <2>6 DEF Shown
<1> QED  BY <1>2, <1>3 DEF CloseGroup

LEMMA JobFailsShows ==
  ASSUME RunInv, NEW w \in Team, Shown(w), JobFails(w)
  PROVE  Shown(w)'
<1>1. Moves(w) /\ worker[w].pc # "settled" /\ Abort(w) /\ UNCHANGED <<runGroup, runStage>>
  BY JobFailsMoves DEF JobFails, RecordSourceRefused, storeVars
<1> QED  BY <1>1, AbortShows

LEMMA WorkerShows ==
  ASSUME RunInv, NEW w \in Team, Shown(w), WorkerStep(w) \/ JobFails(w)
  PROVE  Shown(w)'
BY StartGroupShows, StoreSourceShows, OpenGroupShows, BeginStageShows, RecallShows, CopyShows,
   ForgetStaleShows, RebuildShows, FailStageShows, FinishStageShows, AssessShows, SweepShows,
   CloseGroupShows, JobFailsShows DEF WorkerStep

\* What is left to show of a worker while its own step is not the one taken.
RowsStand(v) ==
  mode[v[1]] \in Running =>
    /\ Provisional(run[v[1]])' = Provisional(run[v[1]])
    /\ \/ runGroup'[<<run[v[1]], v[2]>>] = runGroup[<<run[v[1]], v[2]>>]
       \/ runGroup'[<<run[v[1]], v[2]>>] = "none" /\ v[2] \notin library'
    /\ \A o \in Ordinals :
         /\ runStage'[<<run[v[1]], v[2], o>>] = runStage[<<run[v[1]], v[2], o>>]
         /\ runSignal'[<<run[v[1]], v[2], o>>] = runSignal[<<run[v[1]], v[2], o>>]
         /\ <<run[v[1]], v[2], o>> \in kept' <=> <<run[v[1]], v[2], o>> \in kept

LEMMA StandingShows ==
  ASSUME RunInv, NEW v \in Team, Shown(v), RowsStand(v),
         worker'[v] = worker[v], run'[v[1]] = run[v[1]], library' \subseteq library,
         mode'[v[1]] \in Running => mode[v[1]] \in Running
  PROVE  Shown(v)'
<1>1. Behind(v)'
  <2>1. worker[v].pc = "rebuild" => worker[v].stage \in Ordinals
    <3>1. worker[v].pc = "rebuild" => worker[v].stage <= LastStage(Pipe(v[1]))
      BY WorkerTypes DEF Placed, AtStage
    <3> QED  BY <3>1, StageTypes DEF RunInv
  <2> QED  BY <2>1 DEF Shown, Behind, RowsStand, Passed, At
<1>2. Told(v)'
  BY DEF Shown, Told, RowsStand
<1>3. Evident(v)'
  BY DEF Shown, Evident, RowsStand, Sampled, Provisional
<1> QED  BY <1>1, <1>2, <1>3 DEF Shown

-----------------------------------------------------------------------------
(* The account is kept *)

\* A worker's step leaves what the others have to show.
LEMMA OthersStand ==
  ASSUME RunInv, NEW w \in Team, Moves(w), NEW v \in Team, v # w
  PROVE  RowsStand(v)
<1> SUFFICES ASSUME mode[v[1]] \in Running
             PROVE  RowsStand(v)
  BY DEF RowsStand
<1> DEFINE r == run[v[1]]
           g == v[2]
<1>1. v[1] \in Execs /\ g \in Groups /\ v = <<v[1], g>> /\ Owned(v[1]) /\ Live(w)
  BY DEF RunInv, Discipline, Team, Moves
<1>2. r \in RunIds /\ owner[r] = v[1] /\ ~(r = run[w[1]] /\ g = w[2])
  BY <1>1 DEF Owned, Live
<1>3. Local(run[w[1]], w[2])
  BY DEF Moves
<1>4. /\ <<r, g>> \in RunIds \X Groups /\ <<r, g>> # <<run[w[1]], w[2]>>
      /\ \A o \in Ordinals : <<r, g, o>> \in Places /\ <<r, g, o>> \in AllPlaces
  BY <1>1, <1>2 DEF Places, AllPlaces
<1> HIDE DEF r, g
<1>5. Provisional(r)' = Provisional(r)
  BY <1>3 DEF Local, Provisional, RetentionAt, Exists, r, Moves
<1>6. runGroup'[<<r, g>>] = runGroup[<<r, g>>]
  BY <1>3, <1>4 DEF Local
<1>7. \A o \in Ordinals : /\ runStage'[<<r, g, o>>] = runStage[<<r, g, o>>]
                          /\ runSignal'[<<r, g, o>>] = runSignal[<<r, g, o>>]
                          /\ <<r, g, o>> \in kept' <=> <<r, g, o>> \in kept
  BY <1>2, <1>3, <1>4 DEF Local
<1>8. Provisional(run[v[1]])' = Provisional(run[v[1]])
  BY <1>5 DEF r, Moves, Provisional
<1> QED  BY <1>6, <1>7, <1>8 DEF RowsStand, r, g

LEMMA UnruledSteps ==
  ASSUME RunInv, NEW e \in Execs, Ruled(e), mode'[e] = "finish" => mode[e] = "finish",
         verdict'[e] = verdict[e], cancel[e] => cancel'[e],
         mode[e] = "finish" => \A g \in Job[e].groups : worker'[<<e, g>>] = worker[<<e, g>>]
  PROVE  Ruled(e)'
<1>1. mode[e] = "finish" => Outcomes(e)' = Outcomes(e)
  BY DEF Outcomes
<1> QED  BY <1>1 DEF Ruled

\* Rows of groups go with their runs, too.
LEMMA GroupRowsStep ==
  ASSUME StoreTypeOK, GroupRowsHaveRuns, [StoreNext]_storeVars
  PROVE  GroupRowsHaveRuns'
<1>1. ASSUME NEW rs \in SUBSET RunIds, Remove(rs)
      PROVE  GroupRowsHaveRuns'
  BY <1>1 DEF Remove, GroupRowsHaveRuns, Exists, StoreTypeOK
<1>2. ASSUME runGroup' = runGroup,
             \A r \in RunIds : Exists(r) => status'[r] # "absent"
      PROVE  GroupRowsHaveRuns'
  BY <1>2 DEF GroupRowsHaveRuns, Exists
<1>3. ASSUME NEW r \in RunIds, NEW g \in Groups, NEW s \in RunStatus, RecordGroup(r, g, s)
      PROVE  GroupRowsHaveRuns'
  <2>1. /\ status' = status /\ Exists(r)
        /\ \A rg \in RunIds \X Groups : rg # <<r, g>> => runGroup'[rg] = runGroup[rg]
    BY <1>3 DEF RecordGroup, CanRecordGroup, StoreTypeOK
  <2> QED  BY <2>1 DEF GroupRowsHaveRuns, Exists
<1>4. ASSUME NEW g \in Groups, DeleteGroup(g)
      PROVE  GroupRowsHaveRuns'
  BY <1>4 DEF DeleteGroup, GroupRowsHaveRuns, Exists
<1>5. ASSUME NEW r \in RunIds, NEW s \in RunStatus \ {"running"}, FinishRun(r, s)
      PROVE  GroupRowsHaveRuns'
  BY <1>2, <1>5 DEF FinishRun, Exists, StoreTypeOK, RunStatus
<1>6. ASSUME NEW r \in RunIds, NEW p \in Pipelines, BeginRun(r, p)
      PROVE  GroupRowsHaveRuns'
  BY <1>2, <1>6 DEF BeginRun, Exists, StoreTypeOK
<1>7. ASSUME UNCHANGED <<status, runGroup>>
      PROVE  GroupRowsHaveRuns'
  BY <1>7 DEF GroupRowsHaveRuns, Exists
<1>8. ASSUME NEW r \in RunIds, RunWrite(r)
      PROVE  GroupRowsHaveRuns'
  <2>1. ASSUME NEW g \in Groups, NEW o \in Ordinals, NEW k \in Keys, StageWrite(<<r, g, o>>, k)
        PROVE  UNCHANGED <<status, runGroup>>
    BY <2>1 DEF StageWrite, RecordFailure, RecordOutput, CopyOutput
  <2>2. ASSUME NEW g \in Groups,
               \/ RecordSource(r, g) \/ RecordSourceRefused(r, g)
               \/ ForgetSamples(r, g, Provisional(r))
        PROVE  UNCHANGED <<status, runGroup>>
    BY <2>2 DEF RecordSource, RecordSourceRefused, ForgetSamples
  <2> QED  BY <1>3, <1>5, <1>7, <1>8, <2>1, <2>2 DEF RunWrite
<1>9. ASSUME NEW p \in Pipelines, NEW keep \in Keeps, PruneRuns(p, keep)
      PROVE  GroupRowsHaveRuns'
  BY <1>1, <1>9, DoomedType DEF PruneRuns
<1>10. ASSUME NEW r \in RunIds, DeleteRun(r)
       PROVE  GroupRowsHaveRuns'
  BY <1>1, <1>10 DEF DeleteRun
<1>11. ASSUME NEW k \in Keys, CacheForget(k)
       PROVE  GroupRowsHaveRuns'
  BY <1>7, <1>11 DEF CacheForget
<1>12. ASSUME NEW n \in Names, DeleteBaseline(n) \/ \E r \in RunIds : Promote(n, r)
       PROVE  GroupRowsHaveRuns'
  BY <1>7, <1>12 DEF DeleteBaseline, Promote
<1>13. CASE ClearCache \/ UNCHANGED storeVars
  BY <1>7, <1>13 DEF ClearCache, storeVars
<1> QED
  BY <1>4, <1>6, <1>8, <1>9, <1>10, <1>11, <1>12, <1>13 DEF StoreNext

LEMMA WorkerAccounts ==
  ASSUME RunInv, Account, NEW w \in Team, WorkerStep(w) \/ JobFails(w)
  PROVE  Account'
<1>1. /\ Moves(w) /\ Live(w) /\ UNCHANGED <<mode, run, owner, cancel, verdict, library>>
      /\ StoreTypeOK
  BY WorkerMoves DEF Moves, Local, RunInv, TypeOK
<1>2. ASSUME NEW v \in Team PROVE Shown(v)'
  <2>1. CASE v = w
    BY <2>1, WorkerShows DEF Account
  <2>2. CASE v # w
    <3>1. RowsStand(v) /\ worker'[v] = worker[v] /\ Shown(v)
      BY <1>1, <2>2, OthersStand DEF Moves, Account
    <3> QED  BY <1>1, <3>1, StandingShows
  <2> QED  BY <2>1, <2>2
<1>3. ASSUME NEW e \in Execs PROVE Ruled(e)'
  <2>1. mode[e] = "finish" => e # w[1]
    BY <1>1 DEF Live
  <2>2. mode[e] = "finish" => \A g \in Job[e].groups : <<e, g>> \in Team /\ <<e, g>> # w
    BY <2>1, JobTypes DEF Team
  <2>3. mode[e] = "finish" => \A g \in Job[e].groups : worker'[<<e, g>>] = worker[<<e, g>>]
    BY <1>1, <2>2 DEF Moves
  <2>4. Ruled(e)
    BY DEF Account
  <2> QED  BY <1>1, <2>3, <2>4, UnruledSteps
<1>4. GroupRowsHaveRuns'
  BY <1>1, GroupRowsStep DEF Moves, Account
<1>5. LibraryStands'
  BY <1>1 DEF LibraryStands, Account
<1> QED  BY <1>2, <1>3, <1>4, <1>5 DEF Account

LEMMA ExecAccounts ==
  ASSUME RunInv, Account, NEW e \in Execs,
         Tally(e) \/ RecordRunArtifacts(e) \/ Decide(e) \/ Finish(e) \/ RunFails(e) \/ Cancel(e)
           \/ Kill(e)
  PROVE  Account'
<1>1. StoreTypeOK /\ [StoreNext]_storeVars /\ TypeOK /\ Owned(e)
  BY ExecKeeps DEF RunInv, TypeOK, Discipline
<1>2. /\ UNCHANGED <<run, owner, worker, pipeline, runGroup, runStage, runSignal, kept, library>>
      /\ \A d \in Execs : d # e => mode'[d] = mode[d] /\ verdict'[d] = verdict[d]
      /\ \A d \in Execs : cancel[d] => cancel'[d]
  BY <1>1 DEF Tally, RecordRunArtifacts, Decide, Finish, FinishRun, RunFails, Cancel, Kill, TypeOK,
     SameWorkers, Enter, storeVars
<1>3. mode'[e] \in Running => mode[e] \in Running
  BY <1>1 DEF Tally, RecordRunArtifacts, Decide, Finish, RunFails, Cancel, Kill, TypeOK,
     SameWorkers, Enter, Running
<1>4. \A r \in RunIds : Exists(r)' <=> Exists(r)
  <2>1. CASE Finish(e)
    <3>1. verdict[e] # "absent"
      BY <1>1 DEF TypeOK, RunStatus
    <3> QED  BY <1>1, <2>1, <3>1 DEF Finish, FinishRun, Exists, StoreTypeOK, storeVars
  <2>2. CASE ~Finish(e)
    BY <2>2 DEF Tally, RecordRunArtifacts, Decide, RunFails, Cancel, Kill, storeVars, Exists
  <2> QED  BY <2>1, <2>2
<1>5. ASSUME NEW v \in Team PROVE Shown(v)'
  <2>1. v[1] \in Execs /\ Shown(v) /\ Owned(v[1])
    BY DEF Team, Account, RunInv, Discipline
  <2>2. mode'[v[1]] \in Running => mode[v[1]] \in Running
    BY <1>2, <1>3, <2>1
  <2>3. RowsStand(v)
    <3>1. mode[v[1]] \in Running => Provisional(run[v[1]])' = Provisional(run[v[1]])
      BY <1>2, <1>4, <2>1 DEF Owned, Provisional, RetentionAt
    <3> QED  BY <1>2, <3>1 DEF RowsStand
  <2> QED  BY <1>2, <2>1, <2>2, <2>3, StandingShows
<1>6. ASSUME NEW d \in Execs PROVE Ruled(d)'
  <2>1. Ruled(d)
    BY DEF Account
  <2>2. CASE d # e
    BY <1>2, <2>1, <2>2, UnruledSteps
  <2>3. CASE d = e /\ Decide(e)
    <3>1. /\ verdict'[e] = IF cancel[e] THEN "cancelled"
                           ELSE IF Outcomes(e) = {"ok"} THEN "ok" ELSE "failed"
          /\ cancel' = cancel /\ Outcomes(e)' = Outcomes(e)
      BY <1>1, <1>2, <2>3 DEF Decide, SameWorkers, TypeOK, Outcomes
    <3> QED  BY <2>3, <3>1 DEF Ruled
  <2>4. CASE d = e /\ ~Decide(e)
    <3>1. verdict' = verdict /\ (mode'[e] = "finish" => mode[e] = "finish")
      BY <1>1, <2>4 DEF Tally, RecordRunArtifacts, Finish, RunFails, Cancel, Kill, TypeOK,
         SameWorkers, Enter
    <3> QED  BY <1>2, <2>1, <2>4, <3>1, UnruledSteps
  <2> QED  BY <2>2, <2>3, <2>4
<1>7. GroupRowsHaveRuns'
  BY <1>1, GroupRowsStep DEF Account
<1>8. LibraryStands'
  BY <1>2 DEF LibraryStands, Account
<1> QED  BY <1>5, <1>6, <1>7, <1>8 DEF Account

\* A run begins with nothing on record and its workers waiting.
LEMMA BeginAccounts ==
  ASSUME RunInv, Account, NEW e \in Execs, Begin(e)
  PROVE  Account'
<1>1. PICK r \in RunIds : /\ BeginRun(r, Pipe(e))
                          /\ run' = [run EXCEPT ![e] = r]
                          /\ owner' = [owner EXCEPT ![r] = e]
  BY DEF Begin
<1>2. /\ mode[e] = "idle" /\ mode' = [mode EXCEPT ![e] = "groups"]
      /\ UNCHANGED <<cancel, recorded, verdict, worker, faults>>
      /\ UNCHANGED <<runGroup, runStage, runSignal, kept, library>>
      /\ status' = [status EXCEPT ![r] = "running"]
      /\ pipeline' = [pipeline EXCEPT ![r] = Pipe(e)]
      /\ TypeOK /\ StoreTypeOK /\ Owned(e) /\ RowsHaveRuns /\ GroupRowsHaveRuns
  BY <1>1 DEF Begin, Enter, BeginRun, RunInv, TypeOK, Discipline, Account
<1>3. ~Exists(r) /\ status[r] = "absent" /\ [StoreNext]_storeVars
  BY <1>1, BeginKeeps DEF BeginRun, IsNextRunId, RunIds, Exists, NoRun
<1>4. ASSUME NEW v \in Team PROVE Shown(v)'
  <2>1. /\ v[1] \in Execs /\ v[2] \in Groups /\ Shown(v) /\ Owned(v[1]) /\ Placed(v)
        /\ worker[v].stage \in Nat
    BY WorkerTypes DEF Team, Account, RunInv, Discipline
  <2>2. CASE v[1] # e
    <3>1. run'[v[1]] = run[v[1]] /\ mode'[v[1]] = mode[v[1]] /\ worker'[v] = worker[v]
      BY <1>1, <1>2, <2>1, <2>2 DEF TypeOK
    <3>2. mode[v[1]] \in Running => run[v[1]] \in RunIds /\ run[v[1]] # r
      BY <1>3, <2>1 DEF Owned
    <3>3. mode[v[1]] \in Running => Provisional(run[v[1]])' = Provisional(run[v[1]])
      <4>1. mode[v[1]] \in Running => /\ pipeline'[run[v[1]]] = pipeline[run[v[1]]]
                                      /\ status'[run[v[1]]] = status[run[v[1]]]
        BY <1>2, <3>2 DEF StoreTypeOK
      <4> QED  BY <3>1, <4>1 DEF Provisional, RetentionAt, Exists
    <3>4. RowsStand(v)
      BY <1>2, <3>3 DEF RowsStand
    <3> QED  BY <1>2, <2>1, <3>1, <3>4, StandingShows
  <2>3. CASE v[1] = e
    <3>1. /\ run'[v[1]] = r /\ worker[v].pc = "waiting" /\ worker[v].stage = 0
          /\ worker'[v] = worker[v] /\ worker[v].outcome = "ok"
      BY <1>1, <1>2, <2>1, <2>3 DEF Owned, Placed, TypeOK, Shown, Behind
    <3>2. /\ runGroup'[<<r, v[2]>>] = "none"
          /\ \A o \in Ordinals : runSignal'[<<r, v[2], o>>] = NoContent
      <4>1. \A o \in Ordinals : <<r, v[2], o>> \in AllPlaces
        BY <2>1 DEF AllPlaces
      <4> QED  BY <1>2, <1>3, <2>1, <4>1 DEF RowsHaveRuns, GroupRowsHaveRuns
    <3>3. Behind(v)'
      <4>1. \A o \in Ordinals : ~(o < 0)
        BY StoreAssumption
      <4> QED  BY <3>1, <4>1 DEF Behind, Done
    <3>4. Told(v)'
      BY <3>1, <3>2 DEF Told
    <3>5. Evident(v)'
      BY <3>1, <3>2 DEF Evident, Done, Sampled, Provisional
    <3> QED  BY <3>3, <3>4, <3>5 DEF Shown
  <2> QED  BY <2>2, <2>3
<1>5. ASSUME NEW d \in Execs PROVE Ruled(d)'
  <2>1. Ruled(d) /\ (mode'[d] = "finish" => mode[d] = "finish")
    BY <1>2 DEF Account, TypeOK
  <2> QED  BY <1>2, <2>1, UnruledSteps
<1>6. GroupRowsHaveRuns' /\ LibraryStands'
  BY <1>2, <1>3, GroupRowsStep DEF LibraryStands, Account
<1> QED  BY <1>4, <1>5, <1>6 DEF Account

LEMMA MaintainAccounts ==
  ASSUME NoneLive, RunInv, Account, Maintain
  PROVE  Account'
<1>1. [StoreNext]_storeVars /\ Spares /\ StoreTypeOK
      /\ UNCHANGED <<mode, run, owner, cancel, verdict, worker>>
  BY MaintainSpares DEF Maintain, execVars, RunInv, TypeOK
<1>2. ASSUME NEW v \in Team PROVE Shown(v)'
  <2>1. v[1] \in Execs /\ v[2] \in Groups /\ Shown(v) /\ Owned(v[1])
    BY DEF Team, Account, RunInv, Discipline
  <2>2. RowsStand(v)
    <3> SUFFICES ASSUME mode[v[1]] \in Running PROVE RowsStand(v)
      BY DEF RowsStand
    <3> DEFINE r == run[v[1]]
               g == v[2]
    <3>1. r \in RunIds /\ status[r] = "running" /\ status'[r] = "running"
      BY <1>1, <2>1 DEF Owned, Spares
    <3>2. /\ <<r, g>> \in RunIds \X Groups
          /\ \A o \in Ordinals : <<r, g, o>> \in Places /\ <<r, g, o>> \in AllPlaces
      BY <2>1, <3>1 DEF Places, AllPlaces
    <3>3. pipeline'[r] = pipeline[r]
      BY <1>1, <3>1 DEF Spares
    <3>4. run' = run
      BY <1>1
    <3>5. Provisional(r)' = Provisional(r)
      BY <3>1, <3>3, <3>4 DEF Provisional, RetentionAt, Exists
    <3>6. runGroup'[<<r, g>>] = runGroup[<<r, g>>]
            \/ (runGroup'[<<r, g>>] = "none" /\ g \notin library')
      BY <1>1, <3>1, <3>2 DEF Spares
    <3>7. \A o \in Ordinals : /\ runStage'[<<r, g, o>>] = runStage[<<r, g, o>>]
                              /\ runSignal'[<<r, g, o>>] = runSignal[<<r, g, o>>]
                              /\ <<r, g, o>> \in kept' <=> <<r, g, o>> \in kept
      BY <1>1, <3>1, <3>2 DEF Spares
    <3> QED  BY <3>5, <3>6, <3>7 DEF RowsStand
  <2>3. library' \subseteq library
    BY <1>1 DEF Spares
  <2> QED  BY <1>1, <2>1, <2>2, <2>3, StandingShows
<1>3. ASSUME NEW d \in Execs PROVE Ruled(d)'
  BY <1>1, UnruledSteps DEF Account
<1>4. GroupRowsHaveRuns' /\ LibraryStands'
  BY <1>1, GroupRowsStep DEF LibraryStands, Account, Spares
<1> QED  BY <1>2, <1>3, <1>4 DEF Account

LEMMA AccountStep ==
  ASSUME NoneLive, RunInv, Account, [Next]_vars
  PROVE  Account'
<1>1. CASE UNCHANGED vars
  <2>1. /\ UNCHANGED <<status, pipeline, runGroup, runStage, runSignal, kept, library>>
        /\ UNCHANGED <<mode, run, cancel, verdict, worker>> /\ UNCHANGED storeVars
    BY <1>1 DEF vars, storeVars, execVars
  <2>2. ASSUME NEW v \in Team PROVE Shown(v)'
    <3>1. RowsStand(v)
      BY <2>1 DEF RowsStand, Provisional, RetentionAt, Exists
    <3> QED  BY <2>1, <3>1, StandingShows DEF Account
  <2>3. ASSUME NEW d \in Execs PROVE Ruled(d)'
    BY <2>1, UnruledSteps DEF Account
  <2>4. GroupRowsHaveRuns' /\ LibraryStands'
    BY <2>1 DEF LibraryStands, Account, GroupRowsHaveRuns, Exists
  <2> QED  BY <2>2, <2>3, <2>4 DEF Account
<1> QED
  BY <1>1, WorkerAccounts, ExecAccounts, BeginAccounts, MaintainAccounts
  DEF Next, ExecStep, AllDone

LEMMA AccountInit ==
  ASSUME Init
  PROVE  Account
<1>1. ASSUME NEW w \in Team PROVE Shown(w)
  <2>1. /\ worker[w].pc = "waiting" /\ worker[w].stage = 0 /\ worker[w].outcome = "ok"
        /\ mode[w[1]] = "idle"
    BY DEF Init, Team
  <2> QED  BY <2>1 DEF Shown, Behind, Told, Evident, Done, Running
<1>2. \A e \in Execs : Ruled(e)
  BY DEF Init, Ruled
<1>3. GroupRowsHaveRuns /\ LibraryStands
  BY DEF Init, StoreInit, GroupRowsHaveRuns, LibraryStands
<1> QED  BY <1>1, <1>2, <1>3 DEF Account

\* What the two theorems below rest on beside RunInv.
THEOREM RunsAccountForThemselves ==
  ASSUME NoneLive
  PROVE  Spec => [](RunInv /\ Account)
<1>1. Init => Account
  BY AccountInit
<1>2. RunInv /\ Account /\ [Next]_vars => Account'
  BY AccountStep
<1>3. Spec => []RunInv
  BY RunInvariant
<1> QED  BY <1>1, <1>2, <1>3, PTL DEF Spec

-----------------------------------------------------------------------------
(* Verdicts and evidence *)

\* A run is finished by its execution, whose groups are in.
LEMMA FinishedBy ==
  ASSUME NoneLive, RunInv, [Next]_vars, NEW r \in RunIds, Finished(r)', ~Finished(r)
  PROVE  \E e \in Execs : /\ mode[e] = "finish" /\ run[e] = r
                          /\ FinishRun(r, verdict[e])
                          /\ UNCHANGED <<owner, cancel, worker>>
<1>1. ASSUME UNCHANGED status
      PROVE  FALSE
  BY <1>1 DEF Finished
<1>2. ASSUME NEW w \in Team, WorkerStep(w) \/ JobFails(w)
      PROVE  FALSE
  BY <1>1, <1>2, WorkerMoves DEF Moves, Local
<1>3. ASSUME NEW e \in Execs, Begin(e)
      PROVE  FALSE
  <2>1. PICK q \in RunIds : BeginRun(q, Pipe(e))
    BY <1>3 DEF Begin
  <2> QED  BY <2>1 DEF BeginRun, Finished, RunInv, TypeOK, StoreTypeOK
<1>4. ASSUME NEW e \in Execs,
             Tally(e) \/ RecordRunArtifacts(e) \/ Decide(e) \/ RunFails(e) \/ Cancel(e) \/ Kill(e)
      PROVE  FALSE
  BY <1>1, <1>4 DEF Tally, RecordRunArtifacts, Decide, RunFails, Cancel, Kill, storeVars
<1>5. CASE Maintain
  <2>1. status'[r] \in {status[r], "absent"}
    BY <1>5, MaintainSpares DEF Spares
  <2> QED  BY <2>1 DEF Finished
<1>6. ASSUME NEW e \in Execs, Finish(e)
      PROVE  /\ mode[e] = "finish" /\ run[e] = r
             /\ FinishRun(r, verdict[e]) /\ UNCHANGED <<owner, cancel, worker>>
  <2>1. FinishRun(run[e], verdict[e])
    BY <1>1, <1>6 DEF Finish, storeVars
  <2>2. run[e] = r
    BY <2>1 DEF FinishRun, Finished, RunInv, TypeOK, StoreTypeOK
  <2> QED  BY <1>6, <2>1, <2>2 DEF Finish, SameWorkers
<1>7. ~UNCHANGED vars
  BY <1>1 DEF vars, storeVars
<1> QED  BY <1>2, <1>3, <1>4, <1>5, <1>6, <1>7 DEF Next, ExecStep, AllDone

\* What VerdictHolds says of one run.
Judged(r) ==
  /\ status[r] = "ok" =>
       \A g \in JobOf(r).groups :
         /\ runGroup[<<r, g>>] = "ok"
         /\ \A o \in DOMAIN KindAt[pipeline[r]] : Passed(<<r, g, o>>)
  /\ status[r] = "failed" => \E g \in JobOf(r).groups : runGroup[<<r, g>>] # "ok"
  /\ status[r] = "cancelled" => cancel[owner[r]]

LEMMA JudgedIsTheVerdict == VerdictHolds <=> \A r \in RunIds : Judged(r)
BY DEF VerdictHolds, Judged, Passed

LEMMA CancelStays ==
  ASSUME RunInv, [Next]_vars, NEW e \in Execs, cancel[e]
  PROVE  cancel'[e]
<1>1. cancel \in [Execs -> BOOLEAN]
  BY DEF RunInv, TypeOK
<1>2. ASSUME NEW d \in Execs, Cancel(d)
      PROVE  cancel'[e]
  BY <1>1, <1>2 DEF Cancel
<1>3. ASSUME NEW w \in Team, WorkerStep(w) \/ JobFails(w)
      PROVE  cancel'[e]
  BY <1>3, WorkerMoves DEF Moves
<1>4. ASSUME NEW d \in Execs, ExecStep(d) \/ RunFails(d) \/ Kill(d)
      PROVE  cancel'[e]
  BY <1>4 DEF ExecStep, Begin, Tally, RecordRunArtifacts, Decide, Finish, RunFails, Kill, SameWorkers
<1> QED  BY <1>2, <1>3, <1>4 DEF Next, Maintain, AllDone, vars, execVars

\* A verdict, once given, is upheld by the rows that are there for good.
LEMMA StillJudged ==
  ASSUME RunInv, [Next]_vars, NEW r \in RunIds, Judged(r), Finished(r), Untouched(r)
  PROVE  Judged(r)'
<1>1. /\ owner[r] \in Execs /\ JobOf(r)' = JobOf(r) /\ JobOf(r).groups \subseteq Groups
      /\ owner'[r] = owner[r]
  BY JobTypes DEF RunInv, TypeOK, Untouched, JobOf
<1>2. pipeline'[r] = pipeline[r] /\ status'[r] = status[r] /\ DOMAIN KindAt[pipeline[r]] \subseteq Ordinals
  <2>1. Exists(r)
    BY RunsHaveIds DEF Finished, Exists
  <2>2. pipeline[r] \in Pipelines
    BY <2>1 DEF RunInv, RowsHaveRuns
  <2> QED  BY <2>2, SchedulerAssumption DEF Untouched
<1>3. \A g \in Groups : runGroup'[<<r, g>>] = runGroup[<<r, g>>]
  BY DEF Untouched
<1>4. \A g \in Groups, o \in Ordinals : runStage'[<<r, g, o>>] = runStage[<<r, g, o>>]
  <2> TAKE g \in Groups, o \in Ordinals
  <2>1. <<r, g, o>> \in Places
    BY DEF Places
  <2> QED  BY <2>1 DEF Untouched
<1>5. cancel[owner[r]] => cancel'[owner[r]]
  BY <1>1, CancelStays
<1> QED  BY <1>1, <1>2, <1>3, <1>4, <1>5 DEF Judged, Passed

\* A verdict is given over what the workers have to show.
LEMMA JudgedAtLast ==
  ASSUME "remove" \notin Upkeep, RunInv, Account, NEW e \in Execs, NEW r \in RunIds,
         mode[e] = "finish", run[e] = r, FinishRun(r, verdict[e]), UNCHANGED <<owner, cancel, worker>>
  PROVE  Judged(r)'
<1>1. /\ owner[r] = e /\ pipeline[r] = Pipe(e) /\ Pipe(e) \in Pipelines
      /\ JobOf(r).groups = Job[e].groups /\ Job[e].groups \subseteq Groups /\ Job[e].groups # {}
      /\ mode[e] \in Running
  BY JobTypes DEF RunInv, Discipline, Owned, Running, JobOf
<1>2. /\ status'[r] = verdict[e] /\ UNCHANGED <<pipeline, runGroup, runStage>>
      /\ library = Groups
  BY DEF FinishRun, RunInv, TypeOK, StoreTypeOK, Account, LibraryStands
<1>3. AllSettled(e)
  <2>1. r # NoRun
    BY RunsHaveIds
  <2> QED  BY <2>1 DEF RunInv, Discipline, Owned
<1>4. ASSUME NEW g \in Job[e].groups
      PROVE  LET w == <<e, g>> IN
             /\ w \in Team /\ worker[w].pc = "settled" /\ Shown(w)
             /\ runGroup[<<r, g>>] = "ok" => worker[w].outcome = "ok"
             /\ worker[w].outcome = "ok" =>
                  /\ runGroup[<<r, g>>] = "ok"
                  /\ \A o \in DOMAIN KindAt[pipeline[r]] : Passed(<<r, g, o>>)
  <2> DEFINE w == <<e, g>>
  <2>1. w \in Team /\ w[1] = e /\ w[2] = g /\ g \in library /\ worker[w].pc = "settled"
    BY <1>1, <1>2, <1>3 DEF Team, AllSettled
  <2>2. Shown(w) /\ worker[w].stage \in Nat
    BY <2>1, WorkerTypes DEF Account
  <2>3. /\ runGroup[<<r, g>>] = "ok" => worker[w].outcome = "ok"
        /\ worker[w].outcome = "ok" => runGroup[<<r, g>>] = "ok"
    BY <1>1, <2>1, <2>2 DEF Shown, Told
  <2>4. ASSUME worker[w].outcome = "ok", NEW o \in DOMAIN KindAt[pipeline[r]]
        PROVE  Passed(<<r, g, o>>)
    <3>1. o \in 0 .. LastStage(Pipe(e)) /\ LastStage(Pipe(e)) \in Int /\ o \in Ordinals
      BY <1>1, StagesAreCounted, SchedulerAssumption
    <3>2. worker[w].stage > LastStage(Pipe(e))
      BY <2>1, <2>2, <2>4 DEF Shown, Behind, Done
    <3>3. o < worker[w].stage
      <4> HIDE DEF w
      <4> QED  BY <2>2, <3>1, <3>2
    <3> QED  BY <1>1, <2>1, <2>2, <3>1, <3>3 DEF Shown, Behind
  <2> QED  BY <2>1, <2>2, <2>3, <2>4
<1>5. Ruled(e)
  BY DEF Account
<1>6. JobOf(r)' = JobOf(r) /\ owner'[r] = owner[r]
  BY DEF JobOf
<1>7. CASE verdict[e] = "ok"
  <2>1. \A g \in Job[e].groups : worker[<<e, g>>].outcome = "ok"
    BY <1>5, <1>7 DEF Ruled, Outcomes
  <2>2. \A g \in Job[e].groups :
          /\ runGroup[<<r, g>>] = "ok"
          /\ \A o \in DOMAIN KindAt[pipeline[r]] : Passed(<<r, g, o>>)
    BY <1>4, <2>1
  <2>3. status'[r] = "ok"
    BY <1>2, <1>7
  <2> QED  BY <1>1, <1>2, <1>6, <2>2, <2>3 DEF Judged, Passed
<1>8. CASE verdict[e] = "failed"
  <2>1. \E g \in Job[e].groups : worker[<<e, g>>].outcome # "ok"
    BY <1>1, <1>5, <1>8 DEF Ruled, Outcomes
  <2> QED  BY <1>1, <1>2, <1>4, <1>6, <1>8, <2>1 DEF Judged
<1>9. CASE verdict[e] \notin {"ok", "failed"}
  BY <1>1, <1>2, <1>5, <1>6, <1>9 DEF Judged, Ruled
<1> QED  BY <1>7, <1>8, <1>9

LEMMA VerdictStep ==
  ASSUME NoneLive, "remove" \notin Upkeep, RunInv, Account, VerdictHolds, [Next]_vars
  PROVE  VerdictHolds'
<1>1. ASSUME NEW r \in RunIds PROVE Judged(r)'
  <2>1. CASE ~Finished(r)'
    BY <2>1 DEF Finished, Judged
  <2>2. CASE Finished(r)' /\ Finished(r)
    <3>1. Untouched(r)
      BY <2>2, FinishedStep DEF Finished
    <3> QED  BY <2>2, <3>1, StillJudged, JudgedIsTheVerdict
  <2>3. CASE Finished(r)' /\ ~Finished(r)
    BY <2>3, FinishedBy, JudgedAtLast
  <2> QED  BY <2>1, <2>2, <2>3
<1> QED  BY <1>1 DEF VerdictHolds, Judged, Passed

\* A run's status is what became of its groups.
THEOREM VerdictsHold ==
  ASSUME NoneLive, "remove" \notin Upkeep
  PROVE  Spec => []VerdictHolds
<1>1. Init => VerdictHolds
  BY DEF Init, StoreInit, VerdictHolds
<1>2. RunInv /\ Account /\ VerdictHolds /\ [Next]_vars => VerdictHolds'
  BY VerdictStep
<1>3. Spec => [](RunInv /\ Account)
  BY RunsAccountForThemselves
<1> QED  BY <1>1, <1>2, <1>3, PTL DEF Spec

\* What EvidenceKept says of one group of one run, and of groups no run was asked for.
GroupEvident(r, g) ==
  \A o \in Provisional(r) :
    /\ runGroup[<<r, g>>] \in {"failed", "cancelled"} => Sampled(<<r, g, o>>)
    /\ runGroup[<<r, g>>] = "ok" => <<r, g, o>> \notin kept
AllEvident == \A r \in RunIds, g \in Groups : GroupEvident(r, g)

LEMMA EvidenceOfGroups ==
  ASSUME RunInv, AllEvident
  PROVE  EvidenceKept
<1>1. \A r \in RunIds : JobOf(r).groups \subseteq Groups
  BY JobTypes DEF RunInv, TypeOK, JobOf
<1> QED  BY <1>1 DEF AllEvident, GroupEvident, EvidenceKept, Sampled

\* A group whose rows stand, or that has no row left to ask for any.
LEMMA EvidenceStands ==
  ASSUME NEW r \in RunIds, NEW g \in Groups, GroupEvident(r, g),
         \A o \in Provisional(r)' : o \in Provisional(r),
         \/ runGroup'[<<r, g>>] = "none"
         \/ /\ runGroup'[<<r, g>>] = runGroup[<<r, g>>]
            /\ \A o \in Ordinals :
                 /\ runSignal'[<<r, g, o>>] = runSignal[<<r, g, o>>]
                 /\ <<r, g, o>> \in kept' <=> <<r, g, o>> \in kept
  PROVE  GroupEvident(r, g)'
<1>1. Provisional(r) \subseteq Ordinals
  BY DEF Provisional
<1> QED  BY <1>1 DEF GroupEvident, Sampled

LEMMA WorkerEvident ==
  ASSUME RunInv, Account, AllEvident, \A e \in Execs : Job[e].cap = Unlimited,
         NEW w \in Team, WorkerStep(w) \/ JobFails(w)
  PROVE  AllEvident'
<1>1. Moves(w) /\ Live(w) /\ Local(run[w[1]], w[2]) /\ Shown(w)'
  BY WorkerMoves, WorkerAccounts DEF Moves, Account
<1>2. UNCHANGED <<mode, run, status, pipeline>> /\ mode[w[1]] \in Running
  BY <1>1, MovesInPlace
<1>3. ASSUME NEW r \in RunIds, NEW g \in Groups
      PROVE  GroupEvident(r, g)'
  <2>1. GroupEvident(r, g) /\ Provisional(r)' = Provisional(r)
    BY <1>2 DEF AllEvident, Provisional, RetentionAt, Exists
  <2>2. CASE r = run[w[1]] /\ g = w[2]
    <3>1. run'[w[1]] = r /\ mode'[w[1]] \in Running /\ Job[w[1]].cap = Unlimited
      BY <1>1, <1>2, <2>2 DEF Live
    <3>2. runGroup'[<<r, g>>] \in {"ok", "failed", "cancelled"} =>
            worker'[w].pc = "settled" /\ worker'[w].outcome = runGroup'[<<r, g>>]
      BY <1>1, <2>2, <3>1 DEF Shown, Told
    <3>3. ASSUME runGroup'[<<r, g>>] \in {"failed", "cancelled"}, NEW o \in Provisional(r)
          PROVE  runSignal'[<<r, g, o>>] # NoContent => <<r, g, o>> \in kept'
      <4>1. /\ worker'[w].pc = "settled" /\ worker'[w].outcome # "error" /\ ~Done(worker'[w])
            /\ o \in Provisional(run[w[1]])'
        BY <1>2, <2>1, <2>2, <3>2, <3>3 DEF Done
      <4> QED  BY <1>1, <1>2, <2>2, <3>1, <4>1 DEF Shown, Evident, Sampled
    <3>4. ASSUME runGroup'[<<r, g>>] = "ok", NEW o \in Provisional(r)
          PROVE  <<r, g, o>> \notin kept'
      <4>1. Done(worker'[w]) /\ o \in Provisional(run[w[1]])'
        BY <1>2, <2>1, <2>2, <3>2, <3>4 DEF Done
      <4> QED  BY <1>1, <1>2, <2>2, <3>1, <4>1 DEF Shown, Evident
    <3> QED  BY <2>1, <3>3, <3>4 DEF GroupEvident, Sampled
  <2>3. CASE ~(r = run[w[1]] /\ g = w[2])
    <3>1. \A o \in Ordinals : <<r, g, o>> \in AllPlaces
      BY DEF AllPlaces
    <3>2. /\ runGroup'[<<r, g>>] = runGroup[<<r, g>>]
          /\ \A o \in Ordinals :
               /\ runSignal'[<<r, g, o>>] = runSignal[<<r, g, o>>]
               /\ <<r, g, o>> \in kept' <=> <<r, g, o>> \in kept
      BY <1>1, <2>3, <3>1 DEF Local
    <3> QED  BY <2>1, <3>2, EvidenceStands
  <2> QED  BY <2>2, <2>3
<1> QED  BY <1>3 DEF AllEvident

LEMMA RestEvident ==
  ASSUME NoneLive, RunInv, Account, AllEvident,
         \/ \E e \in Execs : ExecStep(e) \/ RunFails(e) \/ Cancel(e) \/ Kill(e)
         \/ Maintain \/ UNCHANGED vars
  PROVE  AllEvident'
<1>1. ASSUME NEW r \in RunIds, NEW g \in Groups
      PROVE  GroupEvident(r, g)'
  <2>1. GroupEvident(r, g) /\ StoreTypeOK /\ RowsHaveRuns /\ GroupRowsHaveRuns
        /\ \A o \in Ordinals : <<r, g, o>> \in AllPlaces
    BY DEF AllEvident, RunInv, TypeOK, Account, AllPlaces
  <2>2. ASSUME UNCHANGED <<pipeline, runGroup, runSignal, kept>>, Exists(r)' => Exists(r)
        PROVE  GroupEvident(r, g)'
    <3>1. \A o \in Provisional(r)' : o \in Provisional(r)
      BY <2>2 DEF Provisional, RetentionAt
    <3> QED  BY <2>1, <2>2, <3>1, EvidenceStands
  <2>3. CASE UNCHANGED storeVars
    BY <2>2, <2>3 DEF storeVars, Exists
  <2>4. ASSUME NEW e \in Execs, Finish(e)
        PROVE  GroupEvident(r, g)'
    <3>1. FinishRun(run[e], verdict[e]) \/ UNCHANGED storeVars
      BY <2>4 DEF Finish
    <3>2. CASE FinishRun(run[e], verdict[e])
      BY <2>1, <2>2, <3>2 DEF FinishRun, Exists, StoreTypeOK
    <3> QED  BY <2>3, <3>1, <3>2
  <2>5. ASSUME NEW e \in Execs, Begin(e)
        PROVE  GroupEvident(r, g)'
    <3>1. PICK q \in RunIds : BeginRun(q, Pipe(e))
      BY <2>5 DEF Begin
    <3>2. /\ ~Exists(q) /\ UNCHANGED <<runGroup, runSignal, kept>>
          /\ status' = [status EXCEPT ![q] = "running"]
          /\ pipeline' = [pipeline EXCEPT ![q] = Pipe(e)]
      BY <3>1 DEF BeginRun, IsNextRunId, RunIds
    <3>3. CASE r = q
      <4>1. runGroup'[<<r, g>>] = "none"
        BY <2>1, <3>2, <3>3 DEF GroupRowsHaveRuns
      <4> QED  BY <4>1 DEF GroupEvident
    <3>4. CASE r # q
      <4>1. Provisional(r)' = Provisional(r)
        BY <2>1, <3>2, <3>4 DEF Provisional, RetentionAt, Exists, StoreTypeOK
      <4> QED  BY <2>1, <3>2, <4>1, EvidenceStands
    <3> QED  BY <3>3, <3>4
  <2>6. ASSUME NEW e \in Execs,
               Tally(e) \/ RecordRunArtifacts(e) \/ Decide(e) \/ RunFails(e) \/ Cancel(e) \/ Kill(e)
        PROVE  GroupEvident(r, g)'
    BY <2>3, <2>6 DEF Tally, RecordRunArtifacts, Decide, RunFails, Cancel, Kill
  <2>7. CASE Maintain
    <3>1. Spares
      BY <2>7, MaintainSpares
    <3>2. CASE status'[r] = "absent"
      <4>1. \A o \in Ordinals : o \notin Provisional(r)'
        BY <3>2 DEF Provisional, RetentionAt, Exists
      <4>2. Provisional(r)' \subseteq Ordinals
        BY DEF Provisional
      <4> QED  BY <4>1, <4>2 DEF GroupEvident
    <3>3. CASE status'[r] # "absent"
      <4>1. Provisional(r)' = Provisional(r)
        BY <3>1, <3>3 DEF Spares, Provisional, RetentionAt, Exists
      <4>2. /\ runGroup'[<<r, g>>] = "none" \/ runGroup'[<<r, g>>] = runGroup[<<r, g>>]
            /\ \A o \in Ordinals :
                 /\ runSignal'[<<r, g, o>>] = runSignal[<<r, g, o>>]
                 /\ <<r, g, o>> \in kept' <=> <<r, g, o>> \in kept
        BY <2>1, <3>1, <3>3 DEF Spares
      <4> QED  BY <2>1, <4>1, <4>2, EvidenceStands
    <3> QED  BY <3>2, <3>3
  <2> QED
    BY <2>3, <2>4, <2>5, <2>6, <2>7 DEF ExecStep, vars
<1> QED  BY <1>1 DEF AllEvident

LEMMA EvidentStep ==
  ASSUME NoneLive, \A e \in Execs : Job[e].cap = Unlimited,
         RunInv, Account, AllEvident, [Next]_vars
  PROVE  AllEvident'
<1>1. CASE \E w \in Team : WorkerStep(w) \/ JobFails(w)
  BY <1>1, WorkerEvident
<1>2. CASE ~\E w \in Team : WorkerStep(w) \/ JobFails(w)
  BY <1>2, RestEvident DEF Next, AllDone
<1> QED  BY <1>1, <1>2

\* A group that failed still has the on_failure samples of every stage it got through, one that
\* passed has none, in whatever order stages, sweeps, cancellations and deletions interleave;
\* with no cap, which may turn samples away.
THEOREM EvidenceStays ==
  ASSUME NoneLive, \A e \in Execs : Job[e].cap = Unlimited
  PROVE  Spec => []EvidenceKept
<1>1. Init => AllEvident
  BY DEF Init, StoreInit, AllEvident, GroupEvident, Provisional, RetentionAt, Exists
<1>2. RunInv /\ Account /\ AllEvident /\ [Next]_vars => AllEvident'
  BY EvidentStep
<1>3. RunInv /\ AllEvident => EvidenceKept
  BY EvidenceOfGroups
<1>4. Spec => [](RunInv /\ Account)
  BY RunsAccountForThemselves
<1> QED  BY <1>1, <1>2, <1>3, <1>4, PTL DEF Spec

-----------------------------------------------------------------------------
(* The cold run, stage by stage *)

\* A set of numbers that is not empty has a least one.
LEMMA LeastOf ==
  ASSUME NEW S \in SUBSET Nat, S # {}
  PROVE  \E n \in S : \A m \in S : n <= m
<1>1. PICK n \in S : \A m \in S : ~(<<m, n>> \in OpToRel(<, Nat))
  BY NatLessThanWellFounded, WFMin
<1>2. \A m \in S : ~(m < n)
  BY <1>1 DEF OpToRel
<1> QED  BY <1>2

\* What stage o of pipeline p makes of frame f, the cache apart.
Onward(p, o, f) == CHOOSE next \in Applied(KindAt[p][o], f) : TRUE
Follows(p, g, n, f) ==
  f = [o \in -1 .. n |-> IF o = -1 THEN FrameOf(Source[g], GroupAttr[g]) ELSE Onward(p, o, f[o - 1])]

LEMMA SomeFollows ==
  ASSUME NEW p, NEW g, NEW n \in Int, n >= -1
  PROVE  \E f : Follows(p, g, n, f)
<1> DEFINE F0 == FrameOf(Source[g], GroupAttr[g])
           S == {m \in Nat : ~\E f : Follows(p, g, m - 1, f)}
<1>1. S = {}
  <2> SUFFICES ASSUME S # {} PROVE FALSE
    OBVIOUS
  <2>1. PICK m \in S : \A k \in S : m <= k
    BY LeastOf
  <2> HIDE DEF S
  <2>2. CASE m = 0
    <3>1. Follows(p, g, -1, [o \in -1 .. -1 |-> F0])
      BY DEF Follows
    <3> QED  BY <2>1, <2>2, <3>1 DEF S
  <2>3. CASE m # 0
    <3>1. m \in Nat /\ m - 1 \in Nat /\ m - 1 \notin S
      BY <2>1, <2>3 DEF S
    <3>2. PICK f : Follows(p, g, m - 1 - 1, f)
      BY <3>1 DEF S
    <3> DEFINE h == [o \in -1 .. m - 1 |-> IF o = m - 1 THEN Onward(p, m - 1, f[m - 1 - 1]) ELSE f[o]]
    <3>3. \A o \in -1 .. m - 1 :
            h[o] = IF o = -1 THEN F0 ELSE Onward(p, o, h[o - 1])
      <4> SUFFICES ASSUME NEW o \in -1 .. m - 1
                   PROVE  h[o] = IF o = -1 THEN F0 ELSE Onward(p, o, h[o - 1])
        OBVIOUS
      <4>1. \A i \in -1 .. m - 1 - 1 :
              f[i] = IF i = -1 THEN F0 ELSE Onward(p, i, f[i - 1])
        BY <3>2 DEF Follows
      <4>2. \A i \in -1 .. m - 1 - 1 : h[i] = f[i]
        BY <3>1
      <4>3. CASE o = m - 1
        <5>1. m - 1 - 1 \in -1 .. m - 1 - 1 /\ o # -1 /\ o - 1 = m - 1 - 1
          BY <3>1, <4>3
        <5>2. h[o] = Onward(p, o, f[m - 1 - 1])
          BY <4>3
        <5> QED  BY <4>2, <5>1, <5>2
      <4>4. CASE o # m - 1 /\ o # -1
        <5>1. o \in -1 .. m - 1 - 1 /\ o - 1 \in -1 .. m - 1 - 1
          BY <3>1, <4>4
        <5> QED  BY <4>1, <4>2, <4>4, <5>1
      <4>5. CASE o # m - 1 /\ o = -1
        <5>1. o \in -1 .. m - 1 - 1
          BY <3>1, <4>5
        <5> QED  BY <4>1, <4>2, <4>5, <5>1
      <4> QED  BY <4>3, <4>4, <4>5
    <3>4. Follows(p, g, m - 1, h)
      <4>1. h = [o \in -1 .. m - 1 |-> h[o]]
        OBVIOUS
      <4> HIDE DEF h
      <4> QED  BY <3>3, <4>1 DEF Follows
    <3> QED  BY <2>1, <3>4 DEF S
  <2> QED  BY <2>2, <2>3
<1>2. n + 1 \in Nat /\ (n + 1) - 1 = n
  OBVIOUS
<1> QED  BY <1>1, <1>2

\* The cold run of a group, stage by stage.
LEMMA ColdFollows ==
  ASSUME NEW p \in Pipelines, NEW g
  PROVE  /\ Cold(p, g)[-1] = FrameOf(Source[g], GroupAttr[g])
         /\ \A o \in 0 .. LastStage(p) : Cold(p, g)[o] = Onward(p, o, Cold(p, g)[o - 1])
<1>1. LastStage(p) \in Int /\ LastStage(p) >= -1
  BY StagesAreCounted
<1>2. Cold(p, g) = CHOOSE f : Follows(p, g, LastStage(p), f)
  BY DEF Cold, Follows, Onward
<1>3. Follows(p, g, LastStage(p), Cold(p, g))
  BY <1>1, <1>2, SomeFollows
<1>4. -1 \in -1 .. LastStage(p) /\ \A o \in 0 .. LastStage(p) : o \in -1 .. LastStage(p) /\ o # -1
  BY <1>1
<1> QED  BY <1>3, <1>4 DEF Follows
-----------------------------------------------------------------------------
(* Rows that stay *)

\* No run is deleted: what a lookup has found is there when it is copied.
NoneDeleted == "delete" \notin Upkeep /\ "delete_live" \notin Upkeep /\ "prune" \notin Upkeep

\* The row of a stage that is done is written once.
Stands(p) == /\ runStage'[p] = runStage[p] /\ runSignal'[p] = runSignal[p]
             /\ pipeline'[p[1]] = pipeline[p[1]]

LEMMA PassedExists ==
  ASSUME RunInv, NEW p \in Places, Passed(p)
  PROVE  p \in AllPlaces /\ p[1] \in RunIds /\ Exists(p[1])
<1>1. p \in AllPlaces /\ p[1] \in RunIds
  BY PlacesAreAllPlaces DEF Places
<1>2. ~Unrecorded(p)
  BY DEF Passed, Unrecorded, NoStageRow
<1> QED  BY <1>1, <1>2 DEF RunInv, RowsHaveRuns, Unrecorded

\* What a worker writes of stages: the row of the one it is at, if that.
LEMMA WorkerWrites ==
  ASSUME RunInv, NEW w \in Team, WorkerStep(w) \/ JobFails(w)
  PROVE  /\ UNCHANGED pipeline
         /\ \/ \A p \in Places : runStage'[p] = runStage[p] /\ runSignal'[p] = runSignal[p]
            \/ /\ Copy(w) \/ FinishStage(w) \/ FailStage(w)
               /\ OnlyPlace(At(w)) /\ At(w) \in Places /\ Unrecorded(At(w))
<1>1. Moves(w) /\ Live(w) /\ StoreTypeOK /\ run[w[1]] \in RunIds /\ w[2] \in Groups
  BY WorkerMoves DEF Moves, Live, RunInv, TypeOK
<1>2. UNCHANGED pipeline
  BY <1>1 DEF Moves, Local
<1>3. ASSUME UNCHANGED <<runStage, runSignal>>
      PROVE  \A p \in Places : runStage'[p] = runStage[p] /\ runSignal'[p] = runSignal[p]
  BY <1>3
<1>4. ASSUME RecordSource(run[w[1]], w[2]) \/ RecordSourceRefused(run[w[1]], w[2])
      PROVE  \A p \in Places : runStage'[p] = runStage[p] /\ runSignal'[p] = runSignal[p]
  <2>1. /\ OnlyPlace(<<run[w[1]], w[2], SourceStage>>) /\ UNCHANGED runStage
    BY <1>1, <1>4, SourceWrites
  <2>2. \A p \in Places : p \in AllPlaces /\ p # <<run[w[1]], w[2], SourceStage>>
    BY PlacesAreAllPlaces, SourceIsNoOrdinal DEF Places
  <2> QED  BY <2>1, <2>2 DEF OnlyPlace
<1>5. CASE StoreSource(w) \/ JobFails(w)
  BY <1>2, <1>3, <1>4, <1>5 DEF StoreSource, JobFails, storeVars
<1>6. CASE OpenGroup(w) \/ CloseGroup(w) \/ ForgetStale(w) \/ Sweep(w)
  BY <1>2, <1>3, <1>6
  DEF OpenGroup, CloseGroup, ForgetStale, Sweep, RecordGroup, CacheForget, ForgetSamples, storeVars
<1>7. CASE StartGroup(w) \/ BeginStage(w) \/ Recall(w) \/ Rebuild(w) \/ Assess(w)
  BY <1>2, <1>3, <1>7 DEF StartGroup, BeginStage, Recall, Rebuild, Assess, OnlyWorker, storeVars
<1>8. CASE Copy(w) \/ FinishStage(w) \/ FailStage(w)
  <2>1. /\ worker[w].pc \in Recording /\ worker[w].pc \in {"copy", "process"}
    BY <1>8 DEF Copy, FinishStage, FailStage, Ready, Recording, Pcs
  <2>2. worker[w].stage <= LastStage(Pipe(w[1]))
    BY <2>1, WorkerTypes DEF Placed, AtStage
  <2>3. /\ At(w) \in Places /\ At(w) = <<run[w[1]], w[2], worker[w].stage>>
        /\ worker[w].stage \in Ordinals /\ Unrecorded(At(w))
    BY <1>1, <2>1, <2>2, StageIsUnrecorded
  <2>4. ASSUME \/ RecordFailure(At(w), KeyAt(w))
               \/ \E c, keep, publish : RecordOutput(At(w), c, KeyAt(w), keep, publish)
               \/ \E from, metrics : CopyOutput(from, At(w), KeyAt(w), metrics)
        PROVE  OnlyPlace(At(w))
    BY <1>1, <2>3, <2>4, StageWrites
  <2>5. CASE Copy(w)
    BY <1>2, <1>3, <1>8, <2>3, <2>4, <2>5 DEF Copy, storeVars
  <2>6. CASE FailStage(w)
    BY <1>2, <1>3, <1>8, <2>3, <2>4, <2>6 DEF FailStage, storeVars
  <2>7. CASE FinishStage(w)
    <3>1. UNCHANGED storeVars
            \/ \E c, keep, publish : RecordOutput(At(w), c, KeyAt(w), keep, publish)
      BY <2>7 DEF FinishStage
    <3> QED  BY <1>2, <1>3, <1>8, <2>3, <2>4, <3>1 DEF storeVars
  <2> QED  BY <1>8, <2>5, <2>6, <2>7
<1> QED  BY <1>5, <1>6, <1>7, <1>8 DEF WorkerStep

\* Whoever else takes a step, the rows of stages stay as they are, and no key is published.
LEMMA RestStands ==
  ASSUME NoneDeleted, RunInv, [Next]_vars, ~\E w \in Team : WorkerStep(w) \/ JobFails(w)
  PROVE  /\ UNCHANGED <<worker, runStage, runSignal>>
         /\ \A r \in RunIds : Exists(r) => pipeline'[r] = pipeline[r]
         /\ \A k \in Keys : cache'[k] \in {cache[k], NoPlace}
<1>1. CASE UNCHANGED vars
  BY <1>1 DEF vars, storeVars, execVars
<1>2. ASSUME NEW e \in Execs, Begin(e)
      PROVE  /\ UNCHANGED <<worker, runStage, runSignal, cache>>
             /\ \A r \in RunIds : Exists(r) => pipeline'[r] = pipeline[r]
  <2>1. PICK q \in RunIds : BeginRun(q, Pipe(e))
    BY <1>2 DEF Begin
  <2>2. ~Exists(q)
    BY <2>1 DEF BeginRun, IsNextRunId, RunIds
  <2> QED  BY <1>2, <2>1, <2>2 DEF Begin, BeginRun, RunInv, TypeOK, StoreTypeOK
<1>3. ASSUME NEW e \in Execs,
             Tally(e) \/ RecordRunArtifacts(e) \/ Decide(e) \/ Finish(e) \/ RunFails(e)
               \/ Cancel(e) \/ Kill(e)
      PROVE  UNCHANGED <<worker, runStage, runSignal, cache, pipeline>>
  BY <1>3 DEF Tally, RecordRunArtifacts, Decide, Finish, FinishRun, RunFails, Cancel, Kill,
     SameWorkers, storeVars
<1>4. CASE Maintain
  <2>1. UNCHANGED <<worker, runStage, runSignal, pipeline>>
    BY <1>4 DEF Maintain, NoneDeleted, ClearCache, Promote, DeleteBaseline, DeleteGroup, execVars
  <2>2. \A k \in Keys : cache'[k] \in {cache[k], NoPlace}
    BY <1>4 DEF Maintain, NoneDeleted, ClearCache, Promote, DeleteBaseline, DeleteGroup
  <2> QED  BY <2>1, <2>2
<1> QED  BY <1>1, <1>2, <1>3, <1>4 DEF Next, ExecStep, AllDone

LEMMA PassedStands ==
  ASSUME NoneDeleted, RunInv, [Next]_vars, NEW p \in Places, Passed(p)
  PROVE  Stands(p) /\ Passed(p)'
<1>1. p[1] \in RunIds /\ Exists(p[1]) /\ p \in AllPlaces /\ ~Unrecorded(p)
  BY PassedExists DEF Passed, Unrecorded, NoStageRow
<1>2. ASSUME NEW w \in Team, WorkerStep(w) \/ JobFails(w)
      PROVE  Stands(p)
  BY <1>1, <1>2, WorkerWrites DEF OnlyPlace, Stands
<1>3. ASSUME ~\E w \in Team : WorkerStep(w) \/ JobFails(w)
      PROVE  Stands(p)
  BY <1>1, <1>3, RestStands DEF Stands
<1>4. Stands(p)
  BY <1>2, <1>3
<1> QED  BY <1>4 DEF Stands, Passed

-----------------------------------------------------------------------------
(* What a lookup finds *)

\* What a worker has found in the cache, and what it has read of it.
Holds(w) ==
  worker[w].pc \in {"recall", "copy"} =>
    /\ Passed(worker[w].hit)
    /\ worker[w].pc = "copy" => worker[w].metrics

Found == /\ \A p \in Places : runSignal[p] # NoContent => Passed(p)
         /\ \A p \in Places : Passed(p) => runStage[p].metrics
         /\ \A k \in Keys : cache[k] # NoPlace => Passed(cache[k])
         /\ \A w \in Team : Holds(w)

\* A worker with nothing found, or with what it found before.
LEMMA StillHolds ==
  ASSUME NoneDeleted, RunInv, [Next]_vars, NEW w \in Team, Holds(w),
         \/ worker'[w].pc \notin {"recall", "copy"}
         \/ worker'[w] = worker[w]
  PROVE  Holds(w)'
<1>1. CASE worker'[w].pc \notin {"recall", "copy"}
  BY <1>1 DEF Holds
<1>2. CASE worker'[w] = worker[w] /\ worker[w].pc \in {"recall", "copy"}
  <2>1. worker[w].hit \in Places
    BY <1>2, WorkerTypes DEF Placed
  <2>2. Passed(worker[w].hit)'
    <3> DEFINE h == worker[w].hit
    <3>1. runStage'[h] = runStage[h] /\ Passed(h)
      BY <1>2, <2>1, PassedStands DEF Holds, Stands
    <3> QED  BY <1>2, <3>1 DEF Passed
  <2> QED  BY <1>2, <2>2 DEF Holds
<1> QED  BY <1>1, <1>2

\* Where a worker goes next; a key is followed in BeginStage only.
LEMMA WorkerHolds ==
  ASSUME NoneDeleted, RunInv, Found, [Next]_vars, NEW w \in Team, WorkerStep(w) \/ JobFails(w)
  PROVE  Holds(w)'
<1>1. /\ Moves(w) /\ Holds(w) /\ worker[w] \in Workers
      /\ worker[w].hit \in Places \cup {NoPlace}
      /\ {"source", "open", "stage", "copy", "stale", "process", "rebuild", "assess", "sweep",
          "close", "settled"} \subseteq Pcs
  BY WorkerMoves, WorkerTypes DEF Found, Pcs
<1>2. ASSUME NEW pc \in Pcs \ {"recall", "copy"}, Go(w, [worker[w] EXCEPT !.pc = pc])
      PROVE  Holds(w)'
  BY <1>1, <1>2, GoesOn, StillHolds
<1>3. ASSUME NEW pc \in Pcs \ {"recall", "copy"}, NEW o \in {"ok", "failed", "cancelled", "error"},
             Go(w, [worker[w] EXCEPT !.pc = pc, !.outcome = o])
      PROVE  Holds(w)'
  BY <1>1, <1>3, GoesTo, StillHolds
<1>4. CASE Abort(w)
  BY <1>1, <1>3, <1>4 DEF Abort
<1>5. CASE BeginStage(w)
  <2> DEFINE hit == IF Job[w[1]].useCache /\ Stage(w) \in Pure THEN cache[KeyAt(w)] ELSE NoPlace
             next == [worker[w] EXCEPT !.pc = IF hit = NoPlace THEN "process" ELSE "recall",
                                       !.hit = hit]
  <2>1. CASE worker[w].stage <= LastStage(Pipe(w[1])) /\ Go(w, next)
    <3>1. hit \in Places \cup {NoPlace} /\ (hit # NoPlace => Passed(hit))
      BY <2>1, StageTypes DEF RunInv, TypeOK, StoreTypeOK, Found
    <3> HIDE DEF hit
    <3>2. /\ next \in Workers /\ next.hit = hit
          /\ next.pc = IF hit = NoPlace THEN "process" ELSE "recall"
      BY <1>1, <3>1 DEF Workers, Pcs
    <3>3. worker'[w] = next
      BY <2>1, <3>2, GoTypes
    <3>4. runStage' = runStage
      BY <1>5 DEF BeginStage, OnlyWorker, storeVars
    <3> HIDE DEF next
    <3> QED  BY <3>1, <3>2, <3>3, <3>4 DEF Holds, Passed
  <2> QED  BY <1>1, <1>2, <1>4, <1>5, <2>1 DEF BeginStage
<1>6. CASE Recall(w)
  <2> DEFINE row == runStage[worker[w].hit]
             next == [worker[w] EXCEPT !.pc = "copy", !.metrics = row.metrics]
  <2>1. worker[w].hit \in Places /\ Passed(worker[w].hit) /\ row.metrics
    BY <1>1, <1>6, WorkerTypes DEF Recall, Ready, Placed, Holds, Found
  <2>2. row.metrics \in BOOLEAN
    BY <2>1 DEF RunInv, TypeOK, StoreTypeOK, StageRows
  <2>3. Go(w, next) /\ runStage' = runStage
    BY <1>6 DEF Recall, OnlyWorker, storeVars
  <2>4. row.metrics
    BY <2>1
  <2> HIDE DEF row
  <2>5. next \in Workers /\ next.pc = "copy" /\ next.hit = worker[w].hit
    BY <1>1, <2>2 DEF Workers, Pcs
  <2>6. next.metrics = row.metrics
    BY <1>1, <2>2 DEF Workers
  <2>7. worker'[w] = next
    BY <2>3, <2>5, GoTypes
  <2> HIDE DEF next
  <2> QED  BY <2>1, <2>3, <2>4, <2>5, <2>6, <2>7 DEF Holds, Passed
<1>7. CASE ForgetStale(w)
  <2> DEFINE next == [worker[w] EXCEPT !.pc = "process", !.hit = NoPlace]
  <2>1. next \in Workers /\ next.pc = "process"
    BY <1>1 DEF Workers, Pcs
  <2>2. worker'[w] = next
    BY <1>7, <2>1, GoTypes DEF ForgetStale
  <2> HIDE DEF next
  <2> QED  BY <1>1, <2>1, <2>2, StillHolds
<1>8. ASSUME NEW f \in Frames, Go(w, PastStage(w, f))
      PROVE  Holds(w)'
  BY <1>1, <1>8, GoesPast, StillHolds
<1>9. CASE Rebuild(w)
  <2>1. worker[w].stage <= LastStage(Pipe(w[1])) /\ Live(w)
    BY <1>1, <1>9, WorkerTypes DEF Rebuild, Ready, Placed, AtStage, Moves
  <2>2. At(w) \in AllPlaces
    BY <2>1, StageTypes DEF At, AllPlaces, Live, RunInv
  <2>3. FrameOf(runSignal[At(w)], worker[w].frame.attr) \in Frames
    BY <2>2, WorkerTypes DEF RunInv, TypeOK, StoreTypeOK, Frames, FrameOf
  <2> QED  BY <1>4, <1>8, <1>9, <2>3 DEF Rebuild
<1>10. CASE FinishStage(w)
  <2>1. /\ worker[w].stage <= LastStage(Pipe(w[1])) /\ worker[w].frame \in Frames
    BY <1>1, <1>10, WorkerTypes DEF FinishStage, Ready, Placed, AtStage
  <2>2. Stage(w) \in Kinds
    BY <2>1, StageTypes DEF RunInv
  <2>3. PICK f \in Applied(Stage(w), worker[w].frame) :
          \/ Go(w, [worker[w] EXCEPT !.pc = "rebuild", !.frame = f])
          \/ Go(w, PastStage(w, f))
          \/ Abort(w)
    BY <1>10 DEF FinishStage
  <2>4. f \in Frames
    BY <2>1, <2>2, AppliedTypes
  <2>5. ASSUME Go(w, [worker[w] EXCEPT !.pc = "rebuild", !.frame = f])
        PROVE  Holds(w)'
    <3> DEFINE next == [worker[w] EXCEPT !.pc = "rebuild", !.frame = f]
    <3>1. next \in Workers /\ next.pc = "rebuild"
      BY <1>1, <2>4 DEF Workers, Pcs
    <3>2. worker'[w] = next
      BY <2>5, <3>1, GoTypes
    <3> HIDE DEF next
    <3> QED  BY <1>1, <3>1, <3>2, StillHolds
  <2> QED  BY <1>4, <1>8, <2>3, <2>4, <2>5
<1>11. CASE StartGroup(w) \/ StoreSource(w) \/ OpenGroup(w) \/ Sweep(w) \/ CloseGroup(w)
  BY <1>1, <1>2, <1>4, <1>11 DEF StartGroup, StoreSource, OpenGroup, Sweep, CloseGroup
<1>12. CASE FailStage(w)
  BY <1>1, <1>3, <1>4, <1>12 DEF FailStage
<1>13. CASE Assess(w)
  BY <1>1, <1>2, <1>3, <1>4, <1>13 DEF Assess
<1>14. CASE Copy(w)
  BY <1>1, <1>2, <1>4, <1>14 DEF Copy
<1>15. CASE JobFails(w)
  BY <1>4, <1>15 DEF JobFails
<1> QED
  BY <1>5, <1>6, <1>7, <1>9, <1>10, <1>11, <1>12, <1>13, <1>14, <1>15 DEF WorkerStep

\* What a copy and a finished stage put on record.
LEMMA CopyWrites ==
  ASSUME RunInv, NEW w \in Team, Copy(w)
  PROVE  \/ UNCHANGED storeVars
         \/ /\ OnlyPlace(At(w)) /\ At(w) \in Places /\ worker[w].hit \in Places /\ UNCHANGED cache
            /\ runSignal[worker[w].hit] # NoContent
            /\ runSignal'[At(w)] = runSignal[worker[w].hit]
            /\ runStage'[At(w)].status = "cached"
            /\ runStage'[At(w)].metrics = worker[w].metrics
            /\ Go(w, [worker[w] EXCEPT !.pc = "rebuild"])
<1>1. /\ worker[w].pc = "copy" /\ worker[w].pc \in Recording /\ Live(w) /\ StoreTypeOK
      /\ run[w[1]] \in RunIds /\ w[2] \in Groups
  BY ReadyIsLive DEF Copy, Ready, Recording, Pcs, Live, RunInv, TypeOK
<1>2. worker[w].stage <= LastStage(Pipe(w[1])) /\ worker[w].hit \in Places
  BY <1>1, WorkerTypes DEF Placed, AtStage
<1>3. /\ At(w) \in Places /\ At(w) = <<run[w[1]], w[2], worker[w].stage>>
      /\ worker[w].stage \in Ordinals /\ At(w) \in AllPlaces
  BY <1>1, <1>2, StageIsUnrecorded, PlacesAreAllPlaces
<1>4. ASSUME CopyOutput(worker[w].hit, At(w), KeyAt(w), worker[w].metrics)
      PROVE  /\ OnlyPlace(At(w)) /\ UNCHANGED cache /\ runSignal[worker[w].hit] # NoContent
             /\ runSignal'[At(w)] = runSignal[worker[w].hit]
             /\ runStage'[At(w)].status = "cached"
             /\ runStage'[At(w)].metrics = worker[w].metrics
  <2>1. OnlyPlace(At(w))
    BY <1>1, <1>3, <1>4, StageWrites
  <2> QED
    BY <1>1, <1>3, <1>4, <2>1 DEF CopyOutput, Copyable, Insert, StoreTypeOK
<1> QED  BY <1>2, <1>3, <1>4 DEF Copy, storeVars

\* The frame a stage made is on record, and its key published or not.
Made(w, f, keep) ==
  /\ OnlyPlace(At(w)) /\ At(w) \in Places
  /\ runSignal'[At(w)] = f.content
  /\ runStage'[At(w)].status = "ok" /\ runStage'[At(w)].metrics
  /\ \A k \in Keys : cache'[k] = IF k = KeyAt(w) /\ Publishes(w, keep) THEN At(w) ELSE cache[k]
  /\ Go(w, IF keep THEN [worker[w] EXCEPT !.pc = "rebuild", !.frame = f] ELSE PastStage(w, f))

\* Its samples are kept, and what of them is new is claimed.
Claimed(w, f, keep) ==
  /\ kept' = IF keep /\ f.content # NoContent THEN kept \cup {At(w)} ELSE kept
  /\ recorded' = IF keep /\ Job[w[1]].cap # Unlimited
                 THEN [recorded EXCEPT ![w[1]] = @ + FreshBytes(Stage(w), f)] ELSE recorded

LEMMA FinishWrites ==
  ASSUME RunInv, NEW w \in Team, FinishStage(w)
  PROVE  \/ UNCHANGED storeVars /\ Abort(w)
         \/ \E f \in Applied(Stage(w), worker[w].frame), keep \in BOOLEAN :
              /\ f \in Frames /\ Made(w, f, keep) /\ Claimed(w, f, keep)
              /\ keep <=> /\ Retention[Pipe(w[1])][worker[w].stage] # "never"
                          /\ Fits(w[1], FreshBytes(Stage(w), f))
<1> DEFINE keeps(f) == Retention[Pipe(w[1])][worker[w].stage] # "never"
                         /\ Fits(w[1], FreshBytes(Stage(w), f))
<1>1. /\ worker[w].pc = "process" /\ worker[w].pc \in Recording /\ Live(w) /\ StoreTypeOK
      /\ run[w[1]] \in RunIds /\ w[2] \in Groups
  BY ReadyIsLive DEF FinishStage, Ready, Recording, Pcs, Live, RunInv, TypeOK
<1>2. worker[w].stage <= LastStage(Pipe(w[1])) /\ worker[w].frame \in Frames
  BY <1>1, WorkerTypes DEF Placed, AtStage
<1>3. /\ At(w) \in Places /\ At(w) = <<run[w[1]], w[2], worker[w].stage>>
      /\ worker[w].stage \in Ordinals /\ At(w) \in AllPlaces /\ runSignal[At(w)] = NoContent
      /\ Stage(w) \in Kinds
  BY <1>1, <1>2, StageIsUnrecorded, PlacesAreAllPlaces, StageTypes DEF RunInv
<1>4. PICK f \in Applied(Stage(w), worker[w].frame) :
        /\ recorded' = IF keeps(f) /\ Job[w[1]].cap # Unlimited
                       THEN [recorded EXCEPT ![w[1]] = @ + FreshBytes(Stage(w), f)] ELSE recorded
        /\ IF CanRecord(w, f, keeps(f))
           THEN /\ RecordOutput(At(w), f.content, KeyAt(w), keeps(f), Publishes(w, keeps(f)))
                /\ Go(w, IF keeps(f) THEN [worker[w] EXCEPT !.pc = "rebuild", !.frame = f]
                                     ELSE PastStage(w, f))
           ELSE UNCHANGED storeVars /\ Abort(w)
  BY DEF FinishStage
<1>5. f \in Frames
  BY <1>2, <1>3, AppliedTypes
<1>6. PICK keep \in BOOLEAN : keep <=> keeps(f)
  OBVIOUS
<1> HIDE DEF keeps
<1>7. keep = keeps(f)
  <2>1. keeps(f) \in BOOLEAN
    BY DEF keeps
  <2> QED  BY <1>6, <2>1
<1>8. CASE RecordOutput(At(w), f.content, KeyAt(w), keep, Publishes(w, keep))
           /\ Go(w, IF keep THEN [worker[w] EXCEPT !.pc = "rebuild", !.frame = f]
                            ELSE PastStage(w, f))
  <2>1. OnlyPlace(At(w))
    BY <1>1, <1>3, <1>8, StageWrites
  <2>2. runSignal'[At(w)] = f.content
    BY <1>1, <1>3, <1>8 DEF RecordOutput, Insert, StoreTypeOK
  <2>3. runStage'[At(w)].status = "ok" /\ runStage'[At(w)].metrics
    BY <1>1, <1>3, <1>8 DEF RecordOutput, StoreTypeOK
  <2>4. \A k \in Keys : cache'[k] = IF k = KeyAt(w) /\ Publishes(w, keep) THEN At(w) ELSE cache[k]
    BY <1>1, <1>8 DEF RecordOutput, StoreTypeOK
  <2>5. Made(w, f, keep)
    BY <1>3, <1>8, <2>1, <2>2, <2>3, <2>4 DEF Made
  <2>6. Claimed(w, f, keep)
    <3>1. kept' = IF keep /\ f.content # NoContent THEN kept \cup {At(w)} ELSE kept
      BY <1>8 DEF RecordOutput
    <3> QED  BY <1>4, <1>7, <3>1 DEF Claimed
  <2> QED  BY <1>5, <1>6, <2>5, <2>6 DEF keeps
<1> QED  BY <1>4, <1>7, <1>8

\* A worker publishes what it made, or nothing.
LEMMA CacheWrites ==
  ASSUME RunInv, NEW w \in Team, WorkerStep(w) \/ JobFails(w), ~FinishStage(w)
  PROVE  \A k \in Keys : cache'[k] \in {cache[k], NoPlace}
<1>1. StoreTypeOK
  BY DEF RunInv, TypeOK
<1>2. CASE UNCHANGED cache
  BY <1>2
<1>3. CASE ForgetStale(w)
  BY <1>1, <1>3 DEF ForgetStale, CacheForget, StoreTypeOK
<1>4. CASE ~ForgetStale(w)
  <2>1. UNCHANGED cache
    BY <1>4 DEF WorkerStep, StartGroup, StoreSource, OpenGroup, BeginStage, Recall, Copy,
       Rebuild, FailStage, Assess, Sweep, CloseGroup, JobFails, OnlyWorker, storeVars,
       RecordSource, RecordSourceRefused, RecordGroup, CopyOutput, RecordFailure, ForgetSamples
  <2> QED  BY <2>1
<1> QED  BY <1>3, <1>4

LEMMA FoundStep ==
  ASSUME NoneDeleted, RunInv, Found, [Next]_vars
  PROVE  Found'
<1>1. \A p \in Places : Passed(p) => Stands(p) /\ Passed(p)'
  BY PassedStands
<1>2. ASSUME NEW w \in Team PROVE Holds(w)'
  <2>1. Holds(w)
    BY DEF Found
  <2>2. CASE worker'[w] = worker[w]
    BY <2>1, <2>2, StillHolds
  <2>3. CASE worker'[w] # worker[w]
    <3>1. PICK v \in Team : WorkerStep(v) \/ JobFails(v)
      BY <2>3, RestStands
    <3>2. v = w
      BY <2>3, <3>1, WorkerMoves DEF Moves
    <3> QED  BY <3>1, <3>2, WorkerHolds
  <2> QED  BY <2>2, <2>3
<1>3. ASSUME NEW p \in Places
      PROVE  /\ runSignal'[p] # NoContent => Passed(p)'
             /\ Passed(p)' => runStage'[p].metrics
  <2>1. CASE Passed(p)
    BY <1>1, <2>1 DEF Stands, Found
  <2>2. CASE ~Passed(p) /\ runStage'[p] = runStage[p] /\ runSignal'[p] = runSignal[p]
    BY <2>2 DEF Found, Passed
  <2>3. CASE ~Passed(p) /\ ~(runStage'[p] = runStage[p] /\ runSignal'[p] = runSignal[p])
    <3>1. PICK w \in Team : WorkerStep(w) \/ JobFails(w)
      BY <2>3, RestStands
    <3>2. /\ Copy(w) \/ FinishStage(w) \/ FailStage(w)
          /\ OnlyPlace(At(w)) /\ At(w) \in Places /\ Unrecorded(At(w)) /\ p \in AllPlaces
      BY <2>3, <3>1, WorkerWrites, PlacesAreAllPlaces
    <3>3. p = At(w)
      BY <2>3, <3>2 DEF OnlyPlace
    <3>4. CASE FinishStage(w)
      <4>1. \/ UNCHANGED storeVars
            \/ /\ runStage'[At(w)].status = "ok" /\ runStage'[At(w)].metrics
        BY <3>4, FinishWrites DEF Made
      <4> QED  BY <2>3, <3>3, <4>1 DEF storeVars, Passed
    <3>5. CASE Copy(w)
      <4>1. worker[w].metrics
        BY <3>5 DEF Found, Holds, Copy, Ready
      <4> QED  BY <2>3, <3>3, <3>5, <4>1, CopyWrites DEF storeVars, Passed
    <3>6. CASE FailStage(w)
      <4>1. UNCHANGED storeVars \/ RecordFailure(At(w), KeyAt(w))
        BY <3>6 DEF FailStage
      <4>2. runSignal' = runSignal
        BY <4>1 DEF storeVars, RecordFailure
      <4>3. CASE RecordFailure(At(w), KeyAt(w))
        <5>1. runStage'[p].status = "failed"
          BY <3>2, <3>3, <4>3 DEF RecordFailure, RunInv, TypeOK, StoreTypeOK
        <5> QED  BY <2>3, <4>2, <5>1 DEF Passed, Found
      <4> QED  BY <2>3, <4>1, <4>3 DEF storeVars
    <3> QED  BY <3>2, <3>4, <3>5, <3>6
  <2> QED  BY <2>1, <2>2, <2>3
<1>5. ASSUME NEW k \in Keys, cache'[k] # NoPlace
      PROVE  runStage'[cache'[k]].status \in {"ok", "cached"}
  <2>1. CASE cache'[k] = cache[k]
    <3>1. cache[k] \in Places /\ Passed(cache[k])
      BY <1>5, <2>1 DEF Found, RunInv, TypeOK, StoreTypeOK
    <3>2. runStage'[cache[k]] = runStage[cache[k]]
      BY <1>1, <3>1 DEF Stands
    <3> QED  BY <2>1, <3>1, <3>2 DEF Passed
  <2>2. CASE cache'[k] # cache[k]
    <3>1. PICK w \in Team : WorkerStep(w) \/ JobFails(w)
      BY <1>5, <2>2, RestStands
    <3>2. FinishStage(w)
      BY <1>5, <2>2, <3>1, CacheWrites
    <3>3. ~UNCHANGED storeVars
      BY <2>2 DEF storeVars
    <3>4. PICK f \in Applied(Stage(w), worker[w].frame), keep \in BOOLEAN : Made(w, f, keep)
      BY <3>2, <3>3, FinishWrites
    <3> QED  BY <2>2, <3>4 DEF Made
  <2> QED  BY <2>1, <2>2
<1> QED  BY <1>2, <1>3, <1>5 DEF Found, Passed

LEMMA FoundInit ==
  ASSUME Init
  PROVE  Found
BY PlacesAreAllPlaces DEF Init, StoreInit, Found, Holds, Passed, NoStageRow

\* A stage answered from the cache carries the metrics of the one it stands in for, and a key
\* is of a stage that is done: with no run deleted between the lookup, the reading of the
\* metrics and the copy, which are three jobs (reuse_cached).
THEOREM CachedRowsKeepMetrics ==
  ASSUME NoneDeleted
  PROVE  Spec => []CachedRowKeepsMetrics
<1>1. NoneLive
  BY DEF NoneDeleted, NoneLive
<1>2. Init => Found
  BY FoundInit
<1>3. RunInv /\ Found /\ [Next]_vars => Found'
  BY FoundStep
<1>4. Found => CachedRowKeepsMetrics
  BY DEF Found, CachedRowKeepsMetrics, Passed
<1>5. Spec => []RunInv
  BY <1>1, RunInvariant
<1> QED  BY <1>2, <1>3, <1>4, <1>5, PTL DEF Spec

-----------------------------------------------------------------------------
(* What the cache answers *)

\* The samples of a pure stage's output do not hang on the group's attribute, which no key holds.
AttrBlind ==
  \A k \in Fresh \cap Pure, d \in Data, t \in Times, a, b \in Attrs :
    Transform[k][<<d, t, a>>] = Transform[k][<<d, t, b>>]

\* A frame in memory is hashed without its timebase: either there is one timebase only, or every
\* stage's output is stored, and read back, before the next stage is looked up.
OneTime == \A t, u \in Times : t = u
TimesAreTold ==
  OneTime \/ \A e \in Execs : /\ Job[e].cap = Unlimited
                              /\ \A o \in DOMAIN KindAt[Pipe(e)] : Retention[Pipe(e)][o] # "never"

\* What a pure kind makes of samples c, whatever the attribute.
StepOf(kind, c) ==
  IF kind \in Fresh /\ c # NoContent
  THEN [data |-> Transform[kind][<<c.data, c.time, CHOOSE a \in Attrs : TRUE>>], time |-> c.time]
  ELSE c

LEMMA AppliedStep ==
  ASSUME AttrBlind, NEW kind \in Pure, NEW f \in Frames, NEW n \in Applied(kind, f)
  PROVE  n.content = StepOf(kind, f.content)
<1>1. /\ f.content \in Contents \cup {NoContent} /\ f.attr \in Attrs
      /\ Contents = [data : Data, time : Times]
  BY SchedulerAssumption DEF Frames
<1>2. (CHOOSE a \in Attrs : TRUE) \in Attrs
  BY <1>1
<1> DEFINE any == CHOOSE a \in Attrs : TRUE
<1>3. any \in Attrs
  BY <1>2
<1>4. StepOf(kind, f.content) =
        IF kind \in Fresh /\ f.content # NoContent
        THEN [data |-> Transform[kind][<<f.content.data, f.content.time, any>>],
              time |-> f.content.time]
        ELSE f.content
  BY DEF StepOf
<1> HIDE DEF any
<1>5. CASE kind \in Fresh /\ f.content # NoContent
  <2>1. f.content.data \in Data /\ f.content.time \in Times
    BY <1>1, <1>5
  <2>2. n.content = [data |-> Transform[kind][<<f.content.data, f.content.time, f.attr>>],
                     time |-> f.content.time]
    BY <1>5 DEF Applied, NewData
  <2>3. Transform[kind][<<f.content.data, f.content.time, f.attr>>]
          = Transform[kind][<<f.content.data, f.content.time, any>>]
    BY <1>1, <1>3, <1>5, <2>1 DEF AttrBlind
  <2> QED  BY <1>4, <1>5, <2>2, <2>3
<1>6. CASE ~(kind \in Fresh /\ f.content # NoContent)
  <2>1. n = [f EXCEPT !.attr = Patched(kind, f)]
    BY <1>6 DEF Applied
  <2>2. n.content = f.content
    BY <2>1 DEF Frames
  <2> QED  BY <1>4, <1>6, <2>2
<1> QED  BY <1>5, <1>6

LEMMA SomeApplied ==
  ASSUME NEW kind \in Kinds, NEW f \in Frames
  PROVE  (CHOOSE n \in Applied(kind, f) : TRUE) \in Applied(kind, f)
<1>1. Applied(kind, f) # {}
  <2>1. CASE kind \in Fresh /\ f.content # NoContent
    <3>1. f.content.data \in Data
      BY <2>1, SchedulerAssumption DEF Frames
    <3>2. NewData(kind, f) # {}
      BY <3>1 DEF NewData
    <3> QED  BY <2>1, <3>2 DEF Applied
  <2> QED  BY <2>1 DEF Applied
<1> QED  BY <1>1

\* What a cold run holds at each stage is a frame.
LEMMA ColdTypes ==
  ASSUME NEW p \in Pipelines, NEW g \in Groups
  PROVE  \A o \in -1 .. LastStage(p) : Cold(p, g)[o] \in Frames
<1> DEFINE S == {m \in Nat : m - 1 <= LastStage(p) /\ Cold(p, g)[m - 1] \notin Frames}
<1>1. LastStage(p) \in Int /\ LastStage(p) >= -1 /\ DOMAIN KindAt[p] = 0 .. LastStage(p)
  BY StagesAreCounted
<1>2. S = {}
  <2> SUFFICES ASSUME S # {} PROVE FALSE
    OBVIOUS
  <2>1. PICK m \in S : \A k \in S : m <= k
    BY LeastOf
  <2>2. m \in Nat /\ m - 1 <= LastStage(p) /\ Cold(p, g)[m - 1] \notin Frames
    BY <2>1
  <2>3. m # 0
    <3>1. FrameOf(Source[g], GroupAttr[g]) \in Frames
      BY SchedulerAssumption, StoreAssumption DEF FrameOf, Frames
    <3>2. 0 - 1 = -1
      OBVIOUS
    <3> QED  BY <2>2, <3>1, <3>2, ColdFollows
  <2>4. m - 1 \in Nat /\ m - 1 \notin S /\ m - 1 \in 0 .. LastStage(p) /\ m - 1 - 1 <= LastStage(p)
    <3>1. m - 1 \in Nat /\ ~(m <= m - 1)
      BY <2>2, <2>3
    <3>2. m - 1 \in 0 .. LastStage(p) /\ m - 1 - 1 <= LastStage(p)
      BY <1>1, <2>2, <3>1
    <3> QED  BY <2>1, <3>1, <3>2
  <2>5. Cold(p, g)[m - 1 - 1] \in Frames
    BY <2>4
  <2> HIDE DEF S
  <2>6. Cold(p, g)[m - 1] = Onward(p, m - 1, Cold(p, g)[m - 1 - 1])
    BY <2>4, ColdFollows
  <2>7. KindAt[p][m - 1] \in Kinds
    BY <1>1, <2>4, SchedulerAssumption
  <2>8. Cold(p, g)[m - 1] \in Applied(KindAt[p][m - 1], Cold(p, g)[m - 1 - 1])
    BY <2>5, <2>6, <2>7, SomeApplied DEF Onward
  <2> QED  BY <2>2, <2>5, <2>7, <2>8, AppliedTypes
<1>3. ASSUME NEW o \in -1 .. LastStage(p) PROVE Cold(p, g)[o] \in Frames
  <2>1. o + 1 \in Nat /\ (o + 1) - 1 = o /\ o <= LastStage(p)
    BY <1>1
  <2>2. o + 1 \notin S
    BY <1>2
  <2> QED  BY <2>1, <2>2
<1> QED  BY <1>3

ColdSamples(p, g, o) == Cold(p, g)[o].content

LEMMA ColdSteps ==
  ASSUME AttrBlind, NEW p \in Pipelines, NEW g \in Groups
  PROVE  /\ ColdSamples(p, g, -1) = Source[g]
         /\ \A o \in 0 .. LastStage(p) :
              KindAt[p][o] \in Pure =>
                ColdSamples(p, g, o) = StepOf(KindAt[p][o], ColdSamples(p, g, o - 1))
<1>1. ColdSamples(p, g, -1) = Source[g]
  <2>1. Cold(p, g)[-1] = FrameOf(Source[g], GroupAttr[g])
    BY ColdFollows
  <2>2. ColdSamples(p, g, -1) = FrameOf(Source[g], GroupAttr[g]).content
    BY <2>1 DEF ColdSamples
  <2> QED  BY <2>2 DEF FrameOf
<1>2. ASSUME NEW o \in 0 .. LastStage(p), KindAt[p][o] \in Pure
      PROVE  ColdSamples(p, g, o) = StepOf(KindAt[p][o], ColdSamples(p, g, o - 1))
  <2>1. o - 1 \in -1 .. LastStage(p)
    BY StagesAreCounted
  <2>2. Cold(p, g)[o - 1] \in Frames
    BY <2>1, ColdTypes
  <2>3. KindAt[p][o] \in Kinds
    BY <1>2, SchedulerAssumption
  <2>4. Cold(p, g)[o] \in Applied(KindAt[p][o], Cold(p, g)[o - 1])
    BY <2>2, <2>3, ColdFollows, SomeApplied DEF Onward
  <2> QED  BY <1>2, <2>2, <2>4, AppliedStep DEF ColdSamples
<1> QED  BY <1>1, <1>2

\* The samples the key stands for; the output recorded under it answers for all of them.
Suits(c, k) == /\ k.data = (IF c = NoContent THEN NoData ELSE c.data)
               /\ c # NoContent /\ k.time # NoTime => k.time = c.time
Answers(k, p) ==
  /\ Passed(p)
  /\ \A c \in Contents \cup {NoContent} : Suits(c, k) => runSignal[p] = StepOf(k.kind, c)

\* A key is asked for by samples it suits.
LEMMA KeySuits ==
  ASSUME NEW kind, NEW f \in Frames
  PROVE  Suits(f.content, StageKey(kind, f)) /\ StageKey(kind, f).kind = kind
BY DEF Suits, StageKey

\* The key of samples that are stored suits no others.
LEMMA KeyTells ==
  ASSUME NEW kind, NEW f \in Frames, NEW c \in Contents \cup {NoContent},
         f.content # NoContent => f.stored \/ OneTime,
         Suits(c, StageKey(kind, f))
  PROVE  c = f.content
<1>1. /\ f.content \in Contents \cup {NoContent} /\ Contents = [data : Data, time : Times]
      /\ NoData \notin Data /\ NoTime \notin Times
  BY SchedulerAssumption DEF Frames
<1>2. /\ c # NoContent => c.data \in Data /\ c.time \in Times
      /\ f.content # NoContent => f.content.data \in Data /\ f.content.time \in Times
  BY <1>1
<1>3. c = NoContent <=> f.content = NoContent
  BY <1>1, <1>2 DEF Suits, StageKey
<1>4. CASE c # NoContent
  <2>1. f.content.data = c.data
    BY <1>3, <1>4 DEF Suits, StageKey
  <2>2. f.content.time = c.time
    BY <1>1, <1>2, <1>3, <1>4 DEF Suits, StageKey, OneTime
  <2>3. c \in [data : Data, time : Times] /\ f.content \in [data : Data, time : Times]
    BY <1>1, <1>3, <1>4
  <2> QED  BY <2>1, <2>2, <2>3
<1> QED  BY <1>3, <1>4

-----------------------------------------------------------------------------
(* The cache tells the truth *)

Ended == {"rebuild", "close", "settled"}

\* What a worker found answers for the stage it is at.
Asked(w) ==
  worker[w].pc \in {"recall", "copy"} =>
    Stage(w) \in Pure /\ Answers(KeyAt(w), worker[w].hit)
\* The frame a worker holds is the one a cold run would hold, and can be told from others.
Aligned(w) ==
  LET ws == worker[w]
      p == Pipe(w[1])
  IN ws.pc \notin Ended =>
       /\ PureTo(p, ws.stage - 1) => ws.frame.content = ColdSamples(p, w[2], ws.stage - 1)
       /\ ws.frame.content # NoContent => ws.frame.stored \/ OneTime
AtWork(w) == Asked(w) /\ Aligned(w)

RowIsCold(p) == Passed(p) /\ PureTo(pipeline[p[1]], p[3]) =>
                  runSignal[p] = ColdSamples(pipeline[p[1]], p[2], p[3])
Warm == /\ \A p \in Places : RowIsCold(p)
        /\ \A k \in Keys : cache[k] # NoPlace => Answers(k, cache[k])
        /\ \A w \in Team : AtWork(w)

\* A stage that makes of its frame what a pure kind makes of it keeps up with the cold run.
LEMMA KeepsUp ==
  ASSUME AttrBlind, RunInv, NEW w \in Team, Aligned(w), worker[w].pc \notin Ended,
         worker[w].stage <= LastStage(Pipe(w[1])), PureTo(Pipe(w[1]), worker[w].stage)
  PROVE  /\ Stage(w) \in Pure
         /\ StepOf(Stage(w), worker[w].frame.content)
              = ColdSamples(Pipe(w[1]), w[2], worker[w].stage)
<1> DEFINE o == worker[w].stage
           p == Pipe(w[1])
<1>1. /\ o \in Nat /\ LastStage(p) \in Int /\ p \in Pipelines /\ w[2] \in Groups
  BY WorkerTypes, JobTypes DEF Team
<1>2. o \in 0 .. LastStage(p) /\ o \in 0 .. o /\ \A i \in 0 .. o - 1 : i \in 0 .. o
  BY <1>1
<1>3. PureTo(p, o) /\ o <= LastStage(p)
  OBVIOUS
<1>4. Aligned(w) => (PureTo(p, o - 1) => worker[w].frame.content = ColdSamples(p, w[2], o - 1))
  BY DEF Aligned
<1> HIDE DEF o, p
<1>5. KindAt[p][o] \in Pure /\ PureTo(p, o - 1)
  BY <1>2, <1>3 DEF PureTo
<1>6. worker[w].frame.content = ColdSamples(p, w[2], o - 1)
  BY <1>4, <1>5
<1>7. StepOf(KindAt[p][o], worker[w].frame.content) = ColdSamples(p, w[2], o)
  BY <1>1, <1>2, <1>5, <1>6, ColdSteps
<1> QED  BY <1>5, <1>7 DEF o, p, Stage

\* A worker that goes on with the frame it has.
LEMMA QuietAtWork ==
  ASSUME NEW w \in Team, AtWork(w), worker'[w].pc \notin {"recall", "copy"},
         \/ worker'[w].pc \in Ended
         \/ /\ worker[w].pc \notin Ended
            /\ worker'[w].stage = worker[w].stage /\ worker'[w].frame = worker[w].frame
  PROVE  AtWork(w)'
<1>1. Asked(w)'
  BY DEF Asked
<1>2. Aligned(w)'
  BY DEF AtWork, Aligned, Pipe
<1> QED  BY <1>1, <1>2 DEF AtWork

LEMMA GoesWith ==
  ASSUME RunInv, NEW w \in Team, NEW pc \in Pcs,
         Go(w, [worker[w] EXCEPT !.pc = pc])
  PROVE  /\ worker'[w].pc = pc /\ worker'[w].stage = worker[w].stage
         /\ worker'[w].frame = worker[w].frame /\ worker'[w].hit = worker[w].hit
<1> DEFINE next == [worker[w] EXCEPT !.pc = pc]
<1>1. /\ next \in Workers /\ next.pc = pc /\ next.stage = worker[w].stage
      /\ next.frame = worker[w].frame /\ next.hit = worker[w].hit
  BY WorkerTypes DEF Workers
<1>2. worker'[w] = next
  BY <1>1, GoTypes
<1> HIDE DEF next
<1> QED  BY <1>1, <1>2

LEMMA PastAtWork ==
  ASSUME RunInv, NEW w \in Team, NEW f \in Frames, Go(w, PastStage(w, f)),
         PureTo(Pipe(w[1]), worker[w].stage) =>
           f.content = ColdSamples(Pipe(w[1]), w[2], worker[w].stage),
         f.content # NoContent => f.stored \/ OneTime
  PROVE  AtWork(w)'
<1> DEFINE next == PastStage(w, f)
<1>1. worker[w].stage + 1 \in Nat /\ (worker[w].stage + 1) - 1 = worker[w].stage
  BY WorkerTypes
<1>2. /\ next \in Workers /\ next.pc = "stage" /\ next.stage = worker[w].stage + 1
      /\ next.frame = f
  BY <1>1, WorkerTypes DEF Workers, Pcs, PastStage
<1>3. worker'[w] = next
  BY <1>2, GoTypes
<1> HIDE DEF next
<1>4. worker'[w].pc = "stage" /\ worker'[w].stage - 1 = worker[w].stage /\ worker'[w].frame = f
  BY <1>1, <1>2, <1>3
<1>5. Asked(w)'
  BY <1>4 DEF Asked
<1>6. Aligned(w)'
  BY <1>4 DEF Aligned, Pipe
<1> QED  BY <1>5, <1>6 DEF AtWork

LEMMA StillAtWork ==
  ASSUME NoneDeleted, RunInv, [Next]_vars, NEW w \in Team, AtWork(w),
         worker[w].pc \notin Ended,
         worker'[w].stage = worker[w].stage, worker'[w].frame = worker[w].frame,
         worker'[w].hit = worker[w].hit,
         worker'[w].pc \notin Ended,
         worker'[w].pc \in {"recall", "copy"} => worker[w].pc \in {"recall", "copy"}
  PROVE  AtWork(w)'
<1>1. CASE worker'[w].pc \notin {"recall", "copy"}
  BY <1>1, QuietAtWork
<1>2. CASE worker'[w].pc \in {"recall", "copy"}
  <2> DEFINE h == worker[w].hit
  <2>1. h \in Places /\ Answers(KeyAt(w), h) /\ Stage(w) \in Pure
    BY <1>2, WorkerTypes DEF Placed, AtWork, Asked
  <2>2. runStage'[h] = runStage[h] /\ runSignal'[h] = runSignal[h]
    BY <2>1, PassedStands DEF Answers, Stands
  <2>3. KeyAt(w)' = KeyAt(w) /\ Stage(w)' = Stage(w)
    BY DEF KeyAt, Stage, Pipe
  <2>4. Passed(h) /\ \A c \in Contents \cup {NoContent} :
                       Suits(c, KeyAt(w)) => runSignal[h] = StepOf(KeyAt(w).kind, c)
    BY <2>1 DEF Answers
  <2> DEFINE k == KeyAt(w)
  <2>5. worker'[w].hit = h /\ KeyAt(w)' = k
    BY <2>3
  <2> HIDE DEF h
  <2>6. /\ runStage'[h].status \in {"ok", "cached"}
        /\ \A c \in Contents \cup {NoContent} :
             Suits(c, k) => runSignal'[h] = StepOf(k.kind, c)
    BY <2>2, <2>4 DEF Passed
  <2> HIDE DEF k
  <2>7. Answers(KeyAt(w), worker[w].hit)'
    BY <2>5, <2>6 DEF Answers, Passed
  <2>8. Asked(w)'
    BY <2>1, <2>3, <2>7 DEF Asked
  <2>9. Aligned(w)'
    BY DEF AtWork, Aligned, Pipe
  <2> QED  BY <2>8, <2>9 DEF AtWork
<1> QED  BY <1>1, <1>2

\* The lookup: what the cache has for the key answers for the stage.
LEMMA BeginAtWork ==
  ASSUME NoneDeleted, RunInv, Warm, [Next]_vars, NEW w \in Team, BeginStage(w)
  PROVE  AtWork(w)'
<1> DEFINE hit == IF Job[w[1]].useCache /\ Stage(w) \in Pure THEN cache[KeyAt(w)] ELSE NoPlace
           next == [worker[w] EXCEPT !.pc = IF hit = NoPlace THEN "process" ELSE "recall",
                                     !.hit = hit]
<1>1. /\ worker[w].pc = "stage" /\ AtWork(w) /\ worker[w] \in Workers
      /\ worker[w].pc \notin Ended
      /\ {"assess", "settled", "process", "recall"} \subseteq Pcs
      /\ "assess" \notin Ended /\ "settled" \in Ended
  BY WorkerTypes DEF BeginStage, Ready, Warm, Ended, Pcs
<1>2. CASE worker[w].stage <= LastStage(Pipe(w[1])) /\ Go(w, next)
  <2>1. /\ hit \in Places \cup {NoPlace}
        /\ hit # NoPlace => Stage(w) \in Pure /\ Answers(KeyAt(w), hit) /\ hit \in Places
    BY <1>2, StageTypes DEF RunInv, TypeOK, StoreTypeOK, Warm
  <2> HIDE DEF hit
  <2>2. /\ next \in Workers /\ next.hit = hit /\ next.stage = worker[w].stage
        /\ next.frame = worker[w].frame
        /\ next.pc = IF hit = NoPlace THEN "process" ELSE "recall"
    BY <1>1, <2>1 DEF Workers, Pcs
  <2>3. worker'[w] = next
    BY <1>2, <2>2, GoTypes
  <2>4. UNCHANGED <<runStage, runSignal>>
    BY DEF BeginStage, OnlyWorker, storeVars
  <2> HIDE DEF next
  <2>5. CASE hit = NoPlace
    <3>1. worker'[w].pc = "process" /\ "process" \notin Ended
      BY <2>2, <2>3, <2>5 DEF Ended
    <3> QED  BY <1>1, <2>2, <2>3, <3>1, QuietAtWork
  <2>6. CASE hit # NoPlace
    <3> DEFINE k == KeyAt(w)
    <3>1. KeyAt(w)' = k /\ Stage(w)' = Stage(w)
      BY <2>2, <2>3 DEF KeyAt, Stage, Pipe
    <3>2. Passed(hit) /\ \A c \in Contents \cup {NoContent} :
                           Suits(c, k) => runSignal[hit] = StepOf(k.kind, c)
      BY <2>1, <2>6 DEF Answers
    <3>3. worker'[w].hit = hit
      BY <2>2, <2>3
    <3> HIDE DEF k
    <3>4. Answers(KeyAt(w), worker[w].hit)'
      BY <2>4, <3>1, <3>2, <3>3 DEF Answers, Passed
    <3>5. Asked(w)'
      BY <2>1, <2>6, <3>1, <3>4 DEF Asked
    <3>6. Aligned(w)'
      BY <1>1, <2>2, <2>3 DEF AtWork, Aligned, Pipe
    <3> QED  BY <3>5, <3>6 DEF AtWork
  <2> QED  BY <2>5, <2>6
<1>3. CASE Go(w, [worker[w] EXCEPT !.pc = "assess"])
  BY <1>1, <1>3, GoesWith, QuietAtWork
<1>4. CASE Abort(w)
  <2>1. worker'[w].pc = "settled"
    BY <1>1, <1>4, GoesTo DEF Abort
  <2> QED  BY <1>1, <2>1, QuietAtWork
<1> QED  BY <1>2, <1>3, <1>4 DEF BeginStage

\* What is rebuilt from the library is what a cold run would hold, stored.
LEMMA RebuildAtWork ==
  ASSUME RunInv, Account, Warm, NEW w \in Team, Rebuild(w)
  PROVE  AtWork(w)' \/ Abort(w)
<1>1. /\ worker[w].pc = "rebuild" /\ Live(w) /\ Behind(w)
      /\ worker[w].stage <= LastStage(Pipe(w[1]))
  BY ReadyIsLive, WorkerTypes DEF Rebuild, Ready, Placed, AtStage, Account, Shown
<1>2. worker[w].stage \in Ordinals
  BY <1>1, StageTypes DEF RunInv
<1>3. At(w) \in Places /\ At(w) \in AllPlaces
      /\ At(w)[1] = run[w[1]] /\ At(w)[2] = w[2] /\ At(w)[3] = worker[w].stage
  BY <1>1, <1>2, PlacesAreAllPlaces DEF At, Places, Live
<1>4. Passed(At(w)) /\ RowIsCold(At(w)) /\ pipeline[run[w[1]]] = Pipe(w[1])
  BY <1>1, <1>3 DEF Behind, Running, Live, Warm
<1> DEFINE c == runSignal[At(w)]
           f == FrameOf(c, worker[w].frame.attr)
<1>5. PureTo(Pipe(w[1]), worker[w].stage) => c = ColdSamples(Pipe(w[1]), w[2], worker[w].stage)
  BY <1>3, <1>4 DEF RowIsCold
<1>6. f \in Frames /\ f.content = c /\ f.stored
  BY <1>3, WorkerTypes DEF RunInv, TypeOK, StoreTypeOK, Frames, FrameOf
<1>7. Abort(w) \/ Go(w, PastStage(w, f))
  BY DEF Rebuild
<1> HIDE DEF c, f
<1>8. CASE Go(w, PastStage(w, f))
  BY <1>5, <1>6, <1>8, PastAtWork
<1> QED  BY <1>7, <1>8

\* A stage that ran keeps up with the cold run; a frame nobody stored is told by its data alone.
LEMMA FinishAtWork ==
  ASSUME AttrBlind, TimesAreTold, RunInv, Warm, NEW w \in Team, FinishStage(w)
  PROVE  AtWork(w)' \/ Abort(w)
<1>1. /\ worker[w].pc = "process" /\ worker[w].pc \notin Ended /\ AtWork(w)
      /\ worker[w].frame \in Frames /\ worker[w] \in Workers
      /\ worker[w].stage <= LastStage(Pipe(w[1])) /\ w[1] \in Execs
  BY WorkerTypes DEF FinishStage, Ready, Ended, Warm, Placed, AtStage, Team
<1>2. Stage(w) \in Kinds /\ worker[w].stage \in DOMAIN KindAt[Pipe(w[1])]
  BY <1>1, StageTypes DEF RunInv
<1> DEFINE keeps(f) == Retention[Pipe(w[1])][worker[w].stage] # "never"
                         /\ Fits(w[1], FreshBytes(Stage(w), f))
<1>3. PICK f \in Applied(Stage(w), worker[w].frame) :
        \/ keeps(f) /\ Go(w, [worker[w] EXCEPT !.pc = "rebuild", !.frame = f])
        \/ ~keeps(f) /\ Go(w, PastStage(w, f))
        \/ Abort(w)
  BY DEF FinishStage
<1>4. f \in Frames
  BY <1>1, <1>2, AppliedTypes
<1>5. CASE Go(w, [worker[w] EXCEPT !.pc = "rebuild", !.frame = f])
  <2> DEFINE next == [worker[w] EXCEPT !.pc = "rebuild", !.frame = f]
  <2>1. next \in Workers /\ next.pc = "rebuild"
    BY <1>1, <1>4 DEF Workers, Pcs
  <2>2. worker'[w] = next
    BY <1>5, <2>1, GoTypes
  <2> HIDE DEF next
  <2>3. worker'[w].pc = "rebuild" /\ "rebuild" \in Ended
    BY <2>1, <2>2 DEF Ended
  <2> QED  BY <1>1, <2>3, QuietAtWork
<1>6. CASE ~keeps(f) /\ Go(w, PastStage(w, f))
  <2>1. OneTime
    BY <1>1, <1>2, <1>6 DEF TimesAreTold, Fits
  <2>2. ASSUME PureTo(Pipe(w[1]), worker[w].stage)
        PROVE  f.content = ColdSamples(Pipe(w[1]), w[2], worker[w].stage)
    <3>1. /\ Stage(w) \in Pure
          /\ StepOf(Stage(w), worker[w].frame.content)
               = ColdSamples(Pipe(w[1]), w[2], worker[w].stage)
      BY <1>1, <2>2, KeepsUp DEF AtWork
    <3>2. f.content = StepOf(Stage(w), worker[w].frame.content)
      BY <1>1, <3>1, AppliedStep
    <3> QED  BY <3>1, <3>2
  <2> QED  BY <1>4, <1>6, <2>1, <2>2, PastAtWork
<1> QED  BY <1>3, <1>5, <1>6

LEMMA WorkerAtWork ==
  ASSUME NoneDeleted, AttrBlind, TimesAreTold, RunInv, Account, Warm, [Next]_vars,
         NEW w \in Team, WorkerStep(w) \/ JobFails(w)
  PROVE  AtWork(w)'
<1>1. /\ AtWork(w) /\ worker[w] \in Workers
      /\ Pcs = {"waiting", "source", "open", "stage", "recall", "copy", "stale", "rebuild",
                "process", "assess", "sweep", "close", "settled"}
      /\ Ended = {"rebuild", "close", "settled"}
  BY WorkerTypes DEF Warm, Pcs, Ended
<1>2. ASSUME NEW pc \in Pcs, Go(w, [worker[w] EXCEPT !.pc = pc]), pc \notin {"recall", "copy"},
             worker[w].pc \notin Ended \/ pc \in Ended
      PROVE  AtWork(w)'
  BY <1>1, <1>2, GoesWith, QuietAtWork
<1>3. ASSUME NEW pc \in Ended, NEW o \in {"ok", "failed", "cancelled", "error"},
             Go(w, [worker[w] EXCEPT !.pc = pc, !.outcome = o])
      PROVE  AtWork(w)'
  <2>1. pc \in Pcs /\ pc \notin {"recall", "copy"}
    BY <1>1
  <2> QED  BY <1>1, <1>3, <2>1, GoesTo, QuietAtWork
<1>4. CASE Abort(w)
  BY <1>1, <1>3, <1>4 DEF Abort
<1>5. CASE Recall(w)
  <2> DEFINE m == runStage[worker[w].hit].metrics
             next == [worker[w] EXCEPT !.pc = "copy", !.metrics = m]
  <2>1. worker[w].hit \in Places /\ worker[w].pc = "recall"
    BY <1>1, <1>5, WorkerTypes DEF Recall, Ready, Placed
  <2>2. m \in BOOLEAN
    BY <2>1 DEF RunInv, TypeOK, StoreTypeOK, StageRows
  <2>3. Go(w, next)
    BY <1>5 DEF Recall
  <2> HIDE DEF m
  <2>4. /\ next \in Workers /\ next.pc = "copy" /\ next.hit = worker[w].hit
        /\ next.stage = worker[w].stage /\ next.frame = worker[w].frame
    BY <1>1, <2>2 DEF Workers
  <2>5. worker'[w] = next
    BY <2>3, <2>4, GoTypes
  <2> HIDE DEF next
  <2>6. /\ worker'[w].pc = "copy" /\ worker'[w].hit = worker[w].hit
        /\ worker'[w].stage = worker[w].stage /\ worker'[w].frame = worker[w].frame
    BY <2>4, <2>5
  <2> QED  BY <1>1, <2>1, <2>6, StillAtWork
<1>6. CASE ForgetStale(w)
  <2> DEFINE next == [worker[w] EXCEPT !.pc = "process", !.hit = NoPlace]
  <2>1. /\ next \in Workers /\ next.pc = "process"
        /\ next.stage = worker[w].stage /\ next.frame = worker[w].frame
    BY <1>1 DEF Workers
  <2>2. worker'[w] = next /\ worker[w].pc = "stale"
    BY <1>6, <2>1, GoTypes DEF ForgetStale, Ready
  <2> HIDE DEF next
  <2>3. /\ worker'[w].pc = "process" /\ worker[w].pc \notin Ended
        /\ worker'[w].stage = worker[w].stage /\ worker'[w].frame = worker[w].frame
    BY <1>1, <2>1, <2>2
  <2> QED  BY <1>1, <2>3, QuietAtWork
<1>7. CASE StartGroup(w) \/ StoreSource(w) \/ OpenGroup(w) \/ Copy(w) \/ Assess(w)
  BY <1>1, <1>2, <1>3, <1>4, <1>7 DEF StartGroup, StoreSource, OpenGroup, Copy, Assess, Ready
<1>8. CASE FailStage(w) \/ Sweep(w) \/ CloseGroup(w)
  BY <1>1, <1>2, <1>3, <1>4, <1>8 DEF FailStage, Sweep, CloseGroup, Ready
<1>9. CASE BeginStage(w)
  BY <1>9, BeginAtWork
<1>10. CASE Rebuild(w)
  BY <1>4, <1>10, RebuildAtWork
<1>11. CASE FinishStage(w)
  BY <1>4, <1>11, FinishAtWork
<1>12. CASE JobFails(w)
  BY <1>4, <1>12 DEF JobFails
<1> QED  BY <1>5, <1>6, <1>7, <1>8, <1>9, <1>10, <1>11, <1>12 DEF WorkerStep

\* A row that is written is the one a cold run would write.
LEMMA RowStep ==
  ASSUME NoneDeleted, AttrBlind, RunInv, Warm, [Next]_vars, NEW p \in Places
  PROVE  RowIsCold(p)'
<1>1. CASE Passed(p)
  <2>1. /\ runSignal'[p] = runSignal[p] /\ pipeline'[p[1]] = pipeline[p[1]]
    BY <1>1, PassedStands DEF Stands
  <2>2. PureTo(pipeline[p[1]], p[3]) => runSignal[p] = ColdSamples(pipeline[p[1]], p[2], p[3])
    BY <1>1 DEF Warm, RowIsCold
  <2> QED  BY <2>1, <2>2 DEF RowIsCold
<1>2. CASE ~Passed(p) /\ runStage'[p] = runStage[p]
  BY <1>2 DEF RowIsCold, Passed
<1>3. CASE ~Passed(p) /\ runStage'[p] # runStage[p]
  <2>1. PICK w \in Team : WorkerStep(w) \/ JobFails(w)
    BY <1>3, RestStands
  <2>2. OnlyPlace(At(w)) /\ At(w) \in Places /\ UNCHANGED pipeline
    BY <1>3, <2>1, WorkerWrites
  <2>3. Copy(w) \/ FinishStage(w) \/ FailStage(w)
    BY <1>3, <2>1, WorkerWrites
  <2>4. p = At(w)
    BY <1>3, <2>2 DEF OnlyPlace
  <2>5. /\ Live(w) /\ AtWork(w) /\ worker[w].pc \notin Ended
        /\ worker[w].pc \in {"copy", "process"}
    <3>1. worker[w].pc \in {"copy", "process"}
      BY <2>3 DEF Copy, FinishStage, FailStage, Ready
    <3> QED  BY <2>1, <3>1, WorkerMoves DEF Moves, Warm, Ended
  <2>6. worker[w].stage <= LastStage(Pipe(w[1])) /\ worker[w].frame \in Frames
    BY <2>5, WorkerTypes DEF Placed, AtStage
  <2>7. p[1] = run[w[1]] /\ p[2] = w[2] /\ p[3] = worker[w].stage
    BY <2>4 DEF At
  <2>8. pipeline'[p[1]] = Pipe(w[1])
    BY <2>2, <2>5, <2>7 DEF Live
  <2>9. ~UNCHANGED storeVars
    BY <1>3 DEF storeVars
  <2>10. ASSUME PureTo(Pipe(w[1]), worker[w].stage), runStage'[p].status \in {"ok", "cached"}
         PROVE  runSignal'[p] = ColdSamples(Pipe(w[1]), w[2], worker[w].stage)
    <3>1. /\ Stage(w) \in Pure
          /\ StepOf(Stage(w), worker[w].frame.content)
               = ColdSamples(Pipe(w[1]), w[2], worker[w].stage)
      BY <2>5, <2>6, <2>10, KeepsUp DEF AtWork
    <3>2. CASE Copy(w)
      <4>1. runSignal'[p] = runSignal[worker[w].hit]
        BY <2>4, <2>9, <3>2, CopyWrites
      <4>2. Answers(KeyAt(w), worker[w].hit)
        BY <2>5, <3>2 DEF AtWork, Asked, Copy, Ready
      <4>3. Suits(worker[w].frame.content, KeyAt(w)) /\ KeyAt(w).kind = Stage(w)
        BY <2>6, KeySuits DEF KeyAt
      <4>4. worker[w].frame.content \in Contents \cup {NoContent}
        BY <2>6 DEF Frames
      <4>5. runSignal[worker[w].hit] = StepOf(Stage(w), worker[w].frame.content)
        BY <4>2, <4>3, <4>4 DEF Answers
      <4> QED  BY <3>1, <4>1, <4>5
    <3>3. CASE FinishStage(w)
      <4>1. PICK f \in Applied(Stage(w), worker[w].frame), keep \in BOOLEAN : Made(w, f, keep)
        BY <2>9, <3>3, FinishWrites
      <4>2. runSignal'[p] = f.content
        BY <2>4, <4>1 DEF Made
      <4> QED  BY <2>6, <3>1, <4>1, <4>2, AppliedStep
    <3>4. CASE FailStage(w)
      <4>1. RecordFailure(At(w), KeyAt(w))
        BY <2>9, <3>4 DEF FailStage
      <4>2. runStage'[p].status = "failed"
        BY <2>2, <2>4, <4>1 DEF RecordFailure, RunInv, TypeOK, StoreTypeOK
      <4> QED  BY <2>10, <4>2
    <3> QED  BY <2>3, <3>2, <3>3, <3>4
  <2> QED  BY <2>7, <2>8, <2>10 DEF RowIsCold, Passed
<1> QED  BY <1>1, <1>2, <1>3

\* A key is published for the output that answers for it.
LEMMA KeyStep ==
  ASSUME NoneDeleted, AttrBlind, RunInv, Warm, [Next]_vars, NEW k \in Keys, cache'[k] # NoPlace
  PROVE  Answers(k, cache[k])'
<1> DEFINE q == cache'[k]
<1>1. /\ runStage'[q].status \in {"ok", "cached"}
      /\ \A c \in Contents \cup {NoContent} : Suits(c, k) => runSignal'[q] = StepOf(k.kind, c)
  <2>1. CASE cache'[k] = cache[k]
    <3>1. cache[k] \in Places /\ Answers(k, cache[k])
      BY <2>1 DEF Warm, RunInv, TypeOK, StoreTypeOK
    <3>2. runStage'[cache[k]] = runStage[cache[k]] /\ runSignal'[cache[k]] = runSignal[cache[k]]
      BY <3>1, PassedStands DEF Answers, Stands
    <3> QED  BY <2>1, <3>1, <3>2 DEF Answers, Passed
  <2>2. CASE cache'[k] # cache[k]
    <3>1. PICK w \in Team : WorkerStep(w) \/ JobFails(w)
      BY <2>2, RestStands
    <3>2. FinishStage(w)
      BY <2>2, <3>1, CacheWrites
    <3>3. ~UNCHANGED storeVars
      BY <2>2 DEF storeVars
    <3>4. PICK f \in Applied(Stage(w), worker[w].frame), keep \in BOOLEAN : Made(w, f, keep)
      BY <3>2, <3>3, FinishWrites
    <3>5. /\ k = KeyAt(w) /\ Publishes(w, keep) /\ q = At(w)
          /\ runSignal'[q] = f.content /\ runStage'[q].status = "ok"
      BY <2>2, <3>4 DEF Made
    <3>6. /\ worker[w].frame \in Frames /\ Stage(w) \in Pure
          /\ worker[w].frame.content # NoContent => worker[w].frame.stored \/ OneTime
      BY <3>2, <3>5, WorkerTypes
      DEF Publishes, FinishStage, Ready, Warm, AtWork, Aligned, Ended
    <3>7. f.content = StepOf(Stage(w), worker[w].frame.content)
      BY <3>4, <3>6, AppliedStep
    <3>8. ASSUME NEW c \in Contents \cup {NoContent}, Suits(c, k)
          PROVE  runSignal'[q] = StepOf(k.kind, c)
      <4>1. k = StageKey(Stage(w), worker[w].frame) /\ k.kind = Stage(w)
        BY <3>5, <3>6, KeySuits DEF KeyAt
      <4>2. c = worker[w].frame.content
        BY <3>6, <3>8, <4>1, KeyTells
      <4> QED  BY <3>5, <3>7, <4>1, <4>2
    <3> QED  BY <3>5, <3>8
  <2> QED  BY <2>1, <2>2
<1> QED  BY <1>1 DEF Answers, Passed

LEMMA WarmStep ==
  ASSUME NoneDeleted, AttrBlind, TimesAreTold, RunInv, Account, Warm, [Next]_vars
  PROVE  Warm'
<1>1. ASSUME NEW w \in Team PROVE AtWork(w)'
  <2>1. AtWork(w)
    BY DEF Warm
  <2>2. CASE worker'[w] # worker[w]
    <3>1. PICK v \in Team : WorkerStep(v) \/ JobFails(v)
      BY <2>2, RestStands
    <3>2. v = w
      BY <2>2, <3>1, WorkerMoves DEF Moves
    <3> QED  BY <3>1, <3>2, WorkerAtWork
  <2>3. CASE worker'[w] = worker[w] /\ worker[w].pc \in Ended
    <3>1. worker'[w].pc \notin {"recall", "copy"}
      BY <2>3 DEF Ended
    <3> QED  BY <2>1, <2>3, <3>1, QuietAtWork
  <2>4. CASE worker'[w] = worker[w] /\ worker[w].pc \notin Ended
    BY <2>1, <2>4, StillAtWork
  <2> QED  BY <2>2, <2>3, <2>4
<1>2. ASSUME NEW p \in Places PROVE RowIsCold(p)'
  BY RowStep
<1>3. ASSUME NEW k \in Keys, cache'[k] # NoPlace PROVE Answers(k, cache[k])'
  BY <1>3, KeyStep
<1> QED  BY <1>1, <1>2, <1>3 DEF Warm

LEMMA WarmInit ==
  ASSUME AttrBlind, Init
  PROVE  Warm
<1>1. ASSUME NEW p \in Places PROVE ~Passed(p)
  BY DEF Init, StoreInit, Passed, NoStageRow
<1>2. ASSUME NEW k \in Keys PROVE cache[k] = NoPlace
  BY DEF Init, StoreInit
<1>3. ASSUME NEW w \in Team PROVE AtWork(w)
  <2>1. /\ worker[w].pc = "waiting" /\ worker[w].stage = 0
        /\ worker[w].frame = FrameOf(Source[w[2]], GroupAttr[w[2]])
        /\ w[1] \in Execs /\ w[2] \in Groups /\ Pipe(w[1]) \in Pipelines
    BY JobTypes DEF Init, Team
  <2>2. worker[w].frame.content = Source[w[2]] /\ worker[w].frame.stored
    BY <2>1 DEF FrameOf
  <2>3. ColdSamples(Pipe(w[1]), w[2], -1) = Source[w[2]]
    BY <2>1, ColdSteps
  <2>4. worker[w].stage - 1 = -1
    BY <2>1
  <2> QED  BY <2>1, <2>2, <2>3, <2>4 DEF AtWork, Asked, Aligned
<1> QED  BY <1>1, <1>2, <1>3 DEF Warm, RowIsCold

\* A run that reuses recorded output has, at every stage, the samples it would have had by running
\* the stage: however the executions interleave, with no run deleted between lookup and copy, with
\* timebases told apart, and no stage's samples hanging on the attribute.
THEOREM CachedRunsAreCold ==
  ASSUME NoneDeleted, AttrBlind, TimesAreTold
  PROVE  Spec => []CachedEqualsCold
<1>1. NoneLive
  BY DEF NoneDeleted, NoneLive
<1>2. Init => Found /\ Warm
  BY FoundInit, WarmInit
<1>3. RunInv /\ Account /\ Found /\ Warm /\ [Next]_vars => (Found /\ Warm)'
  BY FoundStep, WarmStep
<1>4. Found /\ Warm => CachedEqualsCold
  BY DEF Found, Warm, RowIsCold, ColdSamples, CachedEqualsCold
<1>5. Spec => [](RunInv /\ Account)
  BY <1>1, RunsAccountForThemselves
<1> QED  BY <1>2, <1>3, <1>4, <1>5, PTL DEF Spec
-----------------------------------------------------------------------------
(* The sample cap *)

\* What the rows a run has added hold, byte by byte.
Cells(r) == UNION {{p} \X (1 .. Size[runSignal[p].data]) : p \in AddedRows(r)}

LEMMA SizeOf ==
  ASSUME NEW c \in Contents, NEW p
  PROVE  /\ Size[c.data] \in Nat
         /\ IsFiniteSet({p} \X (1 .. Size[c.data]))
         /\ Cardinality({p} \X (1 .. Size[c.data])) = Size[c.data]
<1>1. Size[c.data] \in Nat
  <2>1. c \in [data : Data, time : Times]
    BY SchedulerAssumption
  <2>2. c.data \in Data
    BY <2>1
  <2>3. Size \in [Data -> Nat]
    BY SchedulerAssumption
  <2> QED  BY <2>2, <2>3
<1> DEFINE n == Size[c.data]
<1> HIDE DEF n
<1>2. n \in Nat
  BY <1>1 DEF n
<1>3. IsFiniteSet(1 .. n) /\ Cardinality(1 .. n) = n
  BY <1>2, FS_Interval
<1>4. IsFiniteSet({p}) /\ Cardinality({p}) = 1
  BY FS_Singleton
<1>5. IsFiniteSet({p} \X (1 .. n)) /\ Cardinality({p} \X (1 .. n)) = 1 * n
  BY <1>3, <1>4, FS_Product, Zenon
<1>6. 1 * n = n
  BY <1>2
<1> QED  BY <1>1, <1>5, <1>6 DEF n

LEMMA AddedIs ==
  ASSUME RunInv, NEW r
  PROVE  /\ IsFiniteSet(Cells(r)) /\ AddedBytes(r) = Cardinality(Cells(r))
         /\ AddedBytes(r) \in Nat
<1> DEFINE R == AddedRows(r)
           T == {{p} \X (1 .. Size[runSignal[p].data]) : p \in R}
           f == [p \in R |-> {p} \X (1 .. Size[runSignal[p].data])]
<1>1. IsFiniteSet(R)
  <2>1. R \subseteq kept
    BY DEF AddedRows
  <2> QED  BY <2>1, FS_Subset DEF RunInv, TypeOK, StoreTypeOK
<1>2. f \in Surjection(R, T)
  <2>1. f \in [R -> T]
    OBVIOUS
  <2>2. ASSUME NEW t \in T PROVE \E p \in R : f[p] = t
    OBVIOUS
  <2> QED  BY <2>1, <2>2 DEF Surjection
<1>3. \A p \in R : runSignal[p] \in Contents
  BY DEF AddedRows, RunInv, TypeOK, StoreTypeOK, RowsHaveRuns
<1>4. \A t \in T : IsFiniteSet(t)
  BY <1>3, SizeOf
<1>5. IsFiniteSet(T)
  <2> HIDE DEF R, T, f
  <2> QED  BY <1>1, <1>2, FS_Surjection
<1>6. IsFiniteSet(UNION T)
  <2> HIDE DEF T
  <2> QED  BY <1>4, <1>5, FS_UNION
<1>7. IsFiniteSet(Cells(r)) /\ AddedBytes(r) = Cardinality(Cells(r))
  BY <1>6 DEF Cells, AddedBytes
<1> QED  BY <1>7, FS_CardinalityType

\* What is claimed is within the cap, and what a run has added has been claimed.
Within(e) == Job[e].cap # Unlimited => recorded[e] <= Job[e].cap
Covered(r) == JobOf(r).cap # Unlimited => AddedBytes(r) <= recorded[owner[r]]
Funded == (\A e \in Execs : Within(e)) /\ (\A r \in RunIds : Covered(r))

\* The step puts no samples of a stage that ran on record, but perhaps at place at.
NoneAddedBut(at) ==
  \A p \in Places : p # at /\ p \in kept' /\ runStage'[p].status = "ok" =>
    /\ p \in kept /\ runStage[p].status = "ok" /\ runSignal'[p] = runSignal[p]
    /\ pipeline'[p[1]] = pipeline[p[1]]
NoneAdded == \A at : NoneAddedBut(at)

LEMMA RowsStay ==
  ASSUME NEW r, NEW at, NoneAddedBut(at), NEW p \in AddedRows(r)', p # at
  PROVE  p \in AddedRows(r) /\ runSignal'[p] = runSignal[p]
<1>1. p \in kept' /\ p \in Places /\ p[1] = r /\ runStage'[p].status = "ok"
      /\ KindAt[pipeline'[r]][p[3]] \in Fresh
  BY DEF AddedRows
<1>2. p \in kept /\ runStage[p].status = "ok" /\ runSignal'[p] = runSignal[p]
      /\ pipeline'[r] = pipeline[r]
  BY <1>1 DEF NoneAddedBut
<1> QED  BY <1>1, <1>2 DEF AddedRows

LEMMA NoBytesMore ==
  ASSUME RunInv, NEW r, NEW at, NoneAddedBut(at), at \notin AddedRows(r)'
  PROVE  AddedBytes(r)' \in Nat /\ AddedBytes(r)' <= AddedBytes(r)
<1>1. Cells(r)' \in SUBSET Cells(r)
  BY RowsStay DEF Cells
<1>2. IsFiniteSet(Cells(r)) /\ AddedBytes(r) = Cardinality(Cells(r)) /\ AddedBytes(r) \in Nat
  BY AddedIs
<1>3. /\ IsFiniteSet(Cells(r)') /\ Cardinality(Cells(r)') <= Cardinality(Cells(r))
      /\ Cardinality(Cells(r)') \in Nat
  BY <1>1, <1>2, FS_Subset, FS_CardinalityType
<1>4. AddedBytes(r)' = Cardinality(Cells(r)')
  BY DEF AddedBytes, Cells
<1> QED  BY <1>2, <1>3, <1>4

LEMMA SomeBytesMore ==
  ASSUME RunInv, NEW r, NEW at, NoneAddedBut(at), NEW c \in Contents, runSignal'[at] = c
  PROVE  AddedBytes(r)' \in Nat /\ AddedBytes(r)' <= AddedBytes(r) + Size[c.data]
<1> DEFINE more == {at} \X (1 .. Size[c.data])
<1>1. Cells(r)' \subseteq Cells(r) \cup more
  BY RowsStay DEF Cells
<1>2. /\ IsFiniteSet(Cells(r)) /\ AddedBytes(r) = Cardinality(Cells(r)) /\ AddedBytes(r) \in Nat
      /\ IsFiniteSet(more) /\ Cardinality(more) = Size[c.data] /\ Size[c.data] \in Nat
  BY AddedIs, SizeOf
<1> HIDE DEF more
<1>3. /\ IsFiniteSet(Cells(r) \cup more)
      /\ Cardinality(Cells(r) \cup more)
           = Cardinality(Cells(r)) + Cardinality(more) - Cardinality(Cells(r) \cap more)
  BY <1>2, FS_Union
<1>4. Cardinality(Cells(r) \cap more) \in Nat
  <2>1. IsFiniteSet(Cells(r) \cap more)
    BY <1>2, FS_Subset
  <2> QED  BY <2>1, FS_CardinalityType
<1>5. /\ IsFiniteSet(Cells(r)') /\ Cardinality(Cells(r)') \in Nat
      /\ Cardinality(Cells(r)') <= Cardinality(Cells(r) \cup more)
  BY <1>1, <1>3, FS_Subset, FS_CardinalityType
<1>6. AddedBytes(r)' = Cardinality(Cells(r)')
  BY DEF AddedBytes, Cells
<1>7. Cardinality(Cells(r) \cup more) \in Nat
  BY <1>3, FS_CardinalityType
<1> QED  BY <1>2, <1>3, <1>4, <1>5, <1>6, <1>7

\* A step that adds nothing leaves what runs have added covered.
LEMMA StillFunded ==
  ASSUME RunInv, Funded, NoneAdded, UNCHANGED <<owner, recorded>>
  PROVE  Funded'
<1>1. ASSUME NEW r \in RunIds PROVE Covered(r)'
  <2>1. NoneAddedBut(NoPlace) /\ NoPlace \notin AddedRows(r)'
    BY StoreAssumption DEF NoneAdded, AddedRows
  <2>2. AddedBytes(r)' \in Nat /\ AddedBytes(r)' <= AddedBytes(r)
    BY <2>1, NoBytesMore
  <2>3. AddedBytes(r) \in Nat /\ recorded[owner[r]] \in Nat
    BY AddedIs DEF RunInv, TypeOK
  <2>4. JobOf(r).cap # Unlimited => AddedBytes(r) <= recorded[owner[r]]
    BY DEF Funded, Covered
  <2>5. JobOf(r)' = JobOf(r) /\ recorded'[owner'[r]] = recorded[owner[r]]
    BY DEF JobOf
  <2> QED  BY <2>2, <2>3, <2>4, <2>5 DEF Covered
<1>2. ASSUME NEW e \in Execs PROVE Within(e)'
  BY DEF Funded, Within
<1> QED  BY <1>1, <1>2 DEF Funded
LEMMA WorkerAddsNone ==
  ASSUME RunInv, NEW w \in Team, WorkerStep(w) \/ JobFails(w), ~FinishStage(w)
  PROVE  NoneAdded /\ UNCHANGED <<owner, recorded>>
<1>1. Moves(w) /\ Live(w) /\ StoreTypeOK /\ run[w[1]] \in RunIds /\ w[2] \in Groups
  BY WorkerMoves DEF Moves, Live, RunInv, TypeOK
<1>2. UNCHANGED <<owner, recorded>>
  BY DEF WorkerStep, StartGroup, StoreSource, OpenGroup, BeginStage, Recall, Copy, ForgetStale,
     Rebuild, FailStage, Assess, Sweep, CloseGroup, JobFails, OnlyWorker, SameExec
<1> SUFFICES NoneAdded
  BY <1>2
<1>0. UNCHANGED pipeline
  BY <1>1 DEF Moves, Local
<1>3. ASSUME kept' \subseteq kept, UNCHANGED <<runStage, runSignal>>
      PROVE  NoneAdded
  BY <1>0, <1>3 DEF NoneAdded, NoneAddedBut
<1>4. ASSUME UNCHANGED storeVars
      PROVE  NoneAdded
  BY <1>3, <1>4 DEF storeVars
<1>5. ASSUME RecordSource(run[w[1]], w[2]) \/ RecordSourceRefused(run[w[1]], w[2])
      PROVE  NoneAdded
  <2>1. OnlyPlace(<<run[w[1]], w[2], SourceStage>>) /\ UNCHANGED runStage
    BY <1>1, <1>5, SourceWrites
  <2>2. \A p \in Places : p \in AllPlaces /\ p # <<run[w[1]], w[2], SourceStage>>
    BY PlacesAreAllPlaces, SourceIsNoOrdinal DEF Places
  <2> QED  BY <2>1, <2>2 DEF OnlyPlace, NoneAdded, NoneAddedBut
<1>6. ASSUME OnlyPlace(At(w)), runStage'[At(w)].status # "ok"
      PROVE  NoneAdded
  BY <1>6, PlacesAreAllPlaces DEF OnlyPlace, NoneAdded, NoneAddedBut
<1>7. CASE StoreSource(w) \/ JobFails(w)
  BY <1>4, <1>5, <1>7 DEF StoreSource, JobFails
<1>8. CASE OpenGroup(w) \/ CloseGroup(w) \/ ForgetStale(w) \/ Sweep(w)
  BY <1>3, <1>4, <1>8
  DEF OpenGroup, CloseGroup, ForgetStale, Sweep, RecordGroup, CacheForget, ForgetSamples
<1>9. CASE StartGroup(w) \/ BeginStage(w) \/ Recall(w) \/ Rebuild(w) \/ Assess(w)
  BY <1>4, <1>9 DEF StartGroup, BeginStage, Recall, Rebuild, Assess, OnlyWorker
<1>10. CASE Copy(w)
  BY <1>4, <1>6, <1>10, CopyWrites
<1>11. CASE FailStage(w)
  <2>1. CASE RecordFailure(At(w), KeyAt(w))
    <3>1. At(w) \in Places
      <4>1. worker[w].pc = "process" /\ worker[w].pc \in Recording
        BY <1>11 DEF FailStage, Ready, Recording, Pcs
      <4>2. worker[w].stage <= LastStage(Pipe(w[1]))
        BY <4>1, WorkerTypes DEF Placed, AtStage
      <4> QED  BY <1>1, <4>1, <4>2, StageIsUnrecorded
    <3>2. /\ runStage'[At(w)].status = "failed" /\ UNCHANGED <<runSignal, kept>>
          /\ \A p \in Places : p # At(w) => runStage'[p] = runStage[p]
      BY <1>1, <2>1, <3>1 DEF RecordFailure, StoreTypeOK
    <3> QED  BY <1>0, <3>2 DEF NoneAdded, NoneAddedBut
  <2> QED  BY <1>4, <1>11, <2>1 DEF FailStage
<1> QED  BY <1>7, <1>8, <1>9, <1>10, <1>11 DEF WorkerStep

\* What a stage that replaces its samples leaves is new, or nothing.
LEMMA FreshContent ==
  ASSUME NEW kind \in Kinds, kind \in Fresh, NEW f \in Frames, NEW n \in Applied(kind, f)
  PROVE  n.content # NoContent => /\ n.content \in Contents
                                  /\ FreshBytes(kind, n) = Size[n.content.data]
<1>1. n \in Frames
  BY AppliedTypes
<1> QED  BY <1>1 DEF Frames, FreshBytes

LEMMA FinishFunds ==
  ASSUME RunInv, Funded, NEW w \in Team, FinishStage(w)
  PROVE  Funded'
<1> DEFINE e == w[1]
           bytes(f) == FreshBytes(Stage(w), f)
<1>0. PICK r \in RunIds : r = run[w[1]]
  BY ReadyIsLive DEF FinishStage, Ready, Live
<1>1. /\ worker[w].pc = "process" /\ Live(w) /\ e \in Execs /\ owner[r] = e
      /\ recorded \in [Execs -> Nat] /\ owner' = owner
  BY <1>0, ReadyIsLive DEF FinishStage, Ready, Live, RunInv, TypeOK
<1>2. worker[w].stage <= LastStage(Pipe(e)) /\ worker[w].frame \in Frames
  BY <1>1, WorkerTypes DEF Placed, AtStage
<1>3. Stage(w) \in Kinds
  BY <1>2, StageTypes DEF RunInv
<1>4. Job[e].cap \in Nat \cup {Unlimited}
  BY <1>1, JobTypes
\* However it ends, the claim has been made or turned away.
<1>5. \E b \in Nat : /\ Fits(e, b) /\ Job[e].cap # Unlimited
                     /\ recorded' = [recorded EXCEPT ![e] = @ + b]
        \/ recorded' = recorded
  <2>1. PICK f \in Applied(Stage(w), worker[w].frame) :
          \/ recorded' = recorded
          \/ Fits(e, bytes(f)) /\ Job[e].cap # Unlimited
               /\ recorded' = [recorded EXCEPT ![e] = @ + bytes(f)]
    BY DEF FinishStage
  <2>2. bytes(f) \in Nat
    BY <1>2, <1>3, AppliedTypes
  <2> HIDE DEF bytes
  <2> QED  BY <2>1, <2>2
<1>6. /\ \A d \in Execs : recorded'[d] \in Nat /\ recorded'[d] >= recorded[d]
      /\ \A d \in Execs : Within(d)'
  <2>1. CASE recorded' = recorded
    BY <1>1, <2>1 DEF Funded, Within
  <2>2. ASSUME NEW b \in Nat, Fits(e, b), Job[e].cap # Unlimited,
               recorded' = [recorded EXCEPT ![e] = @ + b]
        PROVE  <1>6!1 /\ <1>6!2
    <3>1. recorded'[e] = recorded[e] + b /\ \A d \in Execs : d # e => recorded'[d] = recorded[d]
      BY <1>1, <2>2
    <3>2. recorded[e] + b <= Job[e].cap
      BY <2>2 DEF Fits
    <3>3. \A d \in Execs : recorded[d] \in Nat /\ Within(d)
      BY <1>1 DEF Funded
    <3>4. \A d \in Execs : Within(d)'
      BY <1>1, <3>1, <3>2, <3>3 DEF Within
    <3>5. \A d \in Execs : recorded'[d] \in Nat /\ recorded'[d] >= recorded[d]
      BY <1>1, <2>2, <3>1, <3>3
    <3> QED  BY <3>4, <3>5
  <2> QED  BY <1>5, <2>1, <2>2
<1>7. ASSUME NEW q \in RunIds, AddedBytes(q)' <= AddedBytes(q), AddedBytes(q)' \in Nat
      PROVE  Covered(q)'
  <2>1. AddedBytes(q) \in Nat /\ owner[q] \in Execs /\ Covered(q)
    BY AddedIs DEF Funded, RunInv, TypeOK
  <2>2. JobOf(q)' = JobOf(q)
    BY <1>1 DEF JobOf
  <2>3. /\ recorded'[owner[q]] >= recorded[owner[q]] /\ recorded'[owner[q]] \in Nat
        /\ recorded[owner[q]] \in Nat
    BY <1>1, <1>6, <2>1
  <2> QED  BY <1>1, <1>7, <2>1, <2>2, <2>3 DEF Covered
<1>8. CASE UNCHANGED storeVars
  <2>1. NoneAddedBut(NoPlace)
    BY <1>8 DEF NoneAddedBut, storeVars
  <2>2. \A q \in RunIds : NoPlace \notin AddedRows(q)'
    BY StoreAssumption DEF AddedRows
  <2> QED  BY <1>6, <1>7, <2>1, <2>2, NoBytesMore DEF Funded
<1>9. ASSUME NEW f \in Applied(Stage(w), worker[w].frame), NEW keep \in BOOLEAN,
             f \in Frames, Made(w, f, keep), Claimed(w, f, keep)
      PROVE  \A q \in RunIds : Covered(q)'
  <2>0. PICK at \in Places : at = At(w)
    BY <1>9 DEF Made
  <2>1. /\ OnlyPlace(at) /\ runSignal'[at] = f.content
        /\ at[1] = r
    BY <1>0, <1>9, <2>0 DEF Made, At
  <2>2. NoneAddedBut(at)
    BY <2>1, PlacesAreAllPlaces DEF OnlyPlace, NoneAddedBut
  <2>3. CASE ~keep \/ f.content = NoContent
    <3>1. kept' = kept
      BY <1>9, <2>3 DEF Claimed
    <3>2. at \notin kept
      <4>1. runSignal[at] = NoContent
        BY <1>1, <1>2, <2>0, StageIsUnrecorded DEF Recording, Pcs
      <4> QED  BY <4>1 DEF RunInv, RowsHaveRuns
    <3>3. \A q \in RunIds : at \notin AddedRows(q)'
      BY <3>1, <3>2 DEF AddedRows
    <3> QED  BY <1>7, <2>2, <3>3, NoBytesMore
  <2>5. CASE Stage(w) \notin Fresh
    <3>1. KindAt[pipeline'[r]][at[3]] = Stage(w)
      BY <1>0, <1>1, <2>0, <2>1 DEF OnlyPlace, Live, Stage, At
    <3>2. \A q \in RunIds : at \notin AddedRows(q)'
      BY <2>1, <2>5, <3>1 DEF AddedRows
    <3> QED  BY <1>7, <2>2, <3>2, NoBytesMore
  <2>4. CASE keep /\ f.content # NoContent /\ Stage(w) \in Fresh
    <3>1. f.content \in Contents /\ bytes(f) = Size[f.content.data] /\ Size[f.content.data] \in Nat
      BY <1>2, <1>3, <2>4, FreshContent, SizeOf
    <3>2. ASSUME NEW q \in RunIds, q # r
          PROVE  Covered(q)'
      <4>1. at \notin AddedRows(q)'
        BY <2>1, <3>2 DEF AddedRows
      <4> QED  BY <1>7, <2>2, <4>1, NoBytesMore
    <3>3. ASSUME Job[e].cap # Unlimited
          PROVE  AddedBytes(r)' <= recorded'[e]
      <4>1. recorded'[e] = recorded[e] + Size[f.content.data]
        BY <1>1, <1>9, <2>4, <3>1, <3>3 DEF Claimed
      <4>2. AddedBytes(r)' \in Nat /\ AddedBytes(r)' <= AddedBytes(r) + Size[f.content.data]
        BY <2>1, <2>2, <3>1, SomeBytesMore
      <4>3. AddedBytes(r) \in Nat /\ AddedBytes(r) <= recorded[e] /\ recorded[e] \in Nat
        BY <1>1, <3>3, AddedIs DEF Funded, Covered, JobOf
      <4> QED  BY <3>1, <4>1, <4>2, <4>3
    <3>4. Covered(r)'
      BY <1>1, <3>3 DEF Covered, JobOf
    <3> QED  BY <3>2, <3>4
  <2> QED  BY <2>3, <2>4, <2>5
<1> QED  BY <1>6, <1>8, <1>9, FinishWrites DEF Funded
\* An id is taken only when nothing is on record under it.
LEMMA BeginFunds ==
  ASSUME RunInv, Funded, NEW e \in Execs, Begin(e)
  PROVE  Funded'
<1>1. PICK q \in RunIds : BeginRun(q, Pipe(e)) /\ owner' = [owner EXCEPT ![q] = e]
  BY DEF Begin
<1>2. ~Exists(q) /\ recorded' = recorded /\ UNCHANGED <<runStage, runSignal, kept>>
  BY <1>1 DEF Begin, BeginRun, IsNextRunId, RunIds
<1>3. \A d \in Execs : Within(d)'
  BY <1>2 DEF Funded, Within
<1>4. \A r \in RunIds : r # q => AddedBytes(r)' = AddedBytes(r)
  <2>1. \A r \in RunIds : r # q => pipeline'[r] = pipeline[r]
    BY <1>1 DEF BeginRun, RunInv, TypeOK, StoreTypeOK
  <2> QED  BY <1>2, <2>1 DEF AddedBytes, AddedRows
<1>5. AddedBytes(q)' = 0
  <2>1. AddedRows(q)' = {}
    BY <1>2 DEF AddedRows, RunInv, RowsHaveRuns, TypeOK, StoreTypeOK
  <2> QED  BY <2>1, FS_EmptySet DEF AddedBytes
<1>6. ASSUME NEW r \in RunIds, r # q
      PROVE  Covered(r)'
  <2>1. owner'[r] = owner[r] /\ Covered(r)
    BY <1>1, <1>6 DEF RunInv, TypeOK, Funded
  <2> QED  BY <1>2, <1>4, <1>6, <2>1 DEF Covered, JobOf
<1>7. Covered(q)'
  <2>1. owner'[q] = e /\ recorded[e] \in Nat
    BY <1>1 DEF RunInv, TypeOK
  <2> QED  BY <1>2, <1>4, <1>5, <2>1 DEF Covered
<1> QED  BY <1>3, <1>6, <1>7 DEF Funded

LEMMA FundedStep ==
  ASSUME NoneLive, RunInv, Funded, [Next]_vars
  PROVE  Funded'
<1>1. ASSUME NEW w \in Team, WorkerStep(w) \/ JobFails(w)
      PROVE  Funded'
  BY <1>1, FinishFunds, WorkerAddsNone, StillFunded
<1>2. ASSUME NEW e \in Execs, Tally(e) \/ RecordRunArtifacts(e) \/ Decide(e) \/ Finish(e)
                                \/ RunFails(e) \/ Cancel(e) \/ Kill(e)
      PROVE  Funded'
  <2>1. UNCHANGED <<owner, recorded, runStage, runSignal, kept, pipeline>>
    BY <1>2 DEF Tally, RecordRunArtifacts, Decide, Finish, FinishRun, RunFails, Cancel, Kill,
       SameWorkers, storeVars
  <2>2. NoneAdded
    BY <2>1 DEF NoneAdded, NoneAddedBut
  <2> QED  BY <2>1, <2>2, StillFunded
<1>3. CASE Maintain
  <2>1. Spares /\ UNCHANGED <<owner, recorded>> /\ RunInv'
    BY <1>3, MaintainSpares, MaintainKeeps DEF Maintain, execVars
  <2>2. ASSUME NEW p \in Places, p \in kept'
        PROVE  /\ p \in kept /\ runStage'[p] = runStage[p] /\ runSignal'[p] = runSignal[p]
               /\ pipeline'[p[1]] = pipeline[p[1]]
    <3>1. p \in AllPlaces /\ p[1] \in RunIds
      BY PlacesAreAllPlaces DEF Places
    <3>2. status'[p[1]] # "absent"
      BY <2>1, <2>2, <3>1 DEF RunInv, RowsHaveRuns, Exists
    <3> QED  BY <2>1, <2>2, <3>1, <3>2 DEF Spares
  <2>3. NoneAdded
    BY <2>2 DEF NoneAdded, NoneAddedBut
  <2> QED  BY <2>1, <2>3, StillFunded
<1>4. CASE UNCHANGED vars
  <2>1. UNCHANGED <<owner, recorded>> /\ NoneAdded
    BY <1>4 DEF vars, storeVars, execVars, NoneAdded, NoneAddedBut
  <2> QED  BY <2>1, StillFunded
<1> QED  BY <1>1, <1>2, <1>3, <1>4, BeginFunds DEF Next, ExecStep, AllDone

LEMMA FundedInit ==
  ASSUME Init
  PROVE  Funded
<1>1. \A r \in RunIds : AddedBytes(r) = 0
  <2>1. \A r \in RunIds : AddedRows(r) = {}
    BY DEF Init, StoreInit, AddedRows
  <2> QED  BY <2>1, FS_EmptySet DEF AddedBytes
<1>2. \A r \in RunIds : owner[r] \in Execs
  BY SchedulerAssumption DEF Init
<1>3. \A e \in Execs : recorded[e] = 0 /\ Job[e].cap \in Nat \cup {Unlimited}
  BY JobTypes DEF Init
<1> QED  BY <1>1, <1>2, <1>3 DEF Funded, Within, Covered

\* The samples a run's stages make fit its cap, whatever kinds of stage make samples and pass them
\* on, with every group in flight claiming from one budget, rows copied, swept and deleted, and ids
\* given again: what is on record as made has been claimed, row by row, and a claim that does not
\* fit is turned away (SampleBudget::claim).  What is passed on is not claimed, and not counted.
THEOREM CapsHold ==
  ASSUME NoneLive
  PROVE  Spec => []SampleCapHolds
<1>1. Init => Funded
  BY FundedInit
<1>2. RunInv /\ Funded /\ [Next]_vars => Funded'
  BY FundedStep
<1>3. RunInv /\ Funded => SampleCapHolds
  <2> SUFFICES ASSUME RunInv, Funded, NEW r \in RunIds, JobOf(r).cap # Unlimited
               PROVE  AddedBytes(r) <= JobOf(r).cap
    BY DEF SampleCapHolds
  <2>1. owner[r] \in Execs
    BY DEF RunInv, TypeOK
  <2>2. AddedBytes(r) <= recorded[owner[r]] /\ recorded[owner[r]] <= JobOf(r).cap
    BY <2>1 DEF Funded, Within, Covered, JobOf
  <2>3. AddedBytes(r) \in Nat /\ recorded[owner[r]] \in Nat /\ JobOf(r).cap \in Nat
    BY <2>1, AddedIs, JobTypes DEF JobOf, RunInv, TypeOK
  <2> QED  BY <2>2, <2>3
<1>4. Spec => []RunInv
  BY RunInvariant
<1> QED  BY <1>1, <1>2, <1>3, <1>4, PTL DEF Spec
=============================================================================
