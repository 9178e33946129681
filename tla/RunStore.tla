------------------------------ MODULE RunStore ------------------------------
(***************************************************************************)
(* The run tables of a library (crates/sp-store/schema/0004_runs.sql) and  *)
(* the write jobs that reach them (crates/sp-store/src/runs.rs, blob.rs,   *)
(* regress.rs).  A library has one writer thread, so a job that opens a    *)
(* transaction is one action here; the one job whose failure leaves a      *)
(* partial effect behind, record_source, has an action for that too.       *)
(*                                                                         *)
(* A blob is named by its content: BlobWriter::finish finds an existing    *)
(* row by checksum and shares it, so no two rows have the same content.    *)
(* refcount[c] = 0 stands for "no such row".  A group is abstracted to one *)
(* signal; NoContent is the group that has none.                           *)
(***************************************************************************)
EXTENDS Integers, FiniteSets

CONSTANTS
  MaxRun,        \* the ids SQLite may give a run are 1..MaxRun
  Groups,        \* signal groups of the library
  Ordinals,      \* 0..n, positions of the stages of a pipeline
  Contents,      \* what a sample blob may hold
  Keys,          \* stage cache keys
  Pipelines,     \* saved pipelines
  Names,         \* baseline names
  Keeps,         \* values of the setting "runs to keep of each pipeline"
  Retention,     \* [Pipelines -> [Ordinals -> retention policy]]
  Source,        \* [Groups -> content of the group's library signal]
  NoContent, NoKey, NoPlace, NoPipeline

SourceStage == -1
NoRun == 0
RunIds == 1 .. MaxRun
Places == RunIds \X Groups \X Ordinals
AllPlaces == RunIds \X Groups \X (Ordinals \cup {SourceStage})
RunStatus == {"running", "ok", "failed", "cancelled"}
StageRows == [status : {"none", "ok", "failed", "cached"},
              key : Keys \cup {NoKey}, metrics : BOOLEAN]
NoStageRow == [status |-> "none", key |-> NoKey, metrics |-> FALSE]

ASSUME StoreAssumption ==
  /\ MaxRun \in Nat
  /\ Ordinals \subseteq Nat
  /\ Keeps \subseteq Nat
  /\ IsFiniteSet(Groups) /\ IsFiniteSet(Ordinals)
  /\ Retention \in [Pipelines -> [Ordinals -> {"always", "on_failure", "never"}]]
  /\ Source \in [Groups -> Contents \cup {NoContent}]
  /\ NoContent \notin Contents /\ NoKey \notin Keys
  /\ NoPlace \notin Places /\ NoPipeline \notin Pipelines

VARIABLES
  status,     \* run.status, "absent" for an id no row has
  pipeline,   \* run.pipeline_id
  runGroup,   \* run_group.status, "none" for no row
  runStage,   \* run_stage
  runSignal,  \* run_signal: the content the row describes, NoContent for no row
  kept,       \* the run_signal rows whose blob_id is not NULL
  cache,      \* stage_cache
  baseline,   \* baseline.run_id
  library,    \* signal_group rows that exist
  refcount    \* sample_blob.refcount

storeVars == <<status, pipeline, runGroup, runStage, runSignal, kept, cache,
               baseline, library, refcount>>

Exists(r) == r # NoRun /\ status[r] # "absent"
\* The run_signal rows, and the library signals, that reference content c.
KeptRows(c) == {p \in kept : runSignal[p] = c}
Lenders(c) == {g \in library : Source[g] = c}
References(c) == Cardinality(KeptRows(c)) + Cardinality(Lenders(c))

StoreInit ==
  /\ status = [r \in RunIds |-> "absent"]
  /\ pipeline = [r \in RunIds |-> NoPipeline]
  /\ runGroup = [rg \in RunIds \X Groups |-> "none"]
  /\ runStage = [p \in Places |-> NoStageRow]
  /\ runSignal = [p \in AllPlaces |-> NoContent]
  /\ kept = {}
  /\ cache = [k \in Keys |-> NoPlace]
  /\ baseline = [n \in Names |-> NoRun]
  /\ library = Groups
  /\ refcount = [c \in Contents |-> Cardinality({g \in Groups : Source[g] = c})]

-----------------------------------------------------------------------------
(* Blobs *)

\* (Slips below, one above the definition it would replace, are what the
\* properties are tried against; no action uses them.)
SlipNoRetain(c) == refcount' = refcount
SlipReleaseNone(gone) == refcount' = refcount
SlipReleaseTwice(gone) ==
  refcount' = [c \in Contents |-> refcount[c] - 2 * Cardinality({p \in gone : runSignal[p] = c})]

\* blob::retain, and the share or first reference BlobWriter::finish returns.
Retain(c) == refcount' = IF c = NoContent THEN refcount
                                          ELSE [refcount EXCEPT ![c] = @ + 1]

\* blob::release for every row of gone: one reference each, and the row goes
\* when none is left, after which a further release changes nothing.
Release(gone) ==
  refcount' = [c \in Contents |->
                 LET n == Cardinality({p \in gone : runSignal[p] = c})
                 IN IF n >= refcount[c] THEN 0 ELSE refcount[c] - n]

-----------------------------------------------------------------------------
(* Write jobs of a run in flight *)

\* SQLite hands out one more than the largest id in use: an id is used again
\* once the newest run is deleted.
IsNextRunId(r) == /\ \A q \in RunIds : Exists(q) => q < r
                  /\ r = 1 \/ Exists(r - 1)

BeginRun(r, p) ==
  /\ IsNextRunId(r)
  /\ status' = [status EXCEPT ![r] = "running"]
  /\ pipeline' = [pipeline EXCEPT ![r] = p]
  /\ UNCHANGED <<runGroup, runStage, runSignal, kept, cache, baseline, library, refcount>>

\* run_signal's foreign key on run, and its primary key.
CanInsert(p) == Exists(p[1]) /\ runSignal[p] = NoContent
Insert(p, c) == runSignal' = IF c = NoContent THEN runSignal
                                              ELSE [runSignal EXCEPT ![p] = c]
\* The blob a row shares has to be there: retain refuses one that is not.
CanShare(c) == c = NoContent \/ refcount[c] > 0

RecordSource(r, g) ==
  LET p == <<r, g, SourceStage>> IN
  /\ CanShare(Source[g])
  /\ Source[g] # NoContent => CanInsert(p)
  /\ Insert(p, Source[g])
  /\ kept' = IF Source[g] = NoContent THEN kept ELSE kept \cup {p}
  /\ Retain(Source[g])
  /\ UNCHANGED <<status, pipeline, runGroup, runStage, cache, baseline, library>>

\* record_signal takes its reference before it inserts the row, and the job
\* that records the source opens no transaction: when the insert fails (the
\* run was deleted, the disk is full) the reference stays.
RecordSourceRefused(r, g) ==
  /\ Source[g] # NoContent /\ CanShare(Source[g])
  /\ Retain(Source[g])
  /\ UNCHANGED <<status, pipeline, runGroup, runStage, runSignal, kept, cache,
                 baseline, library>>

CanRecordGroup(r, g) == Exists(r) /\ g \in library
RecordGroup(r, g, s) ==
  /\ CanRecordGroup(r, g)
  /\ runGroup' = [runGroup EXCEPT ![<<r, g>>] = s]
  /\ UNCHANGED <<status, pipeline, runStage, runSignal, kept, cache, baseline,
                 library, refcount>>

\* What fail_stage writes.
RecordFailure(p, k) ==
  /\ Exists(p[1])
  /\ runStage' = [runStage EXCEPT ![p] = [status |-> "failed", key |-> k, metrics |-> FALSE]]
  /\ UNCHANGED <<status, pipeline, runGroup, runSignal, kept, cache, baseline,
                 library, refcount>>

\* The transaction of record_stage_output: the signal rows, the stage row and,
\* for output that may be reused, the cache key.
CanRecordOutput(p, c) ==
  /\ Exists(p[1])
  /\ c # NoContent => CanInsert(p)
RecordOutput(p, c, k, keep, publish) ==
  /\ CanRecordOutput(p, c)
  /\ Insert(p, c)
  /\ kept' = IF keep /\ c # NoContent THEN kept \cup {p} ELSE kept
  /\ Retain(IF keep THEN c ELSE NoContent)
  /\ runStage' = [runStage EXCEPT ![p] = [status |-> "ok", key |-> k, metrics |-> TRUE]]
  /\ cache' = IF publish THEN [cache EXCEPT ![k] = p] ELSE cache
  /\ UNCHANGED <<status, pipeline, runGroup, baseline, library>>

\* The transaction of reuse_cached: the rows at from copied to p, sharing
\* their blob, and a stage row with the metrics read beforehand.
Copyable(from) == runSignal[from] # NoContent
CopyOutput(from, p, k, metrics) ==
  /\ Copyable(from)
  /\ CanInsert(p)
  /\ Insert(p, runSignal[from])
  /\ kept' = IF from \in kept THEN kept \cup {p} ELSE kept
  /\ Retain(IF from \in kept THEN runSignal[from] ELSE NoContent)
  /\ runStage' = [runStage EXCEPT ![p] = [status |-> "cached", key |-> k, metrics |-> metrics]]
  /\ UNCHANGED <<status, pipeline, runGroup, cache, baseline, library>>

CacheForget(k) ==
  /\ cache' = [cache EXCEPT ![k] = NoPlace]
  /\ UNCHANGED <<status, pipeline, runGroup, runStage, runSignal, kept, baseline,
                 library, refcount>>

\* The rows stay and lose their samples.
ForgetSamples(r, g, stages) ==
  LET gone == {p \in kept : p[1] = r /\ p[2] = g /\ p[3] \in stages} IN
  /\ kept' = kept \ gone
  /\ Release(gone)
  /\ UNCHANGED <<status, pipeline, runGroup, runStage, runSignal, cache, baseline, library>>

FinishRun(r, s) ==
  /\ Exists(r)
  /\ status' = [status EXCEPT ![r] = s]
  /\ UNCHANGED <<pipeline, runGroup, runStage, runSignal, kept, cache, baseline,
                 library, refcount>>

-----------------------------------------------------------------------------
(* Write jobs of the rest of the application *)

IsBaseline(r) == \E n \in Names : baseline[n] = r

SlipKeepKeys(rs) == cache' = cache
\* stage_cache goes with its run.
Unpublish(rs) == cache' = [k \in Keys |-> IF cache[k] # NoPlace /\ cache[k][1] \in rs
                                            THEN NoPlace ELSE cache[k]]

\* The effect of deleting the runs rs: the cascades take their rows and keys,
\* then the references those rows held are released.
Remove(rs) ==
  LET gone == {p \in kept : p[1] \in rs} IN
  /\ status' = [r \in RunIds |-> IF r \in rs THEN "absent" ELSE status[r]]
  /\ pipeline' = [r \in RunIds |-> IF r \in rs THEN NoPipeline ELSE pipeline[r]]
  /\ runGroup' = [rg \in RunIds \X Groups |-> IF rg[1] \in rs THEN "none" ELSE runGroup[rg]]
  /\ runStage' = [p \in Places |-> IF p[1] \in rs THEN NoStageRow ELSE runStage[p]]
  /\ runSignal' = [p \in AllPlaces |-> IF p[1] \in rs THEN NoContent ELSE runSignal[p]]
  /\ kept' = kept \ gone
  /\ Unpublish(rs)
  /\ Release(gone)
  /\ UNCHANGED <<baseline, library>>

DeleteRun(r) ==
  /\ Exists(r) /\ ~IsBaseline(r)
  /\ Remove({r})

\* prune_runs: finished runs of p no baseline names, newest first; those past
\* the first keep go.
Doomed(p, keep) ==
  LET deletable == {r \in RunIds : /\ Exists(r) /\ pipeline[r] = p
                                   /\ status[r] # "running" /\ ~IsBaseline(r)}
  IN {r \in deletable : Cardinality({q \in deletable : q > r}) >= keep}
PruneRuns(p, keep) ==
  /\ Doomed(p, keep) # {}
  /\ Remove(Doomed(p, keep))

ClearCache ==
  /\ cache' = [k \in Keys |-> NoPlace]
  /\ UNCHANGED <<status, pipeline, runGroup, runStage, runSignal, kept, baseline,
                 library, refcount>>

Promote(n, r) ==
  /\ Exists(r)
  /\ baseline' = [baseline EXCEPT ![n] = r]
  /\ UNCHANGED <<status, pipeline, runGroup, runStage, runSignal, kept, cache,
                 library, refcount>>

DeleteBaseline(n) ==
  /\ baseline[n] # NoRun
  /\ baseline' = [baseline EXCEPT ![n] = NoRun]
  /\ UNCHANGED <<status, pipeline, runGroup, runStage, runSignal, kept, cache,
                 library, refcount>>

\* delete_train, for a train of one group: the group goes, with the run_group
\* rows that name it and its own reference on its blob; the run's rows stay.
DeleteGroup(g) ==
  /\ g \in library
  /\ library' = library \ {g}
  /\ runGroup' = [rg \in RunIds \X Groups |-> IF rg[2] = g THEN "none" ELSE runGroup[rg]]
  /\ refcount' = IF Source[g] = NoContent \/ refcount[Source[g]] = 0 THEN refcount
                 ELSE [refcount EXCEPT ![Source[g]] = @ - 1]
  /\ UNCHANGED <<status, pipeline, runStage, runSignal, kept, cache, baseline>>

-----------------------------------------------------------------------------
(* The store under callers that keep to the scheduler's discipline: a place *)
(* is recorded once, under the retention of the pipeline its run belongs to; *)
(* only kept output of an `always` stage is published; only `on_failure`     *)
(* output is swept.                                                          *)

RetentionAt(r, o) == IF Exists(r) THEN Retention[pipeline[r]][o] ELSE "never"
Unrecorded(p) == runStage[p] = NoStageRow
MayPublish(p, keep) == keep /\ RetentionAt(p[1], p[3]) = "always"
Provisional(r) == {o \in Ordinals : RetentionAt(r, o) = "on_failure"}

StageWrite(p, k) ==
  /\ Unrecorded(p)
  /\ \/ RecordFailure(p, k)
     \/ \E c \in Contents \cup {NoContent}, keep, publish \in BOOLEAN :
          /\ publish => MayPublish(p, keep)
          /\ RecordOutput(p, c, k, keep, publish)
     \/ \E from \in Places, metrics \in BOOLEAN : CopyOutput(from, p, k, metrics)

RunWrite(r) ==
  \/ \E g \in Groups : RecordSource(r, g) \/ RecordSourceRefused(r, g)
  \/ \E g \in Groups, s \in RunStatus : RecordGroup(r, g, s)
  \/ \E g \in Groups, o \in Ordinals, k \in Keys : StageWrite(<<r, g, o>>, k)
  \/ \E g \in Groups : ForgetSamples(r, g, Provisional(r))
  \/ \E s \in RunStatus \ {"running"} : FinishRun(r, s)

StoreNext ==
  \/ \E r \in RunIds, p \in Pipelines : BeginRun(r, p)
  \/ \E r \in RunIds : RunWrite(r) \/ DeleteRun(r)
  \/ \E k \in Keys : CacheForget(k)
  \/ \E p \in Pipelines, keep \in Keeps : PruneRuns(p, keep)
  \/ ClearCache
  \/ \E n \in Names, r \in RunIds : Promote(n, r)
  \/ \E n \in Names : DeleteBaseline(n)
  \/ \E g \in Groups : DeleteGroup(g)

StoreSpec == StoreInit /\ [][StoreNext]_storeVars

-----------------------------------------------------------------------------
(* What the store promises *)

StoreTypeOK ==
  /\ status \in [RunIds -> RunStatus \cup {"absent"}]
  /\ pipeline \in [RunIds -> Pipelines \cup {NoPipeline}]
  /\ runGroup \in [RunIds \X Groups -> RunStatus \cup {"none"}]
  /\ runStage \in [Places -> StageRows]
  /\ runSignal \in [AllPlaces -> Contents \cup {NoContent}]
  /\ kept \in SUBSET AllPlaces /\ IsFiniteSet(kept)
  /\ cache \in [Keys -> Places \cup {NoPlace}]
  /\ baseline \in [Names -> RunIds \cup {NoRun}]
  /\ library \in SUBSET Groups
  /\ refcount \in [Contents -> Nat]

\* No row outlives its run: whatever order runs are begun, recorded into and
\* deleted in, nothing is left under the id of a run that is gone, so a run
\* that is given that id again starts empty (the cascades of 0004_runs.sql); and no
\* stage has signals on record without its own row.
RowsHaveRuns ==
  /\ \A r \in RunIds : Exists(r) => pipeline[r] \in Pipelines
  /\ \A p \in AllPlaces : runSignal[p] # NoContent => Exists(p[1])
  /\ \A p \in kept : runSignal[p] # NoContent
  /\ \A p \in Places : /\ runStage[p] # NoStageRow => Exists(p[1])
                       /\ runSignal[p] # NoContent => runStage[p] # NoStageRow

\* A blob is there for as long as any row needs it: its count is never below
\* the rows of runs and of the library that refer to it, although copies,
\* sweeps, deletions and failed writes all move the count by hand
\* (blob::retain, release and their callers in runs.rs).
RefcountsCover == \A c \in Contents : refcount[c] >= References(c)

\* A published key finds what it was published for: the run is there, the row
\* at that place is the one written under that key, and its samples have not
\* been swept (cache_put's caller, and cache.rs: "a key never points at rows
\* that are gone").
KeyResolves(k) ==
  LET p == cache[k] IN
  /\ Exists(p[1])
  /\ runStage[p].status = "ok" /\ runStage[p].key = k
  /\ runSignal[p] # NoContent => p \in kept
  /\ RetentionAt(p[1], p[3]) = "always"
KeysResolve == \A k \in Keys : cache[k] # NoPlace => KeyResolves(k)

\* The run a baseline names stays (delete_run and prune_runs refuse it).
BaselinesStand == \A n \in Names : baseline[n] # NoRun => Exists(baseline[n])
=============================================================================
