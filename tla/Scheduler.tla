----------------------------- MODULE Scheduler ------------------------------
(***************************************************************************)
(* Pipeline runs (crates/sp-proc/src/scheduler.rs, cache.rs, frame.rs)     *)
(* over the run tables of a library.  An execution is one call of          *)
(* run_pipeline; each of its groups has a worker in the rayon pool, and a  *)
(* worker gives way at every read or write job it sends to the library.    *)
(* While executions are under way the rest of the application deletes,     *)
(* prunes and promotes runs and clears the cache.                          *)
(*                                                                         *)
(* A group holds one signal.  What a sample blob holds is a pair of sample *)
(* data and timebase: both are in the blob's checksum.  A frame that holds *)
(* its samples in memory is hashed without its timebase.                   *)
(***************************************************************************)
EXTENDS RunStore

CONSTANTS
  Execs,        \* calls of run_pipeline
  Job,          \* [Execs -> what the call was given]
  Data, Times,  \* sample data and timebases
  Attrs,        \* values of the group attribute a stage may patch and read
  GroupAttr,    \* [Groups -> value in the library]
  Kinds,        \* stage kinds, with their parameters
  KindAt,       \* [Pipelines -> [ordinals of its stages -> Kinds]]
  Pure,         \* kinds declared pure
  Fresh,        \* kinds that replace the samples rather than pass them on
  Fallible,     \* kinds that may reject a group, or refuse to be set up for it
  Transform,    \* [Fresh -> [Data \X Times \X Attrs -> Data]]
  Patch,        \* [Kinds -> value the group attribute is patched to, or Keep]
  Size,         \* [Data -> bytes of samples]
  Upkeep,       \* the maintenance jobs that may run meanwhile
  MaxFaults,    \* how many jobs may fail for want of disk
  NoData, NoTime, NoChange

Unlimited == -1
Jobs == [pipeline : Pipelines, groups : (SUBSET Groups) \ {{}}, inFlight : Nat \ {0},
         useCache : BOOLEAN, asserted : BOOLEAN, cap : Nat \cup {Unlimited}]
Frames == [content : Contents \cup {NoContent}, stored : BOOLEAN, attr : Attrs]

ASSUME SchedulerAssumption ==
  /\ Execs # {}
  /\ Contents = [data : Data, time : Times]
  /\ Keys = [kind : Kinds, data : Data \cup {NoData}, time : Times \cup {NoTime}]
  /\ Job \in [Execs -> Jobs]
  /\ GroupAttr \in [Groups -> Attrs]
  /\ \A p \in Pipelines : /\ DOMAIN KindAt[p] \subseteq Ordinals
                          /\ \A o \in DOMAIN KindAt[p] : KindAt[p][o] \in Kinds
                          /\ \A o \in DOMAIN KindAt[p] : \A i \in 0 .. o : i \in DOMAIN KindAt[p]
  /\ Pure \subseteq Kinds /\ Fresh \subseteq Kinds /\ Fallible \subseteq Kinds
  /\ Transform \in [Fresh -> [Data \X Times \X Attrs -> Data]]
  /\ Patch \in [Kinds -> Attrs \cup {NoChange}]
  /\ Size \in [Data -> Nat]
  /\ MaxFaults \in Nat
  /\ NoData \notin Data /\ NoTime \notin Times

VARIABLES
  mode,       \* where run_pipeline is
  run,        \* the id begin_run returned
  owner,      \* the execution that began the run last given each id
  cancel,     \* RunControl.cancel
  recorded,   \* SampleBudget.recorded
  verdict,    \* RunSummary.status
  worker,     \* [Execs \X Groups -> what run_group holds]
  faults      \* jobs that have failed for want of disk

execVars == <<mode, run, owner, cancel, recorded, verdict, worker, faults>>
vars == <<storeVars, execVars>>

Pcs == {"waiting", "source", "open", "stage", "recall", "copy", "stale", "rebuild",
        "process", "assess", "sweep", "close", "settled"}
Workers == [pc : Pcs, stage : Nat, frame : Frames, hit : Places \cup {NoPlace},
            metrics : BOOLEAN, outcome : {"ok", "failed", "cancelled", "error"}]
Team == Execs \X Groups

Pipe(e) == Job[e].pipeline
LastStage(p) == Cardinality(DOMAIN KindAt[p]) - 1
At(w) == <<run[w[1]], w[2], worker[w].stage>>
Stage(w) == KindAt[Pipe(w[1])][worker[w].stage]
FrameOf(c, attr) == [content |-> c, stored |-> TRUE, attr |-> attr]

Init ==
  /\ StoreInit
  /\ mode = [e \in Execs |-> "idle"]
  /\ run = [e \in Execs |-> NoRun]
  /\ owner = [r \in RunIds |-> CHOOSE e \in Execs : TRUE]
  /\ cancel = [e \in Execs |-> FALSE]
  /\ recorded = [e \in Execs |-> 0]
  /\ verdict = [e \in Execs |-> "running"]
  /\ worker = [w \in Team |-> [pc |-> "waiting", stage |-> 0,
                               frame |-> FrameOf(Source[w[2]], GroupAttr[w[2]]),
                               hit |-> NoPlace, metrics |-> FALSE, outcome |-> "ok"]]
  /\ faults = 0

-----------------------------------------------------------------------------
(* Keys and stages *)

SlipKindKey(kind, f) == [kind |-> kind, data |-> NoData, time |-> NoTime]
\* cache::input_hash and stage_key.
StageKey(kind, f) ==
  [kind |-> kind,
   data |-> IF f.content = NoContent THEN NoData ELSE f.content.data,
   time |-> IF f.content # NoContent /\ f.stored THEN f.content.time ELSE NoTime]
KeyAt(w) == StageKey(Stage(w), worker[w].frame)

\* What Stage::process may hand back for frame f, applied to it.  Replaced
\* samples keep their timebase and are in memory; a kind that is not pure may
\* come back with anything.
Patched(kind, f) == IF Patch[kind] = NoChange THEN f.attr ELSE Patch[kind]
NewData(kind, f) == IF kind \in Pure
                    THEN {Transform[kind][<<f.content.data, f.content.time, f.attr>>]}
                    ELSE Data
Applied(kind, f) ==
  IF kind \in Fresh /\ f.content # NoContent
  THEN {[content |-> [data |-> d, time |-> f.content.time], stored |-> FALSE,
         attr |-> Patched(kind, f)] : d \in NewData(kind, f)}
  ELSE {[f EXCEPT !.attr = Patched(kind, f)]}
\* fresh_sample_bytes, for the frame the stage left.
FreshBytes(kind, f) == IF kind \in Fresh /\ f.content # NoContent
                       THEN Size[f.content.data] ELSE 0

\* A stored frame reads its samples out of the library.
Readable(f) == f.content # NoContent /\ f.stored => refcount[f.content] > 0

-----------------------------------------------------------------------------
(* run_group: one action per read or write job *)

Busy(e) == {w \in Team : w[1] = e /\ worker[w].pc \notin {"waiting", "settled"}}
\* (A worker asks only whether there is a run and a process; that it has
\* settled before the run is closed is what AllSettled sees to.)
Ready(w, pc) == /\ mode[w[1]] \notin {"idle", "dead"} /\ run[w[1]] # NoRun
                /\ worker[w].pc = pc
Go(w, next) == worker' = [worker EXCEPT ![w] = next]
SlipStuck(w) == Go(w, [worker[w] EXCEPT !.outcome = "error"])
Abort(w) == Go(w, [worker[w] EXCEPT !.pc = "settled", !.outcome = "error"])
SameExec == UNCHANGED <<mode, run, owner, cancel, recorded, verdict, faults>>
OnlyWorker == UNCHANGED storeVars /\ SameExec
PastStage(w, f) == [worker[w] EXCEPT !.pc = "stage", !.stage = @ + 1, !.frame = f,
                                     !.hit = NoPlace]

StartGroup(w) ==
  /\ Ready(w, "waiting") /\ w[2] \in Job[w[1]].groups
  /\ Cardinality(Busy(w[1])) < Job[w[1]].inFlight
  /\ IF cancel[w[1]] \/ w[2] \notin library THEN Abort(w)
     ELSE Go(w, [worker[w] EXCEPT !.pc = "source"])
  /\ OnlyWorker

StoreSource(w) ==
  LET r == run[w[1]]
      g == w[2]
  IN
  /\ Ready(w, "source")
  /\ \/ RecordSource(r, g) /\ Go(w, [worker[w] EXCEPT !.pc = "open"])
     \/ Source[g] # NoContent /\ ~CanInsert(<<r, g, SourceStage>>)
        /\ RecordSourceRefused(r, g) /\ Abort(w)
     \/ ~CanShare(Source[g]) /\ UNCHANGED storeVars /\ Abort(w)
  /\ SameExec

\* The group goes on record as running; then build_stages creates and sets up
\* an instance of each kind, one of which may refuse.
MayRefuse(p) == \E o \in DOMAIN KindAt[p] : KindAt[p][o] \in Fallible
OpenGroup(w) ==
  /\ Ready(w, "open")
  /\ IF CanRecordGroup(run[w[1]], w[2])
     THEN /\ RecordGroup(run[w[1]], w[2], "running")
          /\ \/ Go(w, [worker[w] EXCEPT !.pc = "stage"])
             \/ MayRefuse(Pipe(w[1])) /\ Abort(w)
     ELSE UNCHANGED storeVars /\ Abort(w)
  /\ SameExec

\* The check between stages, the key, and the lookup.
BeginStage(w) ==
  LET ws == worker[w]
      hit == IF Job[w[1]].useCache /\ Stage(w) \in Pure THEN cache[KeyAt(w)] ELSE NoPlace
  IN
  /\ Ready(w, "stage")
  /\ \/ ws.stage > LastStage(Pipe(w[1])) /\ Go(w, [ws EXCEPT !.pc = "assess"])
     \/ ws.stage <= LastStage(Pipe(w[1])) /\ cancel[w[1]] /\ Abort(w)
     \/ /\ ws.stage <= LastStage(Pipe(w[1])) /\ ~cancel[w[1]]
        /\ Go(w, [ws EXCEPT !.pc = IF hit = NoPlace THEN "process" ELSE "recall",
                            !.hit = hit])
  /\ OnlyWorker

\* reuse_cached: the metrics are read, the output copied, and a key whose rows
\* are gone is forgotten, in three jobs after the lookup.
SlipForgetMetrics(w) ==
  Ready(w, "recall") /\ Go(w, [worker[w] EXCEPT !.pc = "copy"]) /\ OnlyWorker
Recall(w) ==
  /\ Ready(w, "recall")
  /\ Go(w, [worker[w] EXCEPT !.pc = "copy", !.metrics = runStage[worker[w].hit].metrics])
  /\ OnlyWorker

Copy(w) ==
  LET from == worker[w].hit IN
  /\ Ready(w, "copy")
  /\ \/ CopyOutput(from, At(w), KeyAt(w), worker[w].metrics)
        /\ Go(w, [worker[w] EXCEPT !.pc = "rebuild"])
     \/ ~Copyable(from) /\ UNCHANGED storeVars /\ Go(w, [worker[w] EXCEPT !.pc = "stale"])
     \/ Copyable(from) /\ ~CanInsert(At(w)) /\ UNCHANGED storeVars /\ Abort(w)
  /\ SameExec

ForgetStale(w) ==
  /\ Ready(w, "stale")
  /\ CacheForget(KeyAt(w))
  /\ Go(w, [worker[w] EXCEPT !.pc = "process", !.hit = NoPlace])
  /\ SameExec

\* frame_from_records: the samples are those on record, the attribute of the
\* group is that of the frame at hand.
Rebuild(w) ==
  LET c == runSignal[At(w)] IN
  /\ Ready(w, "rebuild")
  /\ IF c # NoContent /\ At(w) \notin kept THEN Abort(w)
     ELSE Go(w, PastStage(w, FrameOf(c, worker[w].frame.attr)))
  /\ OnlyWorker

\* Stage::process returns an error, fail_stage records it.
FailStage(w) ==
  /\ Ready(w, "process")
  /\ \E o \in {"failed", "cancelled"} :
       /\ o = "failed" => Stage(w) \in Fallible \/ ~Readable(worker[w].frame)
       /\ o = "cancelled" => cancel[w[1]]
       /\ IF Exists(run[w[1]])
          THEN RecordFailure(At(w), KeyAt(w))
               /\ Go(w, [worker[w] EXCEPT !.pc = "close", !.outcome = o])
          ELSE UNCHANGED storeVars /\ Abort(w)
  /\ SameExec

\* Stage::process returns its output: the claim on the sample budget, then the
\* transaction of record_stage_output.
SlipFitsAlone(e, bytes) == Job[e].cap = Unlimited \/ bytes <= Job[e].cap
Fits(e, bytes) == Job[e].cap = Unlimited \/ recorded[e] + bytes <= Job[e].cap
SlipPublishAll(w, keep) == keep /\ Stage(w) \in Pure
Publishes(w, keep) == /\ keep /\ Stage(w) \in Pure
                      /\ Retention[Pipe(w[1])][worker[w].stage] = "always"
CanRecord(w, f, keep) == /\ CanRecordOutput(At(w), f.content)
                         /\ keep /\ f.stored => CanShare(f.content)
FinishStage(w) ==
  LET e == w[1]
      policy == Retention[Pipe(e)][worker[w].stage]
  IN
  /\ Ready(w, "process")
  /\ Stage(w) \in Fresh => Readable(worker[w].frame)
  /\ \E f \in Applied(Stage(w), worker[w].frame) :
       LET bytes == FreshBytes(Stage(w), f)
           keep == policy # "never" /\ Fits(e, bytes)
       IN
       /\ recorded' = IF keep /\ Job[e].cap # Unlimited
                      THEN [recorded EXCEPT ![e] = @ + bytes] ELSE recorded
       /\ IF CanRecord(w, f, keep)
          THEN /\ RecordOutput(At(w), f.content, KeyAt(w), keep, Publishes(w, keep))
               /\ Go(w, IF keep THEN [worker[w] EXCEPT !.pc = "rebuild", !.frame = f]
                                ELSE PastStage(w, f))
          ELSE UNCHANGED storeVars /\ Abort(w)
  /\ UNCHANGED <<mode, run, owner, cancel, verdict, faults>>

\* evaluate_assertions: the facts come from the run tables, the results go there.
Assess(w) ==
  LET asks == Job[w[1]].asserted
      lost == asks /\ ~Exists(run[w[1]])
  IN
  /\ Ready(w, "assess")
  /\ \/ ~lost /\ Go(w, [worker[w] EXCEPT !.pc = "sweep"])
     \/ ~lost /\ asks /\ Go(w, [worker[w] EXCEPT !.pc = "close", !.outcome = "failed"])
     \/ lost /\ Abort(w)
  /\ OnlyWorker

SlipSweepNothing(p) == {}
Provision(p) == {o \in DOMAIN KindAt[p] : Retention[p][o] = "on_failure"}
Sweep(w) ==
  /\ Ready(w, "sweep")
  /\ ForgetSamples(run[w[1]], w[2], Provision(Pipe(w[1])))
  /\ Go(w, [worker[w] EXCEPT !.pc = "close"])
  /\ SameExec

CloseGroup(w) ==
  /\ Ready(w, "close")
  /\ IF CanRecordGroup(run[w[1]], w[2])
     THEN RecordGroup(run[w[1]], w[2], worker[w].outcome)
          /\ Go(w, [worker[w] EXCEPT !.pc = "settled"])
     ELSE UNCHANGED storeVars /\ Abort(w)
  /\ SameExec

\* A job fails for want of disk and its transaction, if it has one, is rolled
\* back; record_source has none.
JobFails(w) ==
  /\ mode[w[1]] = "groups"
  /\ worker[w].pc \in {"source", "open", "copy", "stale", "process", "assess", "sweep", "close"}
  /\ faults < MaxFaults
  /\ faults' = faults + 1
  /\ \/ UNCHANGED storeVars
     \/ worker[w].pc = "source" /\ RecordSourceRefused(run[w[1]], w[2])
  /\ Abort(w)
  /\ UNCHANGED <<mode, run, owner, cancel, recorded, verdict>>

WorkerStep(w) ==
  \/ StartGroup(w) \/ StoreSource(w) \/ OpenGroup(w)
  \/ BeginStage(w) \/ Recall(w) \/ Copy(w) \/ ForgetStale(w) \/ Rebuild(w)
  \/ FailStage(w) \/ FinishStage(w)
  \/ Assess(w) \/ Sweep(w) \/ CloseGroup(w)

-----------------------------------------------------------------------------
(* run_pipeline *)

SlipOneOutcome(e) == {worker[<<e, CHOOSE g \in Job[e].groups : TRUE>>].outcome}
Outcomes(e) == {worker[<<e, g>>].outcome : g \in Job[e].groups}
SlipSomeSettled(e) == \E g \in Job[e].groups : worker[<<e, g>>].pc = "settled"
AllSettled(e) == \A g \in Job[e].groups : worker[<<e, g>>].pc = "settled"
Enter(e, m) == mode' = [mode EXCEPT ![e] = m]
SameWorkers == UNCHANGED <<owner, cancel, recorded, worker, faults>>

Begin(e) ==
  /\ mode[e] = "idle"
  /\ \E r \in RunIds : /\ BeginRun(r, Pipe(e))
                       /\ run' = [run EXCEPT ![e] = r]
                       /\ owner' = [owner EXCEPT ![r] = e]
  /\ Enter(e, "groups")
  /\ UNCHANGED <<cancel, recorded, verdict, worker, faults>>

\* The last group is in: run-level artifacts are asked for only if all is well.
Tally(e) ==
  /\ mode[e] = "groups"
  /\ AllSettled(e)
  /\ Enter(e, IF Outcomes(e) = {"ok"} /\ ~cancel[e] THEN "artifacts" ELSE "status")
  /\ UNCHANGED <<storeVars, run, verdict>> /\ SameWorkers

\* record_run_artifacts; an error there leaves run_pipeline at once.
RecordRunArtifacts(e) ==
  /\ mode[e] = "artifacts"
  /\ \/ Enter(e, "status")
     \/ ~Exists(run[e]) /\ Enter(e, "done")
  /\ UNCHANGED <<storeVars, run, verdict>> /\ SameWorkers

Decide(e) ==
  /\ mode[e] = "status"
  /\ verdict' = [verdict EXCEPT ![e] = IF cancel[e] THEN "cancelled"
                                       ELSE IF Outcomes(e) = {"ok"} THEN "ok" ELSE "failed"]
  /\ Enter(e, "finish")
  /\ UNCHANGED <<storeVars, run>> /\ SameWorkers

Finish(e) ==
  /\ mode[e] = "finish"
  /\ IF Exists(run[e]) THEN FinishRun(run[e], verdict[e]) ELSE UNCHANGED storeVars
  /\ Enter(e, "done")
  /\ UNCHANGED <<run, verdict>> /\ SameWorkers

RunFails(e) ==
  /\ mode[e] \in {"idle", "artifacts", "finish"} /\ faults < MaxFaults
  /\ faults' = faults + 1
  /\ Enter(e, "done")
  /\ UNCHANGED <<storeVars, run, owner, cancel, recorded, verdict, worker>>

ExecStep(e) == Begin(e) \/ Tally(e) \/ RecordRunArtifacts(e) \/ Decide(e) \/ Finish(e)

-----------------------------------------------------------------------------
(* The rest of the application *)

Cancel(e) ==
  /\ "cancel" \in Upkeep
  /\ mode[e] \notin {"idle", "done", "dead"} /\ ~cancel[e]
  /\ cancel' = [cancel EXCEPT ![e] = TRUE]
  /\ UNCHANGED <<storeVars, mode, run, owner, recorded, verdict, worker, faults>>

\* The process is killed: what it had committed is what there is.
Kill(e) ==
  /\ "kill" \in Upkeep
  /\ mode[e] \notin {"idle", "done", "dead"}
  /\ Enter(e, "dead")
  /\ UNCHANGED <<storeVars, run, verdict>> /\ SameWorkers

Maintain ==
  /\ \/ /\ "delete" \in Upkeep
        /\ \E r \in RunIds : status[r] # "running" /\ DeleteRun(r)
     \/ "delete_live" \in Upkeep /\ \E r \in RunIds : DeleteRun(r)
     \/ "prune" \in Upkeep /\ \E p \in Pipelines, keep \in Keeps : PruneRuns(p, keep)
     \/ "clear" \in Upkeep /\ ClearCache
     \/ "promote" \in Upkeep /\ \E n \in Names, r \in RunIds : Promote(n, r)
     \/ "drop" \in Upkeep /\ \E n \in Names : DeleteBaseline(n)
     \/ "remove" \in Upkeep /\ \E g \in Groups : DeleteGroup(g)
  /\ UNCHANGED execVars

\* Nothing is left to run.
AllDone == /\ \A e \in Execs : mode[e] \in {"done", "dead"}
           /\ UNCHANGED vars

Next ==
  \/ \E w \in Team : WorkerStep(w) \/ JobFails(w)
  \/ \E e \in Execs : ExecStep(e) \/ RunFails(e) \/ Cancel(e) \/ Kill(e)
  \/ Maintain
  \/ AllDone

Spec == Init /\ [][Next]_vars

\* The writer thread serves every job it is sent and the pool runs every group,
\* so a worker or an execution that can go on does.  Nobody need press cancel
\* or delete anything.
FairSpec == Spec /\ \A w \in Team : WF_vars(WorkerStep(w))
                 /\ \A e \in Execs : WF_vars(ExecStep(e))

-----------------------------------------------------------------------------
(* What a run promises *)

TypeOK ==
  /\ StoreTypeOK
  /\ mode \in [Execs -> {"idle", "groups", "artifacts", "status", "finish", "done", "dead"}]
  /\ run \in [Execs -> RunIds \cup {NoRun}]
  /\ owner \in [RunIds -> Execs]
  /\ cancel \in [Execs -> BOOLEAN]
  /\ recorded \in [Execs -> Nat]
  /\ verdict \in [Execs -> RunStatus]
  /\ worker \in [Team -> Workers]
  /\ faults \in 0 .. MaxFaults

Finished(r) == status[r] \in {"ok", "failed", "cancelled"}
JobOf(r) == Job[owner[r]]

\* Every reference is accounted for: however executions, copies, sweeps and
\* deletions interleave, a blob's count is exactly the rows that name it, so
\* the last of them to go takes it along (DESIGN.md 14).  That is of jobs that are not
\* refused half-way: a refused insert leaves its reference counted, and RefcountsCover
\* is what holds then.
RefcountsExact == \A c \in Contents : refcount[c] = References(c)

\* What a pipeline would record of a group with the cache off: pure kinds only.
Cold(p, g) ==
  LET f[o \in -1 .. LastStage(p)] ==
        IF o = -1 THEN FrameOf(Source[g], GroupAttr[g])
                  ELSE CHOOSE next \in Applied(KindAt[p][o], f[o - 1]) : TRUE
  IN f
PureTo(p, o) == \A i \in 0 .. o : KindAt[p][i] \in Pure

\* A run that reuses recorded output records, at every stage, the samples it
\* would have recorded by running the stage (cache.rs: "two groups whose signals
\* hash the same genuinely produce the same output"; DESIGN.md 15).
CachedEqualsCold ==
  \A p \in Places :
    Exists(p[1]) /\ runSignal[p] # NoContent /\ PureTo(pipeline[p[1]], p[3])
      => runSignal[p] = Cold(pipeline[p[1]], p[2])[p[3]].content

\* A stage answered from the cache carries the metrics of the stage it stands
\* in for (reuse_cached reads them in a job before the one that copies).
CachedRowKeepsMetrics ==
  \A p \in Places : runStage[p].status = "cached" => runStage[p].metrics

\* A run's status is what became of its groups: an ok run has every stage of
\* every group on record, a failed one a group that is not ok, and only a run
\* that was asked to stop is cancelled.
VerdictHolds ==
  \A r \in RunIds :
    /\ status[r] = "ok" =>
         \A g \in JobOf(r).groups :
           /\ runGroup[<<r, g>>] = "ok"
           /\ \A o \in DOMAIN KindAt[pipeline[r]] :
                runStage[<<r, g, o>>].status \in {"ok", "cached"}
    /\ status[r] = "failed" => \E g \in JobOf(r).groups : runGroup[<<r, g>>] # "ok"
    /\ status[r] = "cancelled" => cancel[owner[r]]

\* on_failure samples are evidence: a group that failed still has those of
\* every stage it got through, a group that passed has none
\* (sweep_on_failure_samples; no cap).
EvidenceKept ==
  \A r \in RunIds : Exists(r) =>
    \A g \in JobOf(r).groups, o \in Provisional(r) :
      LET p == <<r, g, o>> IN
      /\ runGroup[<<r, g>>] \in {"failed", "cancelled"} /\ runSignal[p] # NoContent
           => p \in kept
      /\ runGroup[<<r, g>>] = "ok" => p \notin kept

\* The samples a run's own stages make, each row counted in full, fit its cap,
\* with every group in flight claiming from the same budget (SampleBudget,
\* DESIGN.md 9.5).  Samples a stage passes on are never claimed (scheduler.rs
\* 1054-1068) and are outside this: mostly they share the blob they came with,
\* but where the stage before was turned away, or keeps none, they are written
\* by the stage that passes them on (1091), beyond the cap.
AddedRows(r) == {p \in kept \cap Places : /\ p[1] = r /\ runStage[p].status = "ok"
                                         /\ KindAt[pipeline[r]][p[3]] \in Fresh}
AddedBytes(r) == Cardinality(UNION {{p} \X (1 .. Size[runSignal[p].data]) : p \in AddedRows(r)})
SampleCapHolds ==
  \A r \in RunIds : Exists(r) /\ JobOf(r).cap # Unlimited => AddedBytes(r) <= JobOf(r).cap

\* A finished run is a record: until it is deleted no row of it changes, in
\* particular not by a worker that is late (run_group, record_group).
Rows(r) == <<status[r], [g \in Groups |-> runGroup[<<r, g>>]],
             [go \in Groups \X Ordinals |-> <<runStage[<<r, go[1], go[2]>>],
                                              runSignal[<<r, go[1], go[2]>>],
                                              <<r, go[1], go[2]>> \in kept>>]>>
FinishedRunsFixed ==
  [][\A r \in RunIds : Finished(r) => status'[r] = "absent" \/ Rows(r)' = Rows(r)]_vars

\* run_pipeline comes back, whatever is cancelled or deleted meanwhile.
RunsReturn == \A e \in Execs : mode[e] = "groups" ~> mode[e] = "done"
=============================================================================
