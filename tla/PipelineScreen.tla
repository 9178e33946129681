--------------------------- MODULE PipelineScreen ---------------------------
(****************************************************************************)
(* The Pipeline screen: the pipeline being edited, the row it is saved as,   *)
(* the dataset and groups it will run over, and the jobs it starts.  Jobs    *)
(* run off the UI thread and answer in any order; the library may be changed *)
(* while they are out.  What a pipeline's stages are is abstracted to the    *)
(* document they belong to: editing keeps the document, loading replaces it. *)
(****************************************************************************)
EXTENDS Integers, Sequences, FiniteSets

CONSTANTS Documents,        \* pipelines somebody wrote
          Draft,            \* the one of them that was never saved, on screen at first
          SavedAs,          \* [library -> pipelines saved in it, by row]
          Datasets,         \* datasets of each library, the first one listed first
          MaxRows,          \* bound: rows of the pipeline table
          MaxRuns,          \* bound: runs and saves that have not answered
          MaxOut            \* bound: reads on their way

Libraries == DOMAIN SavedAs
None == 0
\* Datasets are listed in some order; a library is open at first, and it holds what it was saved with.
PipelineAssumption ==
  /\ \E d \in Datasets : \A e \in Datasets : d <= e
  /\ 1 \in Libraries /\ SavedAs \in [Libraries -> Seq(Documents)] /\ Draft \in Documents
  /\ MaxRows \in Nat /\ MaxRuns \in Nat /\ MaxOut \in Nat
  /\ \A l \in Libraries : Len(SavedAs[l]) <= MaxRows

VARIABLES library,     \* the library that is open
          document,    \* the pipeline on screen
          savedId,     \* the row it is saved as
          picks,       \* rows in the Load list
          dataset,     \* the dataset picked
          groups,      \* whose groups are listed: <<library, dataset>>, <<>> if none are
          chosen,      \* some of them are ticked
          job,         \* the run whose progress and cancel flag the screen holds
          busy,        \* Save and Run are disabled
          rows,        \* the pipeline table of each library
          reads,       \* reads on their way back, with what they read
          saves, runs  \* writes and runs that have not answered

pipelineVars == <<library, document, savedId, picks, dataset, groups, chosen, job, busy,
                  rows, reads, saves, runs>>
work == <<rows, saves, runs>>
setup == <<picks, dataset, groups, chosen>>

First == CHOOSE d \in Datasets : \A e \in Datasets : d <= e

LoadRead == [kind |-> "loaded", library |-> library, picks |-> DOMAIN rows[library]]
GroupsRead(d) == [kind |-> "groups", of |-> <<library, d>>]
PipelineRead(id) == [kind |-> "pipeline", id |-> id, document |-> rows[library][id]]

Ask(r) == Cardinality(reads) < MaxOut /\ reads' = reads \cup {r}

PipelineInit ==
  /\ library = 1 /\ document = Draft /\ savedId = None
  /\ rows = SavedAs
  /\ picks = {} /\ dataset = None /\ groups = <<>> /\ chosen = FALSE
  /\ job = None /\ busy = FALSE
  /\ reads = {LoadRead}
  /\ saves = {} /\ runs = {}

-----------------------------------------------------------------------------
\* choose_dataset: what is listed goes, and the new dataset's groups are read.
ChooseDataset(d, others) ==
  /\ dataset' = d /\ groups' = <<>> /\ chosen' = FALSE
  /\ reads' = others \cup {GroupsRead(d)}

DatasetPicked == \E d \in Datasets :
  /\ Cardinality(reads) < MaxOut
  /\ ChooseDataset(d, reads)
  /\ UNCHANGED <<library, document, savedId, picks, job, busy, work>>

GroupsTicked == \E on \in BOOLEAN :
  /\ groups # <<>> /\ chosen' = on
  /\ UNCHANGED <<library, document, savedId, picks, dataset, groups, job, busy, work, reads>>

LoadPipeline == \E id \in picks \cap DOMAIN rows[library] :
  /\ Ask(PipelineRead(id))
  /\ UNCHANGED <<library, document, savedId, setup, job, busy, work>>

\* The read of what the library holds; the first dataset is picked if none is.
Loaded == \E r \in reads :
  /\ r.kind = "loaded"
  /\ picks' = r.picks
  /\ IF dataset = None
     THEN ChooseDataset(First, reads \ {r})
     ELSE reads' = reads \ {r} /\ UNCHANGED <<dataset, groups, chosen>>
  /\ UNCHANGED <<library, document, savedId, job, busy, work>>

GroupsLoaded == \E r \in reads :
  /\ r.kind = "groups"
  /\ groups' = r.of /\ chosen' = TRUE
  /\ reads' = reads \ {r}
  /\ UNCHANGED <<library, document, savedId, picks, dataset, job, busy, work>>

PipelineLoaded == \E r \in reads :
  /\ r.kind = "pipeline"
  /\ document' = r.document /\ savedId' = r.id
  /\ reads' = reads \ {r}
  /\ UNCHANGED <<library, setup, job, busy, work>>

-----------------------------------------------------------------------------
\* Save and Run carry the pipeline and the row as they are when pressed; neither
\* looks whether it is busy, and the command palette reaches both when it is.
Order(n) == [number |-> n, library |-> library, id |-> savedId, document |-> document,
             written |-> FALSE]
Room == savedId # None \/ Len(rows[library]) + Cardinality(saves \cup runs) < MaxRows

Unused == CHOOSE n \in 1 .. MaxRuns : \A o \in saves \cup runs : o.number # n

Save ==
  /\ Cardinality(saves \cup runs) < MaxRuns /\ Room
  /\ saves' = saves \cup {Order(Unused)}
  /\ busy' = TRUE
  /\ UNCHANGED <<library, document, savedId, setup, job, reads, rows, runs>>

Run ==
  /\ chosen /\ Cardinality(saves \cup runs) < MaxRuns /\ Room
  /\ runs' = runs \cup {Order(Unused)} /\ job' = Unused
  /\ busy' = TRUE
  /\ UNCHANGED <<library, document, savedId, setup, reads, rows, saves>>

\* The writer thread gets to it: a row of its own, or the stages of the one it has.
Written(o) == IF o.id = None THEN [rows EXCEPT ![o.library] = Append(@, o.document)]
              ELSE [rows EXCEPT ![o.library][o.id] = o.document]
Done(o) == [o EXCEPT !.written = TRUE,
                     !.id = IF @ = None THEN Len(rows[o.library]) + 1 ELSE @]
CanWrite(o) == ~o.written /\ (o.id = None \/ o.id \in DOMAIN rows[o.library])
Write ==
  /\ \/ \E o \in saves : CanWrite(o) /\ rows' = Written(o)
                         /\ saves' = (saves \ {o}) \cup {Done(o)} /\ UNCHANGED runs
     \/ \E o \in runs : CanWrite(o) /\ rows' = Written(o)
                        /\ runs' = (runs \ {o}) \cup {Done(o)} /\ UNCHANGED saves
  /\ UNCHANGED <<library, document, savedId, setup, job, busy, reads>>

SlipEnable == UNCHANGED busy
Enable == busy' = FALSE

\* A row that is not there fails the write.
Saved == \E o \in saves :
  /\ saves' = saves \ {o} /\ Enable
  /\ IF o.written
     THEN savedId' = o.id /\ Ask(LoadRead)
     ELSE ~CanWrite(o) /\ UNCHANGED <<savedId, reads>>
  /\ UNCHANGED <<library, document, setup, job, rows, runs>>

JobAfter(o) == None

Finished == \E o \in runs :
  /\ o.written \/ ~CanWrite(o)
  /\ runs' = runs \ {o}
  /\ job' = JobAfter(o) /\ Enable
  /\ UNCHANGED <<library, document, savedId, setup, reads, rows, saves>>

\* App::open and forget_library: the stages stay; what they ran on, and the row, go.
OpenLibrary == \E l \in Libraries \ {library} :
  /\ library' = l
  /\ savedId' = None /\ picks' = {} /\ dataset' = None /\ groups' = <<>> /\ chosen' = FALSE
  /\ Cardinality(reads) < MaxOut
  /\ reads' = reads \cup {[kind |-> "loaded", library |-> l, picks |-> DOMAIN rows[l]]}
  /\ UNCHANGED <<document, job, busy, work>>

PipelineUser == \/ DatasetPicked \/ GroupsTicked \/ LoadPipeline \/ Save \/ Run \/ OpenLibrary
PipelineAnswers == \/ Loaded \/ GroupsLoaded \/ PipelineLoaded \/ Write \/ Saved \/ Finished
PipelineNext == PipelineUser \/ PipelineAnswers

\* Jobs end and their answers are delivered.
PipelineFairness == /\ WF_pipelineVars(Write) /\ WF_pipelineVars(Finished)
                    /\ SF_pipelineVars(Saved)
                    /\ WF_pipelineVars(Loaded \/ GroupsLoaded \/ PipelineLoaded)
PipelineSpec == PipelineInit /\ [][PipelineNext]_pipelineVars /\ PipelineFairness

-----------------------------------------------------------------------------
\* Every variable holds a value of its type.
PipelineTypeOK ==
  /\ library \in Libraries /\ document \in Documents
  /\ savedId \in 0 .. MaxRows /\ picks \subseteq 1 .. MaxRows
  /\ dataset \in Datasets \cup {None}
  /\ groups \in (Libraries \X Datasets) \cup {<<>>} /\ chosen \in BOOLEAN
  /\ job \in 0 .. MaxRuns /\ busy \in BOOLEAN
  /\ \A l \in Libraries : rows[l] \in Seq(Documents) /\ Len(rows[l]) <= MaxRows

\* The run whose progress is shown, and whose flag Cancel raises, is one that is
\* still going: Finished lets go of the job, whichever run it is of.
JobIsGoing == job # None => \E r \in runs : r.number = job

\* While Save and Run are disabled there is something out that will enable them.
BusyIsOwed == busy => saves # {} \/ runs # {}

=============================================================================
