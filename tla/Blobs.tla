------------------------------- MODULE Blobs -------------------------------
(***************************************************************************)
(* The blob store statement by statement (crates/sp-store/src/blob.rs,     *)
(* pyramid.rs, verify.rs) with the jobs that write it: storing the columns *)
(* of an owner (a dataset, a train, a run) in one transaction, deleting an *)
(* owner in no transaction at all, building and dropping render pyramids,  *)
(* verifying on a reader while all this goes on, and repairing.            *)
(*                                                                         *)
(* The writer thread runs one job at a time, so `job` is the job in hand.  *)
(* Inside a transaction readers see job.saved; everywhere else each        *)
(* statement is committed by itself, and a crash keeps those before it.    *)
(* A pyramid's bytes are the sequence of the columns its chunks were read  *)
(* from: a sound one repeats its own column.                               *)
(***************************************************************************)
EXTENDS Integers, FiniteSets, Sequences

CONSTANTS Columns,     \* contents a column of samples may have
          Chunks,      \* [Columns -> number of build chunks]
          Owners, Slots,   \* an owner has a column in each slot it filled
          MaxId,       \* bound on blob ids
          Builders,    \* threads that build pyramids
          MaxCrashes, MaxRepairs,   \* bounds on crashes, and on reports that are applied
          PendingSum, NoSum   \* what sample_blob.checksum holds before the address; no row

Ids == 1 .. MaxId
NoId == 0
Reductions == UNION {[1 .. n -> Columns] : n \in {Chunks[c] : c \in Columns}}
NoBlob == [sum |-> NoSum, refs |-> 0]
Rows == Owners \X Slots

\* Contents are finitely many, and no content is one of the nulls.
ASSUME BlobsAssumption ==
  /\ IsFiniteSet(Columns) /\ IsFiniteSet(Owners) /\ IsFiniteSet(Slots)
  /\ Chunks \in [Columns -> Nat] /\ MaxId \in Nat /\ MaxCrashes \in Nat
  /\ PendingSum # NoSum /\ {PendingSum, NoSum} \cap (Columns \cup Reductions) = {}

VARIABLES db,        \* the tables: sample_blob, rows that name a blob, render_pyramid
          job,       \* what the writer thread is doing
          wrote,     \* the content each row was inserted with
          builder,   \* each thread that builds a pyramid
          report,    \* a verification under way or finished
          crashes, repairs,
          trusted    \* no repair has applied a report older than the tables
blobVars == <<db, job, wrote, builder, report, crashes, repairs, trusted>>

Live(d) == {i \in Ids : d.blob[i] # NoBlob}
Rowid(d) == 1 + CHOOSE m \in Live(d) \cup {0} : \A i \in Live(d) : i <= m
IdOf(d, sum) == {i \in Live(d) : d.blob[i].sum = sum}
Named(d, i) == Cardinality({r \in Rows : d.row[r] = i})
               + Cardinality({c \in Columns : d.pyramid[c] = i})
InTransaction == job.kind = "storing"
Committed == IF InTransaction THEN job.saved ELSE db

Deletable(d, i) == Named(d, i) = 0
Raise(d, i, n) == [d EXCEPT !.blob[i].refs = @ + n]
Drop(d, i) == [d EXCEPT !.blob[i] = NoBlob]

NoNames == [i \in Ids |-> 0]
Idle == [kind |-> "idle"]
Free == job = Idle
BlobsInit ==
  /\ db = [blob |-> [i \in Ids |-> NoBlob], row |-> [r \in Rows |-> NoId],
           pyramid |-> [c \in Columns |-> NoId]]
  /\ job = Idle /\ wrote = [r \in Rows |-> NoSum]
  /\ builder = [b \in Builders |-> Idle] /\ report = Idle
  /\ crashes = 0 /\ repairs = 0 /\ trusted = TRUE

\* A change that readers see makes every report older than the tables.
Touch == report' = IF Committed' # Committed /\ report # Idle
                   THEN [report EXCEPT !.stale = TRUE] ELSE report

----------------------------------------------------------------------------
\* One transaction: for each column a pending row, its address, its owner's row.
BeginStore(o) ==
  /\ Free /\ \A s \in Slots : db.row[<<o, s>>] = NoId
  /\ job' = [kind |-> "storing", owner |-> o, at |-> NoId, saved |-> db, before |-> wrote]
  /\ UNCHANGED <<db, wrote, builder, report, crashes, repairs, trusted>>

BeginColumn ==
  /\ InTransaction /\ job.at = NoId /\ Rowid(db) \in Ids
  /\ db' = [db EXCEPT !.blob[Rowid(db)] = [sum |-> PendingSum, refs |-> 0]]
  /\ job' = [job EXCEPT !.at = Rowid(db)]
  /\ UNCHANGED <<wrote, builder, report, crashes, repairs, trusted>>

SlipShare(d, i, sum) ==
  IF IdOf(d, sum) = {} THEN [d EXCEPT !.blob[i] = [sum |-> sum, refs |-> 1]] ELSE Drop(d, i)
Finish(d, i, sum) ==
  IF IdOf(d, sum) = {} THEN [d EXCEPT !.blob[i] = [sum |-> sum, refs |-> 1]]
  ELSE Raise(Drop(d, i), CHOOSE e \in IdOf(d, sum) : TRUE, 1)

EndColumn == \E c \in Columns, s \in Slots :
  /\ InTransaction /\ job.at # NoId /\ db.row[<<job.owner, s>>] = NoId
  /\ LET d == Finish(db, job.at, c)
     IN db' = [d EXCEPT !.row[<<job.owner, s>>] = CHOOSE i \in IdOf(d, c) : TRUE]
  /\ wrote' = [wrote EXCEPT ![<<job.owner, s>>] = c]
  /\ job' = [job EXCEPT !.at = NoId]
  /\ UNCHANGED <<builder, report, crashes, repairs, trusted>>

Commit ==
  /\ InTransaction /\ job.at = NoId
  /\ job' = Idle
  /\ UNCHANGED <<db, wrote, builder, crashes, repairs, trusted>>
  /\ Touch

\* An error, a cancellation or a panic drops the transaction.
Rollback ==
  /\ InTransaction
  /\ db' = job.saved /\ wrote' = job.before /\ job' = Idle
  /\ UNCHANGED <<builder, report, crashes, repairs, trusted>>

----------------------------------------------------------------------------
\* delete_dataset, delete_train, delete_signal, delete_run: what is named, the row and all
\* that cascades from it, then one release after another; release is two statements.
Owned(o) == {r \in Rows : r[1] = o /\ db.row[r] # NoId}
DeleteOwner(o) ==
  /\ Free /\ Owned(o) # {}
  /\ db' = [db EXCEPT !.row = [r \in Rows |-> IF r \in Owned(o) THEN NoId ELSE @[r]]]
  /\ wrote' = [r \in Rows |-> IF r \in Owned(o) THEN NoSum ELSE wrote[r]]
  /\ job' = [kind |-> "releasing", at |-> NoId, sums |-> {},
             todo |-> [i \in Ids |-> Cardinality({r \in Owned(o) : db.row[r] = i})]]
  /\ UNCHANGED <<builder, crashes, repairs, trusted>>
  /\ Touch

\* clear_all: the sums first, then each row with its release.
ClearPyramids ==
  /\ Free /\ \E c \in Columns : db.pyramid[c] # NoId
  /\ job' = [kind |-> "releasing", todo |-> NoNames, at |-> NoId,
             sums |-> {c \in Columns : db.pyramid[c] # NoId}]
  /\ UNCHANGED <<db, wrote, builder, report, crashes, repairs, trusted>>

Unlink == \E c \in Columns :
  /\ job.kind = "releasing" /\ job.todo = NoNames /\ job.at = NoId /\ c \in job.sums
  /\ db' = [db EXCEPT !.pyramid[c] = NoId]
  /\ job' = [job EXCEPT !.todo[db.pyramid[c]] = 1, !.sums = @ \ {c}]
  /\ UNCHANGED <<wrote, builder, crashes, repairs, trusted>>
  /\ Touch

ReleaseOne == \E i \in Ids :
  /\ job.kind = "releasing" /\ job.at = NoId /\ job.todo[i] > 0
  /\ db' = IF i \in Live(db) THEN Raise(db, i, -1) ELSE db
  /\ job' = [job EXCEPT !.at = i, !.todo[i] = @ - 1]
  /\ UNCHANGED <<wrote, builder, crashes, repairs, trusted>>
  /\ Touch

\* DELETE ... WHERE refcount <= 0: an error of the foreign keys ends the job.
ReleaseTwo ==
  /\ job.kind = "releasing" /\ job.at # NoId
  /\ LET i == job.at
         gone == i \in Live(db) /\ db.blob[i].refs <= 0
     IN IF gone /\ ~Deletable(db, i)
        THEN db' = db /\ job' = Idle
        ELSE /\ db' = IF gone THEN Drop(db, i) ELSE db
             /\ job' = [job EXCEPT !.at = NoId]
  /\ UNCHANGED <<wrote, builder, crashes, repairs, trusted>>
  /\ Touch

JobDone ==
  /\ job.kind = "releasing" /\ job.todo = NoNames /\ job.at = NoId /\ job.sums = {}
  /\ job' = Idle
  /\ UNCHANGED <<db, wrote, builder, report, crashes, repairs, trusted>>

----------------------------------------------------------------------------
\* build: the address and an existing pyramid in one read, each chunk in another, the
\* pyramid filed in one transaction.
BeginBuild(b, i) ==
  /\ builder[b] = Idle /\ i \in Live(Committed) /\ Committed.blob[i].sum \in Columns
  /\ Committed.pyramid[Committed.blob[i].sum] = NoId
  /\ builder' = [builder EXCEPT ![b] = [kind |-> "building", id |-> i,
                   column |-> Committed.blob[i].sum, read |-> <<>>]]
  /\ UNCHANGED <<db, job, wrote, report, crashes, repairs, trusted>>

\* A read of what has gone, or is no column any more, or too short, ends the build.
ReadChunk(b) ==
  /\ builder[b] # Idle /\ Len(builder[b].read) < Chunks[builder[b].column]
  /\ LET found == Committed.blob[builder[b].id].sum
         read == builder[b].read
     IN builder' = [builder EXCEPT ![b] =
          IF found \in Columns /\ Len(read) < Chunks[found]
          THEN [builder[b] EXCEPT !.read = Append(read, found)] ELSE Idle]
  /\ UNCHANGED <<db, job, wrote, report, crashes, repairs, trusted>>

Link(d, c, i) ==
  IF d.pyramid[c] = NoId THEN [d EXCEPT !.pyramid[c] = i]
  ELSE LET r == Raise(d, i, -1)
       IN IF r.blob[i].refs <= 0 THEN Drop(r, i) ELSE r

\* A foreign key keeps a blob that is named: the transaction is undone.
Refused(d, c, i) == d.pyramid[c] # NoId /\ d.blob[i].refs <= 1 /\ ~Deletable(d, i)

FilePyramid(b) ==
  /\ Free /\ builder[b] # Idle /\ Len(builder[b].read) = Chunks[builder[b].column]
  /\ Rowid(db) \in Ids
  /\ LET c == builder[b].column
         bytes == builder[b].read
         d == Finish([db EXCEPT !.blob[Rowid(db)] = [sum |-> PendingSum, refs |-> 0]],
                     Rowid(db), bytes)
         i == CHOOSE e \in IdOf(d, bytes) : TRUE
     IN db' = IF Refused(d, c, i) THEN db ELSE Link(d, c, i)
  /\ builder' = [builder EXCEPT ![b] = Idle]
  /\ UNCHANGED <<job, wrote, crashes, repairs, trusted>>
  /\ Touch

\* The BuildControl's flag, looked at between chunks.
CancelBuild(b) ==
  /\ builder[b] # Idle /\ builder' = [builder EXCEPT ![b] = Idle]
  /\ UNCHANGED <<db, job, wrote, report, crashes, repairs, trusted>>

----------------------------------------------------------------------------
\* verify: a read for each table that names blobs, then the blobs themselves.
VerifyRows ==
  /\ report.kind # "verifying" /\ repairs < MaxRepairs
  /\ report' = [kind |-> "verifying", at |-> "pyramids", stale |-> FALSE,
        found |-> [i \in Ids |-> Cardinality({r \in Rows : Committed.row[r] = i})],
        wrong |-> {}, loose |-> {}]
  /\ UNCHANGED <<db, job, wrote, builder, crashes, repairs, trusted>>
VerifyPyramids ==
  /\ report.kind = "verifying" /\ report.at = "pyramids"
  /\ report' = [report EXCEPT !.at = "blobs", !.found = [i \in Ids |->
        @[i] + Cardinality({c \in Columns : Committed.pyramid[c] = i})]]
  /\ UNCHANGED <<db, job, wrote, builder, crashes, repairs, trusted>>
SlipWrong(d, found) == {}
Wrong(d, found) == {i \in Live(d) : d.blob[i].sum # PendingSum /\ found[i] # 0
                                    /\ found[i] # d.blob[i].refs}
Loose(d, found) == {i \in Live(d) : d.blob[i].sum = PendingSum \/ found[i] = 0}
VerifyBlobs ==
  /\ report.kind = "verifying" /\ report.at = "blobs"
  /\ report' = [report EXCEPT !.kind = "verified", !.at = "end",
                  !.wrong = Wrong(Committed, report.found),
                  !.loose = Loose(Committed, report.found)]
  /\ UNCHANGED <<db, job, wrote, builder, crashes, repairs, trusted>>

\* repair_references: one statement for each count, then one for each blob to delete.
BeginRepair ==
  /\ Free /\ report.kind = "verified" /\ repairs < MaxRepairs
  /\ job' = [kind |-> "repairing", wrong |-> report.wrong, loose |-> report.loose,
             found |-> report.found]
  /\ trusted' = (trusted /\ ~report.stale)
  /\ report' = Idle /\ repairs' = repairs + 1
  /\ UNCHANGED <<db, wrote, builder, crashes>>
RepairCount ==
  /\ job.kind = "repairing"
  /\ \E i \in job.wrong :
       /\ db' = IF i \in Live(db) THEN [db EXCEPT !.blob[i].refs = job.found[i]] ELSE db
       /\ job' = [job EXCEPT !.wrong = @ \ {i}]
  /\ UNCHANGED <<wrote, builder, crashes, repairs, trusted>>
  /\ Touch
RepairBlob ==
  /\ job.kind = "repairing" /\ job.wrong = {}
  /\ \E i \in job.loose :
       IF i \in Live(db) /\ ~Deletable(db, i)
       THEN db' = db /\ job' = Idle
       ELSE /\ db' = Drop(db, i)
            /\ job' = [job EXCEPT !.loose = @ \ {i}]
  /\ UNCHANGED <<wrote, builder, crashes, repairs, trusted>>
  /\ Touch
RepairDone ==
  /\ job.kind = "repairing" /\ job.wrong = {} /\ job.loose = {}
  /\ job' = Idle
  /\ UNCHANGED <<db, wrote, builder, report, crashes, repairs, trusted>>

\* The process is killed: an open transaction is undone, a job in the open stays half done.
Crash ==
  /\ crashes < MaxCrashes /\ crashes' = crashes + 1
  /\ db' = Committed
  /\ wrote' = IF InTransaction THEN job.before ELSE wrote
  /\ job' = Idle /\ report' = Idle /\ builder' = [b \in Builders |-> Idle]
  /\ UNCHANGED <<repairs, trusted>>

Store == (\E o \in Owners : BeginStore(o)) \/ BeginColumn \/ EndColumn \/ Commit \/ Rollback
Remove == (\E o \in Owners : DeleteOwner(o)) \/ ReleaseOne \/ ReleaseTwo \/ JobDone
Build == \E b \in Builders : (\E i \in Ids : BeginBuild(b, i)) \/ ReadChunk(b)
                             \/ FilePyramid(b) \/ CancelBuild(b)
Maintain == ClearPyramids \/ Unlink
Verify == VerifyRows \/ VerifyPyramids \/ VerifyBlobs
Repair == BeginRepair \/ RepairCount \/ RepairBlob \/ RepairDone
BlobsNext == Store \/ Remove \/ Build \/ Maintain \/ Verify \/ Repair \/ Crash
BlobsSpec == BlobsInit /\ [][BlobsNext]_blobVars
\* What the application itself does: it stores, deletes runs and builds pyramids.
ApplicationSpec == BlobsInit /\ [][Store \/ Remove \/ Build]_blobVars

----------------------------------------------------------------------------
\* Types, and what readers never see: a pending row, two rows with one address.
BlobsTypeOK ==
  /\ db \in [blob : [Ids -> [sum : Columns \cup Reductions \cup {PendingSum, NoSum}, refs : Int]],
             row : [Rows -> Ids \cup {NoId}], pyramid : [Columns -> Ids \cup {NoId}]]
  /\ crashes \in 0 .. MaxCrashes /\ trusted \in BOOLEAN
  /\ \A i \in Live(Committed) :
       /\ Committed.blob[i].sum # PendingSum
       /\ IdOf(Committed, Committed.blob[i].sum) = {i}

\* Whatever is deleted, repaired from an old report or cut short, and although ids are handed
\* out again, the blob a row names is the one the row was written with.
RowsReadBack ==
  \A r \in Rows : db.row[r] # NoId => db.blob[db.row[r]].sum = wrote[r]

\* A count is never below the rows that name the blob, unless an old report was applied: a
\* release by one owner never takes a column away from another.
CountsCover == trusted => \A i \in Live(Committed) : Committed.blob[i].refs >= Named(Committed, i)

\* With no job under way and no crash behind it, no blob is left that nothing names and
\* every count is the number of rows that name the blob.
NothingLeaks ==
  (Free /\ crashes = 0 /\ trusted) =>
     \A i \in Live(db) : db.blob[i].refs = Named(db, i) /\ db.blob[i].refs > 0

\* The blob a row names is the one it was written with and is counted at least as often as
\* it is named, and what nothing names is gone (blob.rs, pyramid.rs, library.rs).
BlobsAreKept == BlobsTypeOK /\ RowsReadBack /\ CountsCover /\ NothingLeaks

\* verify followed by repair_references, with nothing written between the first read of the
\* one and the start of the other, leaves exact counts, whatever a crash left behind.
Heals ==
  (job.kind = "repairing" /\ job' = Idle /\ trusted /\ crashes' = crashes) =>
    \A i \in Live(db') : db'.blob[i].refs = Named(db', i) /\ db'.blob[i].refs > 0
RepairHeals == [][Heals]_blobVars

============================================================================
