---------------------------- MODULE LibraryFile ----------------------------
(***************************************************************************)
(* A library file and the processes that open it (crates/sp-store/src/     *)
(* db.rs): the application and the command line may have the same file     *)
(* open.  Opening reads the version and applies the migrations that are    *)
(* missing, each in a transaction of its own with foreign keys off, then   *)
(* checks the references.  An open library runs its callers' jobs on one   *)
(* writer thread; a job writes two rows, in one transaction or in none,    *)
(* and may panic anywhere.                                                 *)
(***************************************************************************)
EXTENDS Integers, Sequences, FiniteSets, TLAPS

CONSTANTS Processes,
          Callings,             \* <<process, thread>>: the threads that call Store::write
          SchemaVersion,        \* SCHEMA_VERSION
          Versions,             \* versions the file may have to begin with
          MaxJobs, MaxCrashes   \* bounds: jobs a caller sends, processes killed

\* A version is a number, and a calling is a process and one of its threads.
FileAssumption ==
  /\ SchemaVersion \in Nat /\ Versions \subseteq Nat
  /\ \A x \in Callings : x = <<x[1], x[2]>> /\ x[1] \in Processes

Kinds == {"transaction", "statements"}
Callers(p) == {x[2] : x \in {y \in Callings : y[1] = p}}
Rows == {"first", "second"}

VARIABLES
  version,    \* app_meta.schema_version
  schema,     \* the migrations whose statements took effect, each as often as it did
  dangling,   \* a row points at a missing parent
  rows,       \* rows written by the jobs, committed
  phase, seen,         \* of each process: where Store::open is, the version it read
  queue, writer, undo, \* its job channel, the job its thread runs, the rows to go back to
  caller,              \* what each caller sent and got
  crashes
fileVars == <<version, schema, dangling, rows>>
processVars == <<phase, seen, queue, writer, undo>>
libVars == <<version, schema, dangling, rows, phase, seen, queue, writer, undo, caller, crashes>>

Waiting == "waiting"
Nothing == [caller |-> 0, kind |-> "none", wrote |-> {}]
NoCall == [sent |-> 0, answer |-> "none", kind |-> "transaction"]
Put(f, p, v) == [f EXCEPT ![p] = v]

LibInit ==
  /\ version \in Versions /\ schema = [v \in 1 .. SchemaVersion |-> IF v <= version THEN 1 ELSE 0]
  /\ dangling \in BOOLEAN /\ (dangling => version < SchemaVersion)
  /\ rows = {} /\ crashes = 0
  /\ phase = [p \in Processes |-> "closed"] /\ seen = [p \in Processes |-> 0]
  /\ queue = [p \in Processes |-> <<>>] /\ writer = [p \in Processes |-> Nothing]
  /\ undo = [p \in Processes |-> {}] /\ caller = [c \in Callings |-> NoCall]

Unlocked(p) == \A q \in Processes \ {p} : writer[q].kind # "transaction"

----------------------------------------------------------------------------
Opened(v) == CASE v > SchemaVersion -> "refused"
               [] v = SchemaVersion -> "open"
               [] OTHER -> "migrating"
Open(p) ==
  /\ phase[p] = "closed"
  /\ seen' = Put(seen, p, version)
  /\ phase' = Put(phase, p, Opened(version))
  /\ UNCHANGED <<fileVars, queue, writer, undo, caller, crashes>>

Apply(p, v) == /\ schema' = [schema EXCEPT ![v] = @ + 1]
               /\ version' = v /\ phase' = phase
Migrate(p) ==
  /\ phase[p] = "migrating" /\ seen[p] < SchemaVersion /\ Unlocked(p)
  /\ LET v == seen[p] + 1
     IN IF schema[v] = 0
        THEN Apply(p, v) /\ seen' = Put(seen, p, v)
        ELSE phase' = Put(phase, p, "closed") /\ UNCHANGED <<version, schema, seen>>
  /\ UNCHANGED <<dangling, rows, queue, writer, undo, caller, crashes>>

\* check_foreign_keys, once the last transaction is committed.
CheckReferences(p) ==
  /\ phase[p] = "migrating" /\ seen[p] = SchemaVersion
  /\ phase' = Put(phase, p, IF dangling THEN "closed" ELSE "open")
  /\ UNCHANGED <<fileVars, seen, queue, writer, undo, caller, crashes>>

----------------------------------------------------------------------------
\* Store::write: into the channel, then waiting for the answer.
Write(p, c) == \E k \in Kinds :
  /\ phase[p] = "open" /\ caller[<<p, c>>].answer # Waiting
  /\ caller[<<p, c>>].sent < MaxJobs
  /\ caller' = Put(caller, <<p, c>>,
                   [sent |-> caller[<<p, c>>].sent + 1, answer |-> Waiting, kind |-> k])
  /\ queue' = [queue EXCEPT ![p] = Append(@, c)]
  /\ UNCHANGED <<fileVars, phase, seen, writer, undo, crashes>>

\* The thread takes a job when the file is not locked; a transaction locks it.
TakeJob(p) ==
  /\ writer[p] = Nothing /\ queue[p] # <<>> /\ Unlocked(p)
  /\ LET c == Head(queue[p])
     IN writer' = Put(writer, p, [caller |-> c, kind |-> caller[<<p, c>>].kind, wrote |-> {}])
  /\ undo' = Put(undo, p, rows)
  /\ queue' = [queue EXCEPT ![p] = Tail(@)]
  /\ UNCHANGED <<fileVars, phase, seen, caller, crashes>>

RowsOf(p, c) == {<<p, c, caller[<<p, c>>].sent, r>> : r \in Rows}
Statement(p) ==
  /\ writer[p] # Nothing /\ writer[p].wrote # Rows /\ Unlocked(p)
  /\ LET r == IF writer[p].wrote = {} THEN "first" ELSE "second"
         c == writer[p].caller
     IN /\ rows' = rows \cup {<<p, c, caller[<<p, c>>].sent, r>>}
        /\ writer' = [writer EXCEPT ![p].wrote = @ \cup {r}]
  /\ UNCHANGED <<version, schema, dangling, phase, seen, queue, undo, caller, crashes>>

Answered(p, answer) ==
  /\ caller' = [caller EXCEPT ![<<p, writer[p].caller>>].answer = answer]
  /\ writer' = Put(writer, p, Nothing)
  /\ UNCHANGED <<version, schema, dangling, phase, seen, queue, undo, crashes>>
Commit(p) ==
  /\ writer[p].kind = "transaction" /\ writer[p].wrote = Rows
  /\ writer' = [writer EXCEPT ![p].kind = "committed"]
  /\ UNCHANGED <<fileVars, phase, seen, queue, undo, caller, crashes>>
JobDone(p) ==
  /\ writer[p].kind \in {"statements", "committed"} /\ writer[p].wrote = Rows
  /\ Answered(p, "ok") /\ UNCHANGED rows

\* A panic, or an error, unwinds through the transaction, which rolls back as it is dropped.
SlipUndone(p) == rows
Undone(p) == IF writer[p].kind = "transaction" THEN undo[p] ELSE rows
JobPanics(p) ==
  /\ writer[p] # Nothing /\ rows' = Undone(p) /\ Answered(p, "panicked")

\* The last handle goes: nobody waits, and the thread has run what was queued.
Close(p) ==
  /\ phase[p] = "open" /\ writer[p] = Nothing /\ queue[p] = <<>>
  /\ \A c \in Callers(p) : caller[<<p, c>>].answer # Waiting
  /\ phase' = Put(phase, p, "closed")
  /\ UNCHANGED <<fileVars, seen, queue, writer, undo, caller, crashes>>

Kill(p) ==
  /\ crashes < MaxCrashes /\ crashes' = crashes + 1 /\ phase[p] # "closed"
  /\ rows' = IF writer[p] # Nothing THEN Undone(p) ELSE rows
  /\ phase' = Put(phase, p, "closed") /\ queue' = Put(queue, p, <<>>)
  /\ writer' = Put(writer, p, Nothing)
  /\ caller' = [x \in Callings |-> IF x[1] = p /\ caller[x].answer = Waiting
                                   THEN [caller[x] EXCEPT !.answer = "killed"] ELSE caller[x]]
  /\ UNCHANGED <<version, schema, dangling, seen, undo>>

LibNext == \E p \in Processes :
  \/ Open(p) \/ Migrate(p) \/ CheckReferences(p)
  \/ (\E c \in Callers(p) : Write(p, c)) \/ TakeJob(p) \/ Statement(p)
  \/ Commit(p) \/ JobDone(p) \/ JobPanics(p) \/ Close(p) \/ Kill(p)
LibSpec == LibInit /\ [][LibNext]_libVars

----------------------------------------------------------------------------
\* Types; a transaction's rows are taken back only over rows nobody else wrote meanwhile.
LibTypeOK ==
  /\ version \in Versions \cup 0 .. SchemaVersion /\ schema \in [1 .. SchemaVersion -> Nat]
  /\ phase \in [Processes -> {"closed", "migrating", "open", "refused"}]
  /\ \A p \in Processes : writer[p] # Nothing => undo[p] \subseteq rows

\* Although processes are killed and race to migrate, the version says exactly which
\* migrations took effect, each once.
VersionIsSchema ==
  version <= SchemaVersion =>
     \A v \in 1 .. SchemaVersion : schema[v] = IF v <= version THEN 1 ELSE 0

\* What a caller was told is what happened: all of a job that was answered, and all or
\* nothing of a transaction that panicked or was killed, whoever else was writing.
AnswersAreTrue ==
  \A x \in Callings :
     LET mine == RowsOf(x[1], x[2])
     IN /\ caller[x].answer = "ok" => mine \subseteq rows
        /\ caller[x].answer \in {"panicked", "killed"} /\ caller[x].kind = "transaction"
             => mine \subseteq rows \/ mine \cap rows = {}

\* Who waits is queued or served: nobody waits for an answer that will not be given.
Serves(p) == writer[p] # Nothing
Owed == \A p \in Processes : \A c \in Callers(p) :
  caller[<<p, c>>].answer = Waiting =>
    \/ Serves(p) /\ writer[p].caller = c
    \/ \E i \in 1 .. Len(queue[p]) : queue[p][i] = c

\* A newer file is never written (SchemaTooNew), nor is one that is still being migrated.
OnlyCurrentIsWritten ==
  \A p \in Processes : writer[p] # Nothing => version = SchemaVersion

-----------------------------------------------------------------------------
(* What is proved of a library file that several processes have open, for any    *)
(* processes, threads, versions and bounds: the version says which migrations    *)
(* took effect, only a current file is written, who waits for an answer is owed  *)
(* one, and what callers are told is true.                                       *)

\* Types: what is sent and answered, and what a writer thread runs.
Calls == [sent : Nat, answer : {"none", "waiting", "ok", "panicked", "killed"}, kind : Kinds]
Jobs(p) == [caller : Callers(p), kind : Kinds \cup {"committed"}, wrote : SUBSET Rows]
FileTypes ==
  /\ version \in Versions \cup 0 .. SchemaVersion
  /\ schema \in [1 .. SchemaVersion -> Nat]
  /\ phase \in [Processes -> {"closed", "migrating", "open", "refused"}]
  /\ seen \in [Processes -> Nat]
  /\ caller \in [Callings -> Calls]
  /\ DOMAIN queue = Processes /\ DOMAIN writer = Processes /\ DOMAIN undo = Processes
  /\ \A p \in Processes : queue[p] \in Seq(Callers(p))
  /\ \A p \in Processes : writer[p] \in Jobs(p) \cup {Nothing}

Served(p) == <<p, writer[p].caller>>
Written(x, r) == <<x[1], x[2], caller[x].sent, r>> \in rows

\* Whoever migrates has seen no more than is there, and who is open has a current file.
Phases == \A p \in Processes :
  /\ phase[p] = "migrating" => seen[p] <= version /\ version <= SchemaVersion
  /\ phase[p] = "open" => version = SchemaVersion
  /\ (Serves(p) \/ queue[p] # <<>>) => phase[p] = "open"

\* Who waits in the queue is there once and is not being served; a queued job wrote nothing.
Queued == \A p \in Processes : \A i \in 1 .. Len(queue[p]) :
  LET x == <<p, queue[p][i]>>
  IN /\ caller[x].answer = Waiting
     /\ \A j \in 1 .. Len(queue[p]) : queue[p][i] = queue[p][j] => i = j
     /\ Serves(p) => x # Served(p)
     /\ \A r \in Rows : ~Written(x, r)

\* The caller of a job waits for it, and what the job wrote is there.
Serving == \A p \in Processes : Serves(p) =>
  LET x == Served(p)
  IN /\ caller[x].answer = Waiting
     /\ writer[p].kind # caller[x].kind => writer[p].kind = "committed" /\ writer[p].wrote = Rows
     /\ \A r \in Rows : Written(x, r) <=> r \in writer[p].wrote

\* The rows a job goes back to are there still; a transaction goes back to all but its own
\* rows, and no other process is in one.
Kept == \A p \in Processes : Serves(p) =>
  /\ undo[p] \subseteq rows
  /\ writer[p].kind = "transaction" =>
       /\ undo[p] = rows \ RowsOf(p, writer[p].caller)
       /\ \A q \in Processes \ {p} :
            writer[q].kind # "transaction" /\ (Serves(q) => undo[q] \subseteq undo[p])

\* No row is of a job that was not sent.
Past == \A x \in Callings, n \in Nat, r \in Rows :
  <<x[1], x[2], n, r>> \in rows => n <= caller[x].sent

\* What each caller was told, of the rows of its last job.
Told == \A x \in Callings :
  /\ caller[x].answer = "ok" => \A r \in Rows : Written(x, r)
  /\ caller[x].answer \in {"panicked", "killed"} /\ caller[x].kind = "transaction" =>
       (\A r \in Rows : Written(x, r)) \/ (\A r \in Rows : ~Written(x, r))

\* The inductive invariant: of opening and migrating, and of the jobs.
SchemaInv == VersionIsSchema /\ Phases
JobInv == Queued /\ Owed /\ Serving /\ Kept /\ Past /\ Told
FileInv == FileTypes /\ SchemaInv /\ JobInv

\* A caller is a process and one of its threads.
LEMMA CallersArePairs ==
  ASSUME FileAssumption
  PROVE /\ \A x \in Callings : x = <<x[1], x[2]>> /\ x[1] \in Processes /\ x[2] \in Callers(x[1])
        /\ \A p \in Processes : \A c \in Callers(p) : <<p, c>> \in Callings
<1>1. ASSUME NEW x \in Callings
      PROVE x = <<x[1], x[2]>> /\ x[1] \in Processes /\ x[2] \in Callers(x[1])
  BY FileAssumption DEF FileAssumption, Callers
<1>2. ASSUME NEW p \in Processes, NEW c \in Callers(p) PROVE <<p, c>> \in Callings
  <2>1. PICK x \in Callings : x[1] = p /\ x[2] = c
    BY DEF Callers
  <2>2. x = <<x[1], x[2]>>
    BY FileAssumption DEF FileAssumption
  <2>. QED  BY <2>1, <2>2
<1>. QED  BY <1>1, <1>2

\* Rows of different callers, jobs or places are different.
LEMMA RowsDiffer ==
  ASSUME FileAssumption
  PROVE \A x, y \in Callings : \A n, m, r, s :
          <<x[1], x[2], n, r>> = <<y[1], y[2], m, s>> <=> x = y /\ n = m /\ r = s
<1>. SUFFICES ASSUME NEW x \in Callings, NEW y \in Callings, NEW n, NEW m, NEW r, NEW s
              PROVE <<x[1], x[2], n, r>> = <<y[1], y[2], m, s>> <=> x = y /\ n = m /\ r = s
  OBVIOUS
<1>1. x = <<x[1], x[2]>> /\ y = <<y[1], y[2]>>
  BY FileAssumption DEF FileAssumption
<1>2. <<x[1], x[2], n, r>> = <<y[1], y[2], m, s>>
        <=> x[1] = y[1] /\ x[2] = y[2] /\ n = m /\ r = s
  OBVIOUS
<1>3. x[1] = y[1] /\ x[2] = y[2] <=> x = y
  BY <1>1
<1>. QED  BY <1>2, <1>3

\* A job being served is of a caller of this process.
LEMMA ServedIsCalling ==
  ASSUME FileAssumption, FileTypes, NEW p \in Processes, Serves(p)
  PROVE /\ Served(p) \in Callings /\ writer[p].caller \in Callers(p)
        /\ Served(p)[1] = p /\ Served(p)[2] = writer[p].caller
        /\ writer[p] \in Jobs(p) /\ writer[p].wrote \subseteq Rows
        /\ caller[Served(p)] \in Calls
<1>1. writer[p] \in Jobs(p)
  BY DEF FileTypes, Serves
<1>2. writer[p].caller \in Callers(p) /\ writer[p].wrote \subseteq Rows
  BY <1>1 DEF Jobs
<1>3. Served(p) \in Callings
  BY <1>2, CallersArePairs DEF Served
<1>4. Served(p)[1] = p /\ Served(p)[2] = writer[p].caller
  BY DEF Served
<1>5. caller[Served(p)] \in Calls
  BY <1>3 DEF FileTypes
<1>. QED  BY <1>1, <1>2, <1>3, <1>4, <1>5

\* A step that is none of the jobs' leaves them as they are.
LEMMA JobsUntouched ==
  ASSUME JobInv, UNCHANGED <<rows, queue, writer, undo, caller>>
  PROVE JobInv'
<1>1. Queued'
  BY DEF JobInv, Queued, Written, Serves, Served
<1>2. Owed'
  BY DEF JobInv, Owed, Serves
<1>3. Serving'
  BY DEF JobInv, Serving, Serves, Served, Written
<1>4. Kept'
  BY DEF JobInv, Kept, Serves, RowsOf
<1>5. Past'
  BY DEF JobInv, Past
<1>6. Told'
  BY DEF JobInv, Told, Written
<1>. QED  BY <1>1, <1>2, <1>3, <1>4, <1>5, <1>6 DEF JobInv

-----------------------------------------------------------------------------
LEMMA OpenKeeps ==
  ASSUME FileAssumption, FileInv, NEW p \in Processes, Open(p)
  PROVE FileInv'
<1>. USE DEF FileInv
<1>1. JobInv'
  BY JobsUntouched DEF Open, fileVars
<1>2. version \in Nat /\ SchemaVersion \in Nat
  BY FileAssumption DEF FileAssumption, FileTypes
<1>3. FileTypes'
  BY <1>2 DEF Open, FileTypes, fileVars, Put, Opened, Jobs, Calls
<1>4. VersionIsSchema'
  BY DEF SchemaInv, VersionIsSchema, Open, fileVars
<1>5. Phases'
  <2>. SUFFICES ASSUME NEW q \in Processes
                PROVE /\ phase'[q] = "migrating" => seen'[q] <= version' /\ version' <= SchemaVersion
                      /\ phase'[q] = "open" => version' = SchemaVersion
                      /\ (Serves(q)' \/ queue'[q] # <<>>) => phase'[q] = "open"
    BY DEF Phases
  <2>1. version' = version /\ queue' = queue /\ writer' = writer
    BY DEF Open, fileVars
  <2>2. CASE q # p
    <3>1. phase'[q] = phase[q] /\ seen'[q] = seen[q]
      BY <2>2 DEF Open, Put, FileTypes
    <3>. QED  BY <2>1, <3>1 DEF SchemaInv, Phases, Serves
  <2>3. CASE q = p
    <3>1. phase'[p] = Opened(version) /\ seen'[p] = version
      BY DEF Open, Put, FileTypes
    <3>2. ~Serves(p) /\ queue[p] = <<>>
      BY DEF SchemaInv, Phases, Open
    <3>3. /\ Opened(version) = "migrating" => version <= SchemaVersion
          /\ Opened(version) = "open" => version = SchemaVersion
      BY <1>2 DEF Opened
    <3>. QED  BY <1>2, <2>1, <2>3, <3>1, <3>2, <3>3 DEF Serves
  <2>. QED  BY <2>2, <2>3
<1>. QED  BY <1>1, <1>3, <1>4, <1>5 DEF SchemaInv

LEMMA MigrateKeeps ==
  ASSUME FileAssumption, FileInv, NEW p \in Processes, Migrate(p)
  PROVE FileInv'
<1>. USE DEF FileInv
<1>. DEFINE v == seen[p] + 1
<1>1. JobInv'
  BY JobsUntouched DEF Migrate
<1>2. version \in Nat /\ SchemaVersion \in Nat /\ seen[p] \in Nat
  BY FileAssumption DEF FileAssumption, FileTypes
<1>3. /\ seen[p] < SchemaVersion /\ seen[p] <= version /\ version <= SchemaVersion
      /\ queue' = queue /\ writer' = writer /\ caller' = caller /\ undo' = undo
      /\ phase[p] = "migrating" /\ ~Serves(p) /\ queue[p] = <<>>
  BY DEF Migrate, SchemaInv, Phases
<1>4. v \in 1 .. SchemaVersion /\ v \in Nat /\ v = seen[p] + 1
  BY <1>2, <1>3
<1>. HIDE DEF v
<1>5. CASE schema[v] = 0
  <2>1. Apply(p, v) /\ seen' = Put(seen, p, v)
    BY <1>5 DEF Migrate, v
  <2>2. version = seen[p]
    <3>1. schema[v] = IF v <= version THEN 1 ELSE 0
      BY <1>3, <1>4 DEF SchemaInv, VersionIsSchema
    <3>. QED  BY <1>2, <1>3, <1>4, <1>5, <3>1
  <2>3. /\ version' = v /\ phase' = phase /\ v = version + 1
        /\ seen'[p] = v /\ \A q \in Processes \ {p} : seen'[q] = seen[q]
    BY <1>4, <2>1, <2>2 DEF Apply, Put, FileTypes
  <2>4. FileTypes'
    <3>1. version' \in 0 .. SchemaVersion
      BY <1>2, <1>4, <2>3
    <3>2. schema' \in [1 .. SchemaVersion -> Nat]
      BY <2>1, <1>4 DEF Apply, FileTypes
    <3>3. seen' \in [Processes -> Nat]
      BY <2>1, <1>4 DEF Put, FileTypes
    <3>. QED  BY <1>3, <2>3, <3>1, <3>2, <3>3 DEF FileTypes
  <2>5. VersionIsSchema'
    <3>. SUFFICES ASSUME NEW w \in 1 .. SchemaVersion
                  PROVE schema'[w] = IF w <= version' THEN 1 ELSE 0
      BY DEF VersionIsSchema
    <3>1. schema[w] = IF w <= version THEN 1 ELSE 0
      BY <1>3 DEF SchemaInv, VersionIsSchema
    <3>2. schema'[w] = IF w = v THEN schema[v] + 1 ELSE schema[w]
      BY <1>4, <2>1 DEF Apply, FileTypes
    <3>. QED  BY <1>2, <1>5, <2>3, <3>1, <3>2
  <2>6. Phases'
    <3>. SUFFICES ASSUME NEW q \in Processes
                  PROVE /\ phase'[q] = "migrating" => seen'[q] <= version' /\ version' <= SchemaVersion
                        /\ phase'[q] = "open" => version' = SchemaVersion
                        /\ (Serves(q)' \/ queue'[q] # <<>>) => phase'[q] = "open"
      BY DEF Phases
    <3>1. phase[q] # "open"
      BY <1>2, <1>3, <2>2 DEF SchemaInv, Phases
    <3>2. phase'[q] # "open" /\ ~Serves(q)' /\ queue'[q] = <<>>
      BY <1>3, <2>3, <3>1 DEF SchemaInv, Phases, Serves
    <3>3. phase[q] = "migrating" => seen'[q] <= v
      <4>1. seen[q] \in Nat /\ (phase[q] = "migrating" => seen[q] <= version)
        BY DEF SchemaInv, Phases, FileTypes
      <4>2. seen'[q] = IF q = p THEN v ELSE seen[q]
        BY <2>3
      <4>3. version \in Nat /\ v = version + 1
        BY <1>2, <2>3
      <4>. QED  BY <4>1, <4>2, <4>3
    <3>4. v <= SchemaVersion
      BY <1>4
    <3>. QED  BY <2>3, <3>2, <3>3, <3>4
  <2>. QED  BY <1>1, <2>4, <2>5, <2>6 DEF SchemaInv
<1>6. CASE schema[v] # 0
  <2>1. phase' = Put(phase, p, "closed") /\ UNCHANGED <<version, schema, seen>>
    BY <1>6 DEF Migrate, v
  <2>2. FileTypes'
    BY <1>3, <2>1 DEF FileTypes, Put
  <2>3. VersionIsSchema'
    BY <2>1 DEF SchemaInv, VersionIsSchema
  <2>4. \A q \in Processes : phase'[q] = IF q = p THEN "closed" ELSE phase[q]
    BY <2>1 DEF Put, FileTypes
  <2>5. Phases'
    BY <1>3, <2>1, <2>4 DEF SchemaInv, Phases, Serves
  <2>. QED  BY <1>1, <2>2, <2>3, <2>5 DEF SchemaInv
<1>. QED  BY <1>5, <1>6

LEMMA CheckReferencesKeeps ==
  ASSUME FileAssumption, FileInv, NEW p \in Processes, CheckReferences(p)
  PROVE FileInv'
<1>. USE DEF FileInv
<1>1. JobInv'
  BY JobsUntouched DEF CheckReferences, fileVars
<1>2. /\ version' = version /\ schema' = schema /\ seen' = seen
      /\ queue' = queue /\ writer' = writer /\ caller' = caller /\ undo' = undo
  BY DEF CheckReferences, fileVars
<1>3. \A q \in Processes : q # p => phase'[q] = phase[q]
  BY DEF CheckReferences, Put, FileTypes
<1>4. phase'[p] \in {"closed", "open"}
  BY DEF CheckReferences, Put, FileTypes
<1>5. ~Serves(p) /\ queue[p] = <<>> /\ version = SchemaVersion
  <2>1. /\ phase[p] = "migrating" /\ seen[p] = SchemaVersion
        /\ seen[p] <= version /\ version <= SchemaVersion
    BY DEF SchemaInv, Phases, CheckReferences
  <2>2. version \in Nat /\ SchemaVersion \in Nat
    BY FileAssumption DEF FileAssumption, FileTypes
  <2>3. ~Serves(p) /\ queue[p] = <<>>
    BY <2>1 DEF SchemaInv, Phases
  <2>. QED  BY <2>1, <2>2, <2>3
<1>6. FileTypes'
  BY <1>2 DEF FileTypes, CheckReferences, Put
<1>7. VersionIsSchema'
  BY <1>2 DEF SchemaInv, VersionIsSchema
<1>8. Phases'
  BY <1>2, <1>3, <1>4, <1>5 DEF SchemaInv, Phases, Serves
<1>. QED  BY <1>1, <1>6, <1>7, <1>8 DEF SchemaInv

LEMMA CloseKeeps ==
  ASSUME FileAssumption, FileInv, NEW p \in Processes, Close(p)
  PROVE FileInv'
<1>. USE DEF FileInv
<1>1. JobInv'
  BY JobsUntouched DEF Close, fileVars
<1>2. /\ version' = version /\ schema' = schema /\ seen' = seen
      /\ queue' = queue /\ writer' = writer /\ caller' = caller /\ undo' = undo
  BY DEF Close, fileVars
<1>3. \A q \in Processes : phase'[q] = IF q = p THEN "closed" ELSE phase[q]
  BY DEF Close, Put, FileTypes
<1>4. ~Serves(p) /\ queue[p] = <<>>
  BY DEF Close, Serves
<1>5. FileTypes'
  BY <1>2 DEF FileTypes, Close, Put
<1>6. VersionIsSchema'
  BY <1>2 DEF SchemaInv, VersionIsSchema
<1>7. Phases'
  BY <1>2, <1>3, <1>4 DEF SchemaInv, Phases, Serves
<1>. QED  BY <1>1, <1>5, <1>6, <1>7 DEF SchemaInv

-----------------------------------------------------------------------------
\* What is opened and migrated stays as it is while only jobs are done.
LEMMA SchemaUntouched ==
  ASSUME SchemaInv, UNCHANGED <<version, schema, phase, seen>>,
         \A p \in Processes : (Serves(p)' \/ queue'[p] # <<>>) => phase[p] = "open"
  PROVE SchemaInv'
BY DEF SchemaInv, VersionIsSchema, Phases

LEMMA WriteKeeps ==
  ASSUME FileAssumption, FileInv, NEW p \in Processes, NEW c \in Callers(p), Write(p, c)
  PROVE FileInv'
<1>. USE DEF FileInv
<1>. DEFINE x == <<p, c>>
<1>1. x \in Callings /\ x[1] = p /\ x[2] = c
  BY CallersArePairs
<1>2. PICK k \in Kinds :
        /\ phase[p] = "open" /\ caller[x].answer # Waiting
        /\ caller' = [caller EXCEPT ![x] =
                        [sent |-> caller[x].sent + 1, answer |-> Waiting, kind |-> k]]
        /\ queue' = [queue EXCEPT ![p] = Append(@, c)]
        /\ UNCHANGED <<version, schema, dangling, rows, phase, seen, writer, undo>>
  BY DEF Write, fileVars, Put
<1>3. caller[x] \in Calls
  BY <1>1 DEF FileTypes
<1>4. /\ caller'[x] \in Calls
      /\ caller'[x].sent = caller[x].sent + 1
      /\ caller'[x].answer = Waiting /\ caller'[x].kind = k
  <2>1. caller'[x] = [sent |-> caller[x].sent + 1, answer |-> Waiting, kind |-> k]
    BY <1>1, <1>2 DEF FileTypes
  <2>2. caller[x].sent + 1 \in Nat
    BY <1>3 DEF Calls
  <2>. QED  BY <2>1, <2>2 DEF Calls, Waiting
<1>5. \A y \in Callings : y # x => caller'[y] = caller[y]
  BY <1>2 DEF FileTypes
<1>6. /\ queue'[p] = Append(queue[p], c) /\ queue[p] \in Seq(Callers(p))
      /\ \A q \in Processes : q # p => queue'[q] = queue[q]
  BY <1>2 DEF FileTypes
<1>7. /\ queue'[p] \in Seq(Callers(p)) /\ queue'[p] # <<>>
      /\ Len(queue[p]) \in Nat /\ Len(queue'[p]) = Len(queue[p]) + 1
      /\ queue'[p][Len(queue[p]) + 1] = c
      /\ \A i \in 1 .. Len(queue[p]) : queue'[p][i] = queue[p][i] /\ queue[p][i] \in Callers(p)
  BY <1>6
<1>8. \A i \in 1 .. Len(queue[p]) : queue[p][i] # c
  BY <1>2 DEF JobInv, Queued
<1>9. Serves(p) => writer[p].caller # c
  BY <1>2 DEF JobInv, Serving, Served
<1>10. \A y \in Callings, r \in Rows : Written(y, r)' <=> Written(y, r) /\ y # x
  <2>. SUFFICES ASSUME NEW y \in Callings, NEW r \in Rows
                PROVE Written(y, r)' <=> Written(y, r) /\ y # x
    OBVIOUS
  <2>1. CASE y # x
    BY <1>2, <1>5, <2>1 DEF Written
  <2>2. CASE y = x
    <3>1. caller[x].sent \in Nat
      BY <1>3 DEF Calls
    <3>2. ~(caller[x].sent + 1 <= caller[x].sent) /\ caller[x].sent + 1 \in Nat
      BY <3>1
    <3>3. <<x[1], x[2], caller[x].sent + 1, r>> \notin rows
      BY <1>1, <3>2 DEF JobInv, Past
    <3>. QED  BY <1>2, <1>4, <2>2, <3>3 DEF Written
  <2>. QED  BY <2>1, <2>2
<1>. HIDE DEF x
<1>11. FileTypes'
  <2>1. caller' \in [Callings -> Calls]
    BY <1>1, <1>2, <1>4, <1>5 DEF FileTypes
  <2>2. DOMAIN queue' = Processes /\ \A q \in Processes : queue'[q] \in Seq(Callers(q))
    BY <1>2, <1>6, <1>7 DEF FileTypes
  <2>. QED  BY <1>2, <2>1, <2>2 DEF FileTypes, Jobs
<1>12. SchemaInv'
  <2>1. \A q \in Processes : (Serves(q)' \/ queue'[q] # <<>>) => phase[q] = "open"
    BY <1>2, <1>6 DEF SchemaInv, Phases, Serves
  <2>. QED  BY <1>2, <2>1, SchemaUntouched
<1>13. \A q \in Processes : \A d : q # p => <<q, d>> # x
  BY DEF x
<1>14. \A q \in Processes : \A i \in 1 .. Len(queue[q]) : <<q, queue[q][i]>> \in Callings
  <2>1. \A q \in Processes : queue[q] \in Seq(Callers(q))
    BY DEF FileTypes
  <2>. QED  BY <2>1, CallersArePairs
<1>15. Queued'
  <2>. SUFFICES ASSUME NEW q \in Processes, NEW i \in 1 .. Len(queue'[q]), NEW d, queue'[q][i] = d
                PROVE /\ caller'[<<q, d>>].answer = Waiting
                      /\ \A j \in 1 .. Len(queue'[q]) : d = queue'[q][j] => i = j
                      /\ Serves(q)' => <<q, d>> # Served(q)'
                      /\ \A r \in Rows : ~Written(<<q, d>>, r)'
    BY DEF Queued, Written
  <2>1. (Serves(q)' <=> Serves(q)) /\ Served(q)' = Served(q)
    BY <1>2 DEF Serves, Served
  <2>2. ASSUME i \in 1 .. Len(queue[q]), queue[q][i] = d, <<q, d>> # x
        PROVE /\ caller'[<<q, d>>].answer = Waiting
              /\ Serves(q)' => <<q, d>> # Served(q)'
              /\ \A r \in Rows : ~Written(<<q, d>>, r)'
    <3>1. <<q, d>> \in Callings
      BY <1>14, <2>2
    <3>2. /\ caller[<<q, d>>].answer = Waiting
          /\ Serves(q) => <<q, d>> # Served(q)
          /\ \A r \in Rows : ~Written(<<q, d>>, r)
      BY <2>2 DEF JobInv, Queued
    <3>3. caller'[<<q, d>>] = caller[<<q, d>>]
      BY <1>5, <2>2, <3>1
    <3>4. \A r \in Rows : ~Written(<<q, d>>, r)'
      BY <1>10, <3>1, <3>2
    <3>. QED  BY <2>1, <3>2, <3>3, <3>4
  <2>3. CASE q # p
    <3>1. queue'[q] = queue[q] /\ <<q, d>> # x
      BY <1>6, <1>13, <2>3
    <3>2. \A j \in 1 .. Len(queue'[q]) : d = queue'[q][j] => i = j
      BY <3>1 DEF JobInv, Queued
    <3>. QED  BY <2>2, <3>1, <3>2
  <2>4. CASE q = p /\ i \in 1 .. Len(queue[p])
    <3>1. queue[p][i] = d /\ d # c
      BY <1>7, <1>8, <2>4
    <3>2. <<q, d>> # x
      BY <3>1 DEF x
    <3>3. ASSUME NEW j \in 1 .. Len(queue'[p]), d = queue'[p][j] PROVE i = j
      <4>1. j \in 1 .. Len(queue[p]) \/ j = Len(queue[p]) + 1
        BY <1>7
      <4>2. j \in 1 .. Len(queue[p]) /\ queue[p][j] = d
        BY <1>7, <3>1, <3>3, <4>1
      <4>. QED  BY <2>4, <3>1, <4>2 DEF JobInv, Queued
    <3>. QED  BY <2>2, <2>4, <3>1, <3>2, <3>3
  <2>5. CASE q = p /\ i \notin 1 .. Len(queue[p])
    <3>1. i = Len(queue[p]) + 1 /\ d = c /\ <<q, d>> = x
      <4>1. i = Len(queue[p]) + 1
        BY <1>7, <2>5
      <4>. QED  BY <1>7, <2>5, <4>1 DEF x
    <3>2. ASSUME NEW j \in 1 .. Len(queue'[p]), d = queue'[p][j] PROVE i = j
      <4>1. j \in 1 .. Len(queue[p]) \/ j = Len(queue[p]) + 1
        BY <1>7
      <4>. QED  BY <1>7, <1>8, <3>1, <3>2, <4>1
    <3>3. \A r \in Rows : ~Written(<<q, d>>, r)'
      BY <1>1, <1>10, <3>1
    <3>4. Serves(q)' => <<q, d>> # Served(q)'
      BY <1>9, <2>1, <2>5, <3>1 DEF Served
    <3>. QED  BY <1>4, <2>5, <3>1, <3>2, <3>3, <3>4
  <2>. QED  BY <2>3, <2>4, <2>5
<1>16. Owed'
  <2>. SUFFICES ASSUME NEW q \in Processes, NEW d \in Callers(q), caller'[<<q, d>>].answer = Waiting
                PROVE \/ Serves(q)' /\ writer'[q].caller = d
                      \/ \E i \in 1 .. Len(queue'[q]) : queue'[q][i] = d
    BY DEF Owed
  <2>1. CASE <<q, d>> = x
    <3>1. q = p /\ d = c
      BY <2>1 DEF x
    <3>2. Len(queue[p]) + 1 \in 1 .. Len(queue'[p])
      BY <1>7
    <3>. QED  BY <1>7, <3>1, <3>2
  <2>2. CASE <<q, d>> # x
    <3>1. caller[<<q, d>>].answer = Waiting
      BY <1>5, <2>2, CallersArePairs
    <3>2. \/ Serves(q) /\ writer[q].caller = d
          \/ \E i \in 1 .. Len(queue[q]) : queue[q][i] = d
      BY <3>1 DEF JobInv, Owed
    <3>3. \A i \in 1 .. Len(queue[q]) : i \in 1 .. Len(queue'[q]) /\ queue'[q][i] = queue[q][i]
      <4>1. CASE q = p
        BY <1>7, <4>1
      <4>2. CASE q # p
        BY <1>6, <4>2
      <4>. QED  BY <4>1, <4>2
    <3>. QED  BY <1>2, <3>2, <3>3 DEF Serves
  <2>. QED  BY <2>1, <2>2
<1>17. Serving'
  <2>. SUFFICES ASSUME NEW q \in Processes, Serves(q)', NEW y, Served(q)' = y
                PROVE /\ caller'[y].answer = Waiting
                      /\ writer'[q].kind # caller'[y].kind =>
                           writer'[q].kind = "committed" /\ writer'[q].wrote = Rows
                      /\ \A r \in Rows : Written(y, r)' <=> r \in writer'[q].wrote
    BY DEF Serving, Written
  <2>1. Serves(q) /\ Served(q) = y /\ writer'[q] = writer[q]
    BY <1>2 DEF Serves, Served
  <2>2. y \in Callings /\ y # x
    <3>1. y \in Callings
      BY <2>1, ServedIsCalling
    <3>2. caller[y].answer = Waiting
      BY <2>1 DEF JobInv, Serving
    <3>. QED  BY <1>2, <3>1, <3>2 DEF x
  <2>3. /\ caller[y].answer = Waiting
        /\ writer[q].kind # caller[y].kind =>
             writer[q].kind = "committed" /\ writer[q].wrote = Rows
        /\ \A r \in Rows : Written(y, r) <=> r \in writer[q].wrote
    BY <2>1 DEF JobInv, Serving
  <2>. QED  BY <1>5, <1>10, <2>1, <2>2, <2>3
<1>18. Kept'
  <2>. SUFFICES ASSUME NEW q \in Processes, Serves(q)
                PROVE /\ undo[q] \subseteq rows
                      /\ writer[q].kind = "transaction" =>
                           /\ undo[q] = rows \ RowsOf(q, writer[q].caller)'
                           /\ \A o \in Processes \ {q} :
                                writer[o].kind # "transaction" /\ (Serves(o) => undo[o] \subseteq undo[q])
    BY <1>2 DEF Kept, Serves, RowsOf
  <2>1. Served(q) \in Callings /\ Served(q) # x
    <3>1. Served(q) \in Callings
      BY ServedIsCalling
    <3>2. caller[Served(q)].answer = Waiting
      BY DEF JobInv, Serving
    <3>. QED  BY <1>2, <3>1, <3>2 DEF x
  <2>2. RowsOf(q, writer[q].caller)' = RowsOf(q, writer[q].caller)
    BY <1>2, <1>5, <2>1 DEF RowsOf, Served
  <2>. QED  BY <2>2 DEF JobInv, Kept
<1>19. Past'
  <2>. SUFFICES ASSUME NEW y \in Callings, NEW n \in Nat, NEW r \in Rows,
                       <<y[1], y[2], n, r>> \in rows
                PROVE n <= caller'[y].sent
    BY <1>2 DEF Past
  <2>1. n <= caller[y].sent /\ caller[y].sent \in Nat
    BY DEF JobInv, Past, FileTypes, Calls
  <2>. QED  BY <1>4, <1>5, <2>1
<1>20. Told'
  <2>. SUFFICES ASSUME NEW y \in Callings
                PROVE /\ caller'[y].answer = "ok" => \A r \in Rows : Written(y, r)'
                      /\ caller'[y].answer \in {"panicked", "killed"} /\ caller'[y].kind = "transaction" =>
                           (\A r \in Rows : Written(y, r)') \/ (\A r \in Rows : ~Written(y, r)')
    BY DEF Told
  <2>1. CASE y = x
    BY <1>4, <2>1 DEF Waiting
  <2>2. CASE y # x
    BY <1>5, <1>10, <2>2 DEF JobInv, Told
  <2>. QED  BY <2>1, <2>2
<1>. QED  BY <1>11, <1>12, <1>15, <1>16, <1>17, <1>18, <1>19, <1>20 DEF JobInv

-----------------------------------------------------------------------------
LEMMA QueuedAreCallings ==
  ASSUME FileAssumption, FileTypes
  PROVE \A q \in Processes : /\ queue[q] \in Seq(Callers(q)) /\ Len(queue[q]) \in Nat
                             /\ \A i \in 1 .. Len(queue[q]) : <<q, queue[q][i]>> \in Callings
<1>1. \A q \in Processes : queue[q] \in Seq(Callers(q))
  BY DEF FileTypes
<1>. QED  BY <1>1, CallersArePairs

LEMMA TakeJobKeeps ==
  ASSUME FileAssumption, FileInv, NEW p \in Processes, TakeJob(p)
  PROVE FileInv'
<1>. USE DEF FileInv
<1>. DEFINE c == Head(queue[p])
            x == <<p, c>>
            job == [caller |-> c, kind |-> caller[x].kind, wrote |-> {}]
<1>1. /\ ~Serves(p) /\ queue[p] # <<>> /\ Unlocked(p)
      /\ writer' = [writer EXCEPT ![p] = job]
      /\ undo' = [undo EXCEPT ![p] = rows]
      /\ queue' = [queue EXCEPT ![p] = Tail(queue[p])]
      /\ UNCHANGED <<version, schema, dangling, rows, phase, seen, caller>>
  BY DEF TakeJob, Serves, Put, fileVars
<1>2. /\ writer'[p] = job /\ undo'[p] = rows /\ queue'[p] = Tail(queue[p])
      /\ \A q \in Processes : q # p =>
           writer'[q] = writer[q] /\ undo'[q] = undo[q] /\ queue'[q] = queue[q]
  BY <1>1 DEF FileTypes
<1>3. /\ queue[p] \in Seq(Callers(p)) /\ Len(queue[p]) \in Nat /\ Len(queue[p]) >= 1
      /\ queue'[p] \in Seq(Callers(p)) /\ Len(queue'[p]) = Len(queue[p]) - 1
      /\ \A i \in 1 .. Len(queue'[p]) : i + 1 \in 1 .. Len(queue[p]) /\ queue'[p][i] = queue[p][i + 1]
      /\ c = queue[p][1] /\ c \in Callers(p) /\ 1 \in 1 .. Len(queue[p])
  <2>1. queue[p] \in Seq(Callers(p)) /\ queue[p] # <<>>
    BY <1>1 DEF FileTypes
  <2>. QED  BY <1>2, <2>1
<1>4. x \in Callings /\ caller[x] \in Calls
  BY <1>3, CallersArePairs DEF FileTypes
<1>. HIDE DEF c
<1>5. caller[x].kind \in Kinds /\ job \in Jobs(p) /\ job # Nothing
  BY <1>3, <1>4 DEF Calls, Jobs, Kinds, Nothing
<1>6. /\ job.caller = c /\ job.kind = caller[x].kind /\ job.wrote = {}
      /\ caller[x].answer = Waiting /\ \A r \in Rows : ~Written(x, r)
  BY <1>3 DEF JobInv, Queued
<1>. HIDE DEF job
<1>7. \A y, r : Written(y, r)' <=> Written(y, r)
  BY <1>1 DEF Written
<1>8. /\ Serves(p)' /\ Served(p)' = x
      /\ \A q \in Processes : q # p => (Serves(q)' <=> Serves(q)) /\ Served(q)' = Served(q)
  BY <1>2, <1>5, <1>6 DEF Serves, Served
<1>9. FileTypes'
  <2>1. \A q \in Processes : writer'[q] \in Jobs(q) \cup {Nothing}
    BY <1>2, <1>5 DEF FileTypes
  <2>2. \A q \in Processes : queue'[q] \in Seq(Callers(q))
    BY <1>2, <1>3 DEF FileTypes
  <2>3. DOMAIN queue' = Processes /\ DOMAIN writer' = Processes /\ DOMAIN undo' = Processes
    BY <1>1 DEF FileTypes
  <2>. QED  BY <1>1, <2>1, <2>2, <2>3 DEF FileTypes, Jobs
<1>10. SchemaInv'
  <2>1. \A q \in Processes : (Serves(q)' \/ queue'[q] # <<>>) => phase[q] = "open"
    BY <1>1, <1>2, <1>8 DEF SchemaInv, Phases
  <2>. QED  BY <1>1, <2>1, SchemaUntouched
<1>11. Queued'
  <2>. SUFFICES ASSUME NEW q \in Processes, NEW i \in 1 .. Len(queue'[q]), NEW d, queue'[q][i] = d
                PROVE /\ caller'[<<q, d>>].answer = Waiting
                      /\ \A j \in 1 .. Len(queue'[q]) : d = queue'[q][j] => i = j
                      /\ Serves(q)' => <<q, d>> # Served(q)'
                      /\ \A r \in Rows : ~Written(<<q, d>>, r)'
    BY DEF Queued, Written
  <2>1. CASE q # p
    BY <1>1, <1>2, <1>7, <1>8, <2>1 DEF JobInv, Queued
  <2>2. CASE q = p
    <3>1. i + 1 \in 1 .. Len(queue[p]) /\ queue[p][i + 1] = d /\ i \in Nat /\ i # 0
      BY <1>3, <2>2
    <3>2. /\ caller[<<p, d>>].answer = Waiting
          /\ \A r \in Rows : ~Written(<<p, d>>, r)
          /\ \A j \in 1 .. Len(queue[p]) : d = queue[p][j] => i + 1 = j
      BY <3>1 DEF JobInv, Queued
    <3>3. d # c
      BY <1>3, <3>1, <3>2
    <3>4. ASSUME NEW j \in 1 .. Len(queue'[p]), d = queue'[p][j] PROVE i = j
      <4>1. j + 1 \in 1 .. Len(queue[p]) /\ d = queue[p][j + 1] /\ j \in Nat
        BY <1>3, <3>4
      <4>2. i + 1 = j + 1
        BY <3>2, <4>1
      <4>. QED  BY <3>1, <4>1, <4>2
    <3>5. caller'[<<q, d>>].answer = Waiting
      BY <1>1, <2>2, <3>2
    <3>6. Serves(q)' => <<q, d>> # Served(q)'
      BY <1>3, <1>8, <2>2, <3>3
    <3>7. \A r \in Rows : ~Written(<<q, d>>, r)'
      BY <1>7, <2>2, <3>2
    <3>. QED  BY <2>2, <3>4, <3>5, <3>6, <3>7
  <2>. QED  BY <2>1, <2>2
<1>12. Owed'
  <2>. SUFFICES ASSUME NEW q \in Processes, NEW d \in Callers(q), caller'[<<q, d>>].answer = Waiting
                PROVE \/ Serves(q)' /\ writer'[q].caller = d
                      \/ \E i \in 1 .. Len(queue'[q]) : queue'[q][i] = d
    BY DEF Owed
  <2>1. \/ Serves(q) /\ writer[q].caller = d
        \/ \E i \in 1 .. Len(queue[q]) : queue[q][i] = d
    BY <1>1 DEF JobInv, Owed
  <2>2. CASE q # p
    BY <1>2, <1>8, <2>1, <2>2
  <2>3. CASE q = p
    <3>1. PICK i \in 1 .. Len(queue[p]) : queue[p][i] = d
      BY <1>1, <2>1, <2>3
    <3>2. CASE i = 1
      BY <1>2, <1>3, <1>6, <1>8, <2>3, <3>1, <3>2
    <3>3. CASE i # 1
      <4>1. i - 1 \in 1 .. Len(queue'[p]) /\ (i - 1) + 1 = i
        BY <1>3, <3>3
      <4>2. queue'[p][i - 1] = d
        BY <1>3, <3>1, <4>1
      <4>. QED  BY <2>3, <4>1, <4>2
    <3>. QED  BY <3>2, <3>3
  <2>. QED  BY <2>2, <2>3
<1>13. Serving'
  <2>. SUFFICES ASSUME NEW q \in Processes, Serves(q)', NEW y, Served(q)' = y
                PROVE /\ caller'[y].answer = Waiting
                      /\ writer'[q].kind # caller'[y].kind =>
                           writer'[q].kind = "committed" /\ writer'[q].wrote = Rows
                      /\ \A r \in Rows : Written(y, r)' <=> r \in writer'[q].wrote
    BY DEF Serving, Written
  <2>1. CASE q # p
    BY <1>1, <1>2, <1>7, <1>8, <2>1 DEF JobInv, Serving
  <2>2. CASE q = p
    BY <1>1, <1>2, <1>6, <1>7, <1>8, <2>2
  <2>. QED  BY <2>1, <2>2
<1>14. Kept'
  <2>1. \A q \in Processes \ {p} : writer[q].kind # "transaction"
    BY <1>1 DEF Unlocked
  <2>2. RowsOf(p, c) \cap rows = {}
    BY <1>6 DEF RowsOf, Written
  <2>3. \A q \in Processes : Serves(q) => undo[q] \subseteq rows
    BY DEF JobInv, Kept
  <2>. SUFFICES ASSUME NEW q \in Processes, Serves(q)'
                PROVE /\ undo'[q] \subseteq rows'
                      /\ writer'[q].kind = "transaction" =>
                           /\ undo'[q] = rows' \ RowsOf(q, writer[q].caller)'
                           /\ \A o \in Processes \ {q} :
                                writer'[o].kind # "transaction" /\ (Serves(o)' => undo'[o] \subseteq undo'[q])
    BY DEF Kept
  <2>5. CASE q # p
    BY <1>1, <1>2, <1>8, <2>1, <2>3, <2>5
  <2>6. CASE q = p
    <3>1. RowsOf(p, writer[p].caller)' = RowsOf(p, c)
      BY <1>1, <1>2, <1>6 DEF RowsOf
    <3>. QED  BY <1>1, <1>2, <1>8, <2>1, <2>2, <2>3, <2>6, <3>1
  <2>. QED  BY <2>5, <2>6
<1>15. Past'
  BY <1>1 DEF JobInv, Past
<1>16. Told'
  BY <1>1, <1>7 DEF JobInv, Told
<1>. QED  BY <1>9, <1>10, <1>11, <1>12, <1>13, <1>14, <1>15, <1>16 DEF JobInv

LEMMA StatementKeeps ==
  ASSUME FileAssumption, FileInv, NEW p \in Processes, Statement(p)
  PROVE FileInv'
<1>. USE DEF FileInv
<1>. DEFINE c == writer[p].caller
            x == Served(p)
            w == IF writer[p].wrote = {} THEN "first" ELSE "second"
<1>1. /\ Serves(p) /\ writer[p].wrote # Rows /\ Unlocked(p)
      /\ rows' = rows \cup {<<p, c, caller[x].sent, w>>}
      /\ writer' = [writer EXCEPT ![p].wrote = @ \cup {w}]
      /\ UNCHANGED <<version, schema, dangling, phase, seen, queue, undo, caller>>
  BY DEF Statement, Serves, Served
<1>2. /\ x \in Callings /\ c \in Callers(p) /\ x[1] = p /\ x[2] = c
      /\ writer[p] \in Jobs(p) /\ writer[p].wrote \subseteq Rows /\ caller[x] \in Calls
  BY <1>1, ServedIsCalling
<1>3. w \in Rows
  BY DEF Rows
<1>4. /\ writer'[p].caller = c /\ writer'[p].kind = writer[p].kind
      /\ writer'[p].wrote = writer[p].wrote \cup {w} /\ writer'[p] \in Jobs(p)
      /\ \A q \in Processes : q # p => writer'[q] = writer[q]
  <2>1. writer'[p] = [writer[p] EXCEPT !.wrote = writer[p].wrote \cup {w}]
    BY <1>1 DEF FileTypes
  <2>2. \A q \in Processes : q # p => writer'[q] = writer[q]
    BY <1>1 DEF FileTypes
  <2>3. writer[p].wrote \cup {w} \subseteq Rows
    BY <1>2, <1>3
  <2>. HIDE DEF w
  <2>4. /\ writer'[p].caller = writer[p].caller /\ writer'[p].kind = writer[p].kind
        /\ writer'[p].wrote = writer[p].wrote \cup {w} /\ writer'[p] \in Jobs(p)
    BY <1>2, <2>1, <2>3 DEF Jobs
  <2>. QED  BY <2>2, <2>4
<1>. HIDE DEF w
<1>5. writer[p].kind \in Kinds \cup {"committed"} /\ writer[p] # Nothing /\ writer'[p] # Nothing
  <2>1. writer[p].kind \in Kinds \cup {"committed"}
    BY <1>2 DEF Jobs
  <2>2. writer'[p].kind # "none"
    BY <1>4, <2>1 DEF Kinds
  <2>3. Nothing.kind = "none"
    BY DEF Nothing
  <2>. QED  BY <1>1, <2>1, <2>2, <2>3 DEF Serves
<1>6. \A q \in Processes : (Serves(q)' <=> Serves(q)) /\ Served(q)' = Served(q)
  BY <1>4, <1>5 DEF Serves, Served
<1>7. \A y \in Callings, r \in Rows : Written(y, r)' <=> Written(y, r) \/ (y = x /\ r = w)
  <2>. SUFFICES ASSUME NEW y \in Callings, NEW r \in Rows
                PROVE Written(y, r)' <=> Written(y, r) \/ (y = x /\ r = w)
    OBVIOUS
  <2>1. <<y[1], y[2], caller[y].sent, r>> = <<p, c, caller[x].sent, w>> <=> y = x /\ r = w
    <3>1. <<y[1], y[2], caller[y].sent, r>> = <<x[1], x[2], caller[x].sent, w>>
            <=> y = x /\ caller[y].sent = caller[x].sent /\ r = w
      BY <1>2, RowsDiffer
    <3>. QED  BY <1>2, <3>1
  <2>. QED  BY <1>1, <2>1 DEF Written
<1>8. /\ caller[x].answer = Waiting
      /\ writer[p].kind = caller[x].kind
      /\ \A r \in Rows : Written(x, r) <=> r \in writer[p].wrote
  BY <1>1 DEF JobInv, Serving
<1>9. \A q \in Processes : q # p => Served(q) # x
  BY DEF Served
<1>. HIDE DEF x, c
<1>10. FileTypes'
  <2>1. \A q \in Processes : writer'[q] \in Jobs(q) \cup {Nothing}
    BY <1>4 DEF FileTypes
  <2>. QED  BY <1>1, <2>1 DEF FileTypes, Jobs
<1>11. SchemaInv'
  <2>1. \A q \in Processes : (Serves(q)' \/ queue'[q] # <<>>) => phase[q] = "open"
    BY <1>1, <1>6 DEF SchemaInv, Phases
  <2>. QED  BY <1>1, <2>1, SchemaUntouched
<1>12. Queued'
  <2>. SUFFICES ASSUME NEW q \in Processes, NEW i \in 1 .. Len(queue'[q]), NEW d, queue'[q][i] = d
                PROVE /\ caller'[<<q, d>>].answer = Waiting
                      /\ \A j \in 1 .. Len(queue'[q]) : d = queue'[q][j] => i = j
                      /\ Serves(q)' => <<q, d>> # Served(q)'
                      /\ \A r \in Rows : ~Written(<<q, d>>, r)'
    BY DEF Queued, Written
  <2>1. i \in 1 .. Len(queue[q]) /\ queue[q][i] = d /\ <<q, d>> \in Callings
    BY <1>1, QueuedAreCallings
  <2>2. <<q, d>> # x
    <3>1. CASE q = p
      BY <1>1, <2>1, <3>1 DEF JobInv, Queued, x
    <3>2. CASE q # p
      BY <1>2, <3>2
    <3>. QED  BY <3>1, <3>2
  <2>3. \A r \in Rows : ~Written(<<q, d>>, r)'
    BY <1>7, <2>1, <2>2 DEF JobInv, Queued
  <2>. QED  BY <1>1, <1>6, <2>1, <2>3 DEF JobInv, Queued
<1>13. Owed'
  <2>1. \A q \in Processes : writer'[q].caller = writer[q].caller
    BY <1>4 DEF c
  <2>. QED  BY <1>1, <1>6, <2>1 DEF JobInv, Owed
<1>14. Serving'
  <2>. SUFFICES ASSUME NEW q \in Processes, Serves(q)', NEW y, Served(q)' = y
                PROVE /\ caller'[y].answer = Waiting
                      /\ writer'[q].kind # caller'[y].kind =>
                           writer'[q].kind = "committed" /\ writer'[q].wrote = Rows
                      /\ \A r \in Rows : Written(y, r)' <=> r \in writer'[q].wrote
    BY DEF Serving, Written
  <2>1. Serves(q) /\ Served(q) = y /\ y \in Callings
    BY <1>6, ServedIsCalling
  <2>2. CASE q # p
    <3>1. y # x
      BY <1>9, <2>1, <2>2
    <3>. QED  BY <1>1, <1>4, <1>7, <2>1, <2>2, <3>1 DEF JobInv, Serving
  <2>3. CASE q = p
    <3>1. y = x
      BY <2>1, <2>3 DEF x
    <3>. QED  BY <1>1, <1>2, <1>4, <1>7, <1>8, <2>3, <3>1
  <2>. QED  BY <2>2, <2>3
<1>15. Kept'
  <2>1. \A q \in Processes \ {p} : writer[q].kind # "transaction"
    BY <1>1 DEF Unlocked
  <2>2. \A q \in Processes : Serves(q) => undo[q] \subseteq rows
    BY DEF JobInv, Kept
  <2>3. RowsOf(p, writer[p].caller)' = RowsOf(p, c)
    BY <1>1, <1>4 DEF RowsOf
  <2>4. <<p, c, caller[x].sent, w>> \in RowsOf(p, c)
    BY <1>3 DEF RowsOf, x, c, Served
  <2>. SUFFICES ASSUME NEW q \in Processes, Serves(q)'
                PROVE /\ undo'[q] \subseteq rows'
                      /\ writer'[q].kind = "transaction" =>
                           /\ undo'[q] = rows' \ RowsOf(q, writer[q].caller)'
                           /\ \A o \in Processes \ {q} :
                                writer'[o].kind # "transaction" /\ (Serves(o)' => undo'[o] \subseteq undo'[q])
    BY DEF Kept
  <2>5. undo'[q] \subseteq rows'
    BY <1>1, <1>6, <2>2
  <2>6. ASSUME writer'[q].kind = "transaction"
        PROVE /\ undo'[q] = rows' \ RowsOf(q, writer[q].caller)'
              /\ \A o \in Processes \ {q} :
                   writer'[o].kind # "transaction" /\ (Serves(o)' => undo'[o] \subseteq undo'[q])
    <3>1. q = p /\ writer[p].kind = "transaction"
      BY <1>4, <2>1, <2>6
    <3>2. undo[p] = rows \ RowsOf(p, c)
      BY <1>1, <3>1 DEF JobInv, Kept, c
    <3>3. \A o \in Processes \ {p} : Serves(o) => undo[o] \subseteq undo[p]
      BY <1>1, <3>1 DEF JobInv, Kept
    <3>4. undo[p] = rows' \ RowsOf(p, c)
      BY <1>1, <2>4, <3>2
    <3>. QED  BY <1>1, <1>4, <1>6, <2>1, <2>3, <3>1, <3>3, <3>4
  <2>. QED  BY <2>5, <2>6
<1>16. Past'
  <2>. SUFFICES ASSUME NEW y \in Callings, NEW n \in Nat, NEW r \in Rows,
                       <<y[1], y[2], n, r>> \in rows'
                PROVE n <= caller'[y].sent
    BY DEF Past
  <2>1. CASE <<y[1], y[2], n, r>> \in rows
    BY <1>1, <2>1 DEF JobInv, Past
  <2>2. CASE <<y[1], y[2], n, r>> = <<x[1], x[2], caller[x].sent, w>>
    <3>1. y = x /\ n = caller[x].sent
      BY <1>2, <2>2, RowsDiffer
    <3>. QED  BY <1>1, <3>1
  <2>. QED  BY <1>1, <1>2, <2>1, <2>2
<1>17. Told'
  <2>. SUFFICES ASSUME NEW y \in Callings
                PROVE /\ caller'[y].answer = "ok" => \A r \in Rows : Written(y, r)'
                      /\ caller'[y].answer \in {"panicked", "killed"} /\ caller'[y].kind = "transaction" =>
                           (\A r \in Rows : Written(y, r)') \/ (\A r \in Rows : ~Written(y, r)')
    BY DEF Told
  <2>1. CASE y = x
    BY <1>1, <1>8, <2>1 DEF Waiting
  <2>2. CASE y # x
    BY <1>1, <1>7, <2>2 DEF JobInv, Told
  <2>. QED  BY <2>1, <2>2
<1>. QED  BY <1>10, <1>11, <1>12, <1>13, <1>14, <1>15, <1>16, <1>17 DEF JobInv

LEMMA CommitKeeps ==
  ASSUME FileAssumption, FileInv, NEW p \in Processes, Commit(p)
  PROVE FileInv'
<1>. USE DEF FileInv
<1>1. /\ writer[p].kind = "transaction" /\ writer[p].wrote = Rows
      /\ writer' = [writer EXCEPT ![p].kind = "committed"]
      /\ UNCHANGED <<version, schema, dangling, rows, phase, seen, queue, undo, caller>>
  BY DEF Commit, fileVars
<1>2. Serves(p)
  BY <1>1 DEF Serves, Nothing
<1>3. writer[p] \in Jobs(p)
  BY <1>2, ServedIsCalling
<1>4. /\ writer'[p].caller = writer[p].caller /\ writer'[p].kind = "committed"
      /\ writer'[p].wrote = Rows /\ writer'[p] \in Jobs(p)
      /\ \A q \in Processes : q # p => writer'[q] = writer[q]
  BY <1>1, <1>3 DEF FileTypes, Jobs
<1>5. \A q \in Processes : (Serves(q)' <=> Serves(q)) /\ Served(q)' = Served(q)
  BY <1>2, <1>4 DEF Serves, Served, Nothing
<1>6. \A y, r : Written(y, r)' <=> Written(y, r)
  BY <1>1 DEF Written
<1>7. FileTypes'
  <2>1. \A q \in Processes : writer'[q] \in Jobs(q) \cup {Nothing}
    BY <1>4 DEF FileTypes
  <2>. QED  BY <1>1, <2>1 DEF FileTypes, Jobs
<1>8. SchemaInv'
  <2>1. \A q \in Processes : (Serves(q)' \/ queue'[q] # <<>>) => phase[q] = "open"
    BY <1>1, <1>5 DEF SchemaInv, Phases
  <2>. QED  BY <1>1, <2>1, SchemaUntouched
<1>9. Queued'
  <2>. SUFFICES ASSUME NEW q \in Processes, NEW i \in 1 .. Len(queue'[q]), NEW d, queue'[q][i] = d
                PROVE /\ caller'[<<q, d>>].answer = Waiting
                      /\ \A j \in 1 .. Len(queue'[q]) : d = queue'[q][j] => i = j
                      /\ Serves(q)' => <<q, d>> # Served(q)'
                      /\ \A r \in Rows : ~Written(<<q, d>>, r)'
    BY DEF Queued, Written
  <2>. QED  BY <1>1, <1>5, <1>6 DEF JobInv, Queued
<1>10. Owed'
  <2>1. \A q \in Processes : writer'[q].caller = writer[q].caller
    BY <1>4
  <2>. QED  BY <1>1, <1>5, <2>1 DEF JobInv, Owed
<1>11. Serving'
  <2>. SUFFICES ASSUME NEW q \in Processes, Serves(q)', NEW y, Served(q)' = y
                PROVE /\ caller'[y].answer = Waiting
                      /\ writer'[q].kind # caller'[y].kind =>
                           writer'[q].kind = "committed" /\ writer'[q].wrote = Rows
                      /\ \A r \in Rows : Written(y, r)' <=> r \in writer'[q].wrote
    BY DEF Serving, Written
  <2>. QED  BY <1>1, <1>4, <1>5, <1>6 DEF JobInv, Serving
<1>12. Kept'
  <2>1. \A q \in Processes \ {p} : writer[q].kind # "transaction"
    BY <1>1, <1>2 DEF JobInv, Kept
  <2>2. \A q \in Processes : writer'[q].kind # "transaction"
    BY <1>4, <2>1
  <2>. QED  BY <1>1, <1>5, <2>2 DEF JobInv, Kept
<1>13. Past'
  BY <1>1 DEF JobInv, Past
<1>14. Told'
  BY <1>1, <1>6 DEF JobInv, Told
<1>. QED  BY <1>7, <1>8, <1>9, <1>10, <1>11, <1>12, <1>13, <1>14 DEF JobInv

-----------------------------------------------------------------------------
\* What is left of the rows when a job does not end well: its own rows are gone if it was a
\* transaction, and nobody else's are.
LEMMA UndoneIsOwn ==
  ASSUME FileAssumption, FileInv, NEW p \in Processes, Serves(p)
  PROVE /\ Undone(p) \subseteq rows
        /\ \A y \in Callings, r \in Rows :
             <<y[1], y[2], caller[y].sent, r>> \in Undone(p)
               <=> Written(y, r) /\ ~(writer[p].kind = "transaction" /\ y = Served(p))
        /\ \A q \in Processes \ {p} : Serves(q) => undo[q] \subseteq Undone(p)
        /\ \A q \in Processes \ {p} : writer[q].kind = "transaction" =>
             Undone(p) = rows /\ writer[p].kind # "transaction"
<1>. USE DEF FileInv
<1>1. \A q \in Processes : Serves(q) => undo[q] \subseteq rows
  BY DEF JobInv, Kept
<1>2. CASE writer[p].kind = "transaction"
  <2>1. /\ undo[p] = rows \ RowsOf(p, writer[p].caller)
        /\ \A q \in Processes \ {p} :
             writer[q].kind # "transaction" /\ (Serves(q) => undo[q] \subseteq undo[p])
    BY <1>2 DEF JobInv, Kept
  <2>2. /\ Served(p) \in Callings /\ Served(p)[1] = p /\ Served(p)[2] = writer[p].caller
        /\ Served(p) = <<p, writer[p].caller>>
    BY ServedIsCalling DEF Served
  <2>3. ASSUME NEW y \in Callings, NEW r \in Rows
        PROVE <<y[1], y[2], caller[y].sent, r>> \in RowsOf(p, writer[p].caller) <=> y = Served(p)
    <3>1. \A s : <<y[1], y[2], caller[y].sent, r>>
                    = <<Served(p)[1], Served(p)[2], caller[Served(p)].sent, s>>
                  <=> y = Served(p) /\ caller[y].sent = caller[Served(p)].sent /\ r = s
      BY <2>2, RowsDiffer
    <3>2. \A s : <<y[1], y[2], caller[y].sent, r>>
                    = <<p, writer[p].caller, caller[<<p, writer[p].caller>>].sent, s>>
                  <=> y = Served(p) /\ r = s
      BY <2>2, <3>1
    <3>. QED  BY <3>2 DEF RowsOf
  <2>. QED  BY <1>2, <2>1, <2>3 DEF Undone, Written
<1>3. CASE writer[p].kind # "transaction"
  BY <1>1, <1>3 DEF Undone, Written
<1>. QED  BY <1>2, <1>3

LEMMA AnsweredKeeps ==
  ASSUME FileAssumption, FileInv, NEW p \in Processes, Serves(p), NEW a \in {"ok", "panicked"},
         Answered(p, a), rows' = Undone(p),
         a = "ok" => writer[p].wrote = Rows /\ writer[p].kind # "transaction"
  PROVE FileInv'
<1>. USE DEF FileInv
<1>. DEFINE c == writer[p].caller
            x == Served(p)
<1>1. /\ caller' = [caller EXCEPT ![x].answer = a]
      /\ writer' = [writer EXCEPT ![p] = Nothing]
      /\ UNCHANGED <<version, schema, dangling, phase, seen, queue, undo>>
  BY DEF Answered, Served, Put
<1>2. /\ x \in Callings /\ c \in Callers(p) /\ x[1] = p /\ x[2] = c
      /\ writer[p].wrote \subseteq Rows /\ caller[x] \in Calls
  BY ServedIsCalling
<1>3. /\ ~Serves(p)' /\ writer'[p].kind # "transaction"
      /\ \A q \in Processes : q # p => /\ writer'[q] = writer[q] /\ Served(q)' = Served(q)
                                       /\ Serves(q)' <=> Serves(q)
  BY <1>1 DEF FileTypes, Serves, Served, Nothing
<1>4. /\ caller'[x].answer = a /\ caller'[x].kind = caller[x].kind /\ caller'[x] \in Calls
      /\ caller'[x].sent = caller[x].sent
      /\ \A y \in Callings : y # x => caller'[y] = caller[y]
  BY <1>1, <1>2 DEF FileTypes, Calls
<1>5. \A y \in Callings : caller'[y].sent = caller[y].sent
  BY <1>4
<1>6. \A y \in Callings, r \in Rows : Written(y, r)' <=>
        Written(y, r) /\ ~(writer[p].kind = "transaction" /\ y = x)
  BY <1>5, UndoneIsOwn DEF Written
<1>7. /\ caller[x].answer = Waiting
      /\ writer[p].kind # caller[x].kind => writer[p].kind = "committed" /\ writer[p].wrote = Rows
      /\ \A r \in Rows : Written(x, r) <=> r \in writer[p].wrote
  BY DEF JobInv, Serving
<1>8. \A q \in Processes : q # p => Served(q) # x
  BY DEF Served
<1>. HIDE DEF x, c
<1>9. FileTypes'
  <2>1. \A q \in Processes : writer'[q] \in Jobs(q) \cup {Nothing}
    BY <1>1 DEF FileTypes
  <2>2. caller' \in [Callings -> Calls]
    BY <1>1, <1>4 DEF FileTypes
  <2>. QED  BY <1>1, <2>1, <2>2 DEF FileTypes, Jobs
<1>10. SchemaInv'
  <2>1. \A q \in Processes : (Serves(q)' \/ queue'[q] # <<>>) => phase[q] = "open"
    BY <1>1, <1>3 DEF SchemaInv, Phases
  <2>. QED  BY <1>1, <2>1, SchemaUntouched
<1>11. Queued'
  <2>. SUFFICES ASSUME NEW q \in Processes, NEW i \in 1 .. Len(queue'[q]), NEW d, queue'[q][i] = d
                PROVE /\ caller'[<<q, d>>].answer = Waiting
                      /\ \A j \in 1 .. Len(queue'[q]) : d = queue'[q][j] => i = j
                      /\ Serves(q)' => <<q, d>> # Served(q)'
                      /\ \A r \in Rows : ~Written(<<q, d>>, r)'
    BY DEF Queued, Written
  <2>1. i \in 1 .. Len(queue[q]) /\ queue[q][i] = d /\ <<q, d>> \in Callings
    BY <1>1, QueuedAreCallings
  <2>2. <<q, d>> # x
    <3>1. CASE q = p
      BY <1>1, <2>1, <3>1 DEF JobInv, Queued, x
    <3>2. CASE q # p
      BY <1>2, <3>2
    <3>. QED  BY <3>1, <3>2
  <2>3. /\ caller[<<q, d>>].answer = Waiting
        /\ \A j \in 1 .. Len(queue[q]) : d = queue[q][j] => i = j
        /\ Serves(q) => <<q, d>> # Served(q)
        /\ \A r \in Rows : ~Written(<<q, d>>, r)
    BY <2>1 DEF JobInv, Queued
  <2>4. \A r \in Rows : ~Written(<<q, d>>, r)'
    BY <1>6, <2>1, <2>3
  <2>. QED  BY <1>1, <1>3, <1>4, <2>1, <2>2, <2>3, <2>4
<1>12. Owed'
  <2>. SUFFICES ASSUME NEW q \in Processes, NEW d \in Callers(q), caller'[<<q, d>>].answer = Waiting
                PROVE \/ Serves(q)' /\ writer'[q].caller = d
                      \/ \E i \in 1 .. Len(queue'[q]) : queue'[q][i] = d
    BY DEF Owed
  <2>1. <<q, d>> \in Callings
    BY CallersArePairs
  <2>2. <<q, d>> # x
    BY <1>4 DEF Waiting
  <2>3. \/ Serves(q) /\ writer[q].caller = d
        \/ \E i \in 1 .. Len(queue[q]) : queue[q][i] = d
    BY <1>4, <2>1, <2>2 DEF JobInv, Owed
  <2>4. CASE q # p
    BY <1>1, <1>3, <2>3, <2>4
  <2>5. CASE q = p
    BY <1>1, <2>2, <2>3, <2>5 DEF x, Served
  <2>. QED  BY <2>4, <2>5
<1>13. Serving'
  <2>. SUFFICES ASSUME NEW q \in Processes, Serves(q)', NEW y, Served(q)' = y
                PROVE /\ caller'[y].answer = Waiting
                      /\ writer'[q].kind # caller'[y].kind =>
                           writer'[q].kind = "committed" /\ writer'[q].wrote = Rows
                      /\ \A r \in Rows : Written(y, r)' <=> r \in writer'[q].wrote
    BY DEF Serving, Written
  <2>1. q # p
    BY <1>3
  <2>2. Serves(q) /\ Served(q) = y /\ writer'[q] = writer[q] /\ y # x
    BY <1>3, <1>8, <2>1
  <2>3. y \in Callings
    BY <2>2, ServedIsCalling
  <2>4. /\ caller[y].answer = Waiting
        /\ writer[q].kind # caller[y].kind => writer[q].kind = "committed" /\ writer[q].wrote = Rows
        /\ \A r \in Rows : Written(y, r) <=> r \in writer[q].wrote
    BY <2>2 DEF JobInv, Serving
  <2>. QED  BY <1>4, <1>6, <2>2, <2>3, <2>4
<1>14. Kept'
  <2>. SUFFICES ASSUME NEW q \in Processes, Serves(q)'
                PROVE /\ undo'[q] \subseteq rows'
                      /\ writer'[q].kind = "transaction" =>
                           /\ undo'[q] = rows' \ RowsOf(q, writer[q].caller)'
                           /\ \A o \in Processes \ {q} :
                                writer'[o].kind # "transaction" /\ (Serves(o)' => undo'[o] \subseteq undo'[q])
    BY DEF Kept
  <2>1. q # p /\ Serves(q) /\ writer'[q] = writer[q]
    BY <1>3
  <2>2. undo'[q] \subseteq rows'
    BY <1>1, <2>1, UndoneIsOwn
  <2>3. ASSUME writer'[q].kind = "transaction"
        PROVE /\ undo'[q] = rows' \ RowsOf(q, writer[q].caller)'
              /\ \A o \in Processes \ {q} :
                   writer'[o].kind # "transaction" /\ (Serves(o)' => undo'[o] \subseteq undo'[q])
    <3>1. rows' = rows
      BY <2>1, <2>3, UndoneIsOwn
    <3>2. /\ undo[q] = rows \ RowsOf(q, writer[q].caller)
          /\ \A o \in Processes \ {q} :
               writer[o].kind # "transaction" /\ (Serves(o) => undo[o] \subseteq undo[q])
      BY <2>1, <2>3 DEF JobInv, Kept
    <3>3. RowsOf(q, writer[q].caller)' = RowsOf(q, writer[q].caller)
      <4>1. <<q, writer[q].caller>> \in Callings
        BY <2>1, ServedIsCalling DEF Served
      <4>. QED  BY <1>5, <2>1, <4>1 DEF RowsOf
    <3>. QED  BY <1>1, <1>3, <3>1, <3>2, <3>3
  <2>. QED  BY <2>2, <2>3
<1>15. Past'
  <2>. SUFFICES ASSUME NEW y \in Callings, NEW n \in Nat, NEW r \in Rows,
                       <<y[1], y[2], n, r>> \in rows'
                PROVE n <= caller'[y].sent
    BY DEF Past
  <2>1. <<y[1], y[2], n, r>> \in rows
    BY UndoneIsOwn
  <2>. QED  BY <1>5, <2>1 DEF JobInv, Past
<1>16. Told'
  <2>. SUFFICES ASSUME NEW y \in Callings
                PROVE /\ caller'[y].answer = "ok" => \A r \in Rows : Written(y, r)'
                      /\ caller'[y].answer \in {"panicked", "killed"} /\ caller'[y].kind = "transaction" =>
                           (\A r \in Rows : Written(y, r)') \/ (\A r \in Rows : ~Written(y, r)')
    BY DEF Told
  <2>1. CASE y = x
    BY <1>4, <1>6, <1>7, <2>1
  <2>2. CASE y # x
    BY <1>4, <1>6, <2>2 DEF JobInv, Told
  <2>. QED  BY <2>1, <2>2
<1>. QED  BY <1>9, <1>10, <1>11, <1>12, <1>13, <1>14, <1>15, <1>16 DEF JobInv

LEMMA JobDoneKeeps ==
  ASSUME FileAssumption, FileInv, NEW p \in Processes, JobDone(p)
  PROVE FileInv'
<1>1. Serves(p) /\ Answered(p, "ok") /\ writer[p].wrote = Rows /\ writer[p].kind # "transaction"
  BY DEF JobDone, Serves, Nothing
<1>2. rows' = Undone(p)
  BY <1>1 DEF JobDone, Undone
<1>. QED  BY <1>1, <1>2, AnsweredKeeps

LEMMA JobPanicsKeeps ==
  ASSUME FileAssumption, FileInv, NEW p \in Processes, JobPanics(p)
  PROVE FileInv'
<1>1. Serves(p) /\ Answered(p, "panicked") /\ rows' = Undone(p)
  BY DEF JobPanics, Serves
<1>. QED  BY <1>1, AnsweredKeeps

LEMMA KillKeeps ==
  ASSUME FileAssumption, FileInv, NEW p \in Processes, Kill(p)
  PROVE FileInv'
<1>. USE DEF FileInv
<1>. DEFINE Stopped(y) == y[1] = p /\ caller[y].answer = Waiting
            Lost(y) == Serves(p) /\ writer[p].kind = "transaction" /\ y = Served(p)
<1>1. /\ rows' = (IF Serves(p) THEN Undone(p) ELSE rows)
      /\ phase' = [phase EXCEPT ![p] = "closed"]
      /\ queue' = [queue EXCEPT ![p] = <<>>]
      /\ writer' = [writer EXCEPT ![p] = Nothing]
      /\ caller' = [y \in Callings |->
                      IF Stopped(y) THEN [caller[y] EXCEPT !.answer = "killed"] ELSE caller[y]]
      /\ UNCHANGED <<version, schema, dangling, seen, undo>>
  BY DEF Kill, Put, Serves
<1>2. /\ ~Serves(p)' /\ writer'[p].kind # "transaction" /\ queue'[p] = <<>>
      /\ \A q \in Processes : q # p =>
           /\ writer'[q] = writer[q] /\ queue'[q] = queue[q]
           /\ Served(q)' = Served(q) /\ (Serves(q)' <=> Serves(q))
  BY <1>1 DEF FileTypes, Serves, Served, Nothing
<1>3. \A q \in Processes : phase'[q] = IF q = p THEN "closed" ELSE phase[q]
  BY <1>1 DEF FileTypes
<1>4. \A y \in Callings : /\ caller'[y].sent = caller[y].sent /\ caller'[y].kind = caller[y].kind
                          /\ caller'[y].answer = IF Stopped(y) THEN "killed" ELSE caller[y].answer
                          /\ caller'[y] \in Calls /\ (~Stopped(y) => caller'[y] = caller[y])
  <2>. SUFFICES ASSUME NEW y \in Callings
                PROVE /\ caller'[y].sent = caller[y].sent /\ caller'[y].kind = caller[y].kind
                      /\ caller'[y].answer = IF Stopped(y) THEN "killed" ELSE caller[y].answer
                      /\ caller'[y] \in Calls /\ (~Stopped(y) => caller'[y] = caller[y])
    OBVIOUS
  <2>1. caller[y] \in Calls
    BY DEF FileTypes
  <2>2. caller'[y] = IF Stopped(y) THEN [caller[y] EXCEPT !.answer = "killed"] ELSE caller[y]
    BY <1>1
  <2>. HIDE DEF Stopped
  <2>. QED  BY <2>1, <2>2 DEF Calls
<1>5. /\ \A y \in Callings, r \in Rows : Written(y, r)' <=> Written(y, r) /\ ~Lost(y)
      /\ rows' \subseteq rows
      /\ \A q \in Processes \ {p} : Serves(q) => undo[q] \subseteq rows'
      /\ \A q \in Processes \ {p} : writer[q].kind = "transaction" => rows' = rows
  <2>1. CASE Serves(p)
    BY <1>1, <1>4, <2>1, UndoneIsOwn DEF Written
  <2>2. CASE ~Serves(p)
    BY <1>1, <1>4, <2>2 DEF Written, JobInv, Kept
  <2>. QED  BY <2>1, <2>2
<1>6. \A y \in Callings : y[1] # p => ~Stopped(y) /\ ~Lost(y)
  BY DEF Served
<1>7. FileTypes'
  <2>1. \A q \in Processes : writer'[q] \in Jobs(q) \cup {Nothing}
    BY <1>1 DEF FileTypes
  <2>2. caller' \in [Callings -> Calls]
    BY <1>1, <1>4
  <2>3. \A q \in Processes : queue'[q] \in Seq(Callers(q))
    <3>1. <<>> \in Seq(Callers(p)) /\ \A q \in Processes : queue[q] \in Seq(Callers(q))
      BY DEF FileTypes
    <3>. QED  BY <1>2, <3>1
  <2>4. DOMAIN queue' = Processes /\ DOMAIN writer' = Processes
    BY <1>1 DEF FileTypes
  <2>5. phase' \in [Processes -> {"closed", "migrating", "open", "refused"}]
    BY <1>1 DEF FileTypes
  <2>. QED  BY <1>1, <2>1, <2>2, <2>3, <2>4, <2>5 DEF FileTypes, Jobs
<1>8. SchemaInv'
  <2>1. VersionIsSchema'
    BY <1>1 DEF SchemaInv, VersionIsSchema
  <2>2. Phases'
    BY <1>1, <1>2, <1>3 DEF SchemaInv, Phases
  <2>. QED  BY <2>1, <2>2 DEF SchemaInv
<1>. HIDE DEF Stopped, Lost
<1>9. Queued'
  <2>. SUFFICES ASSUME NEW q \in Processes, NEW i \in 1 .. Len(queue'[q]), NEW d, queue'[q][i] = d
                PROVE /\ caller'[<<q, d>>].answer = Waiting
                      /\ \A j \in 1 .. Len(queue'[q]) : d = queue'[q][j] => i = j
                      /\ Serves(q)' => <<q, d>> # Served(q)'
                      /\ \A r \in Rows : ~Written(<<q, d>>, r)'
    BY DEF Queued, Written
  <2>1. q # p
    <3>1. Len(<<>>) = 0 /\ 1 .. 0 = {}
      OBVIOUS
    <3>. QED  BY <1>2, <3>1
  <2>2. queue'[q] = queue[q] /\ i \in 1 .. Len(queue[q]) /\ queue[q][i] = d
    BY <1>2, <2>1
  <2>3. <<q, d>> \in Callings /\ <<q, d>>[1] = q
    BY <2>2, QueuedAreCallings
  <2>4. /\ caller[<<q, d>>].answer = Waiting
        /\ \A j \in 1 .. Len(queue[q]) : d = queue[q][j] => i = j
        /\ Serves(q) => <<q, d>> # Served(q)
        /\ \A r \in Rows : ~Written(<<q, d>>, r)
    BY <2>2 DEF JobInv, Queued
  <2>5. caller'[<<q, d>>].answer = Waiting
    BY <1>4, <1>6, <2>1, <2>3, <2>4
  <2>6. \A r \in Rows : ~Written(<<q, d>>, r)'
    BY <1>5, <2>3, <2>4
  <2>. QED  BY <1>2, <2>1, <2>2, <2>4, <2>5, <2>6
<1>10. Owed'
  <2>. SUFFICES ASSUME NEW q \in Processes, NEW d \in Callers(q), caller'[<<q, d>>].answer = Waiting
                PROVE \/ Serves(q)' /\ writer'[q].caller = d
                      \/ \E i \in 1 .. Len(queue'[q]) : queue'[q][i] = d
    BY DEF Owed
  <2>1. <<q, d>> \in Callings /\ <<q, d>>[1] = q
    BY CallersArePairs
  <2>2. ~Stopped(<<q, d>>) /\ caller[<<q, d>>].answer = Waiting
    BY <1>4, <2>1 DEF Waiting
  <2>3. q # p
    BY <2>1, <2>2 DEF Stopped
  <2>4. \/ Serves(q) /\ writer[q].caller = d
        \/ \E i \in 1 .. Len(queue[q]) : queue[q][i] = d
    BY <2>2 DEF JobInv, Owed
  <2>. QED  BY <1>2, <2>3, <2>4
<1>11. Serving'
  <2>. SUFFICES ASSUME NEW q \in Processes, Serves(q)', NEW y, Served(q)' = y
                PROVE /\ caller'[y].answer = Waiting
                      /\ writer'[q].kind # caller'[y].kind =>
                           writer'[q].kind = "committed" /\ writer'[q].wrote = Rows
                      /\ \A r \in Rows : Written(y, r)' <=> r \in writer'[q].wrote
    BY DEF Serving, Written
  <2>1. q # p
    BY <1>2
  <2>2. Serves(q) /\ Served(q) = y /\ writer'[q] = writer[q]
    BY <1>2, <2>1
  <2>3. y \in Callings /\ y[1] = q
    BY <2>2, ServedIsCalling
  <2>4. ~Stopped(y) /\ ~Lost(y)
    BY <1>6, <2>1, <2>3
  <2>5. /\ caller[y].answer = Waiting
        /\ writer[q].kind # caller[y].kind => writer[q].kind = "committed" /\ writer[q].wrote = Rows
        /\ \A r \in Rows : Written(y, r) <=> r \in writer[q].wrote
    BY <2>2 DEF JobInv, Serving
  <2>. QED  BY <1>4, <1>5, <2>2, <2>3, <2>4, <2>5
<1>12. Kept'
  <2>. SUFFICES ASSUME NEW q \in Processes, Serves(q)'
                PROVE /\ undo'[q] \subseteq rows'
                      /\ writer'[q].kind = "transaction" =>
                           /\ undo'[q] = rows' \ RowsOf(q, writer[q].caller)'
                           /\ \A o \in Processes \ {q} :
                                writer'[o].kind # "transaction" /\ (Serves(o)' => undo'[o] \subseteq undo'[q])
    BY DEF Kept
  <2>1. q # p /\ Serves(q) /\ writer'[q] = writer[q]
    BY <1>2
  <2>2. undo'[q] \subseteq rows'
    BY <1>1, <1>5, <2>1
  <2>3. ASSUME writer'[q].kind = "transaction"
        PROVE /\ undo'[q] = rows' \ RowsOf(q, writer[q].caller)'
              /\ \A o \in Processes \ {q} :
                   writer'[o].kind # "transaction" /\ (Serves(o)' => undo'[o] \subseteq undo'[q])
    <3>1. rows' = rows
      BY <1>5, <2>1, <2>3
    <3>2. /\ undo[q] = rows \ RowsOf(q, writer[q].caller)
          /\ \A o \in Processes \ {q} :
               writer[o].kind # "transaction" /\ (Serves(o) => undo[o] \subseteq undo[q])
      BY <2>1, <2>3 DEF JobInv, Kept
    <3>3. RowsOf(q, writer[q].caller)' = RowsOf(q, writer[q].caller)
      <4>1. <<q, writer[q].caller>> \in Callings
        BY <2>1, ServedIsCalling DEF Served
      <4>. QED  BY <1>4, <2>1, <4>1 DEF RowsOf
    <3>. QED  BY <1>1, <1>2, <3>1, <3>2, <3>3
  <2>. QED  BY <2>2, <2>3
<1>13. Past'
  <2>. SUFFICES ASSUME NEW y \in Callings, NEW n \in Nat, NEW r \in Rows,
                       <<y[1], y[2], n, r>> \in rows'
                PROVE n <= caller'[y].sent
    BY DEF Past
  <2>. QED  BY <1>4, <1>5 DEF JobInv, Past
<1>14. Told'
  <2>. SUFFICES ASSUME NEW y \in Callings
                PROVE /\ caller'[y].answer = "ok" => \A r \in Rows : Written(y, r)'
                      /\ caller'[y].answer \in {"panicked", "killed"} /\ caller'[y].kind = "transaction" =>
                           (\A r \in Rows : Written(y, r)') \/ (\A r \in Rows : ~Written(y, r)')
    BY DEF Told
  <2>1. CASE ~Stopped(y)
    <3>1. ~Lost(y) \/ caller[y].answer = Waiting
      BY DEF Lost, JobInv, Serving
    <3>2. caller'[y] = caller[y]
      BY <1>4, <2>1
    <3>3. (\A r \in Rows : Written(y, r)' <=> Written(y, r)) \/ caller[y].answer = Waiting
      BY <1>5, <3>1
    <3>. QED  BY <3>2, <3>3 DEF JobInv, Told, Waiting
  <2>2. CASE Stopped(y) /\ Serves(p) /\ y = Served(p)
    <3>1. /\ writer[p].kind # caller[y].kind => writer[p].kind = "committed" /\ writer[p].wrote = Rows
          /\ \A r \in Rows : Written(y, r) <=> r \in writer[p].wrote
      BY <2>2 DEF JobInv, Serving
    <3>2. caller'[y].answer = "killed" /\ caller'[y].kind = caller[y].kind
      BY <1>4, <2>2
    <3>. QED  BY <1>5, <2>2, <3>1, <3>2 DEF Lost
  <2>3. CASE Stopped(y) /\ ~(Serves(p) /\ y = Served(p))
    <3>1. y[1] = p /\ y = <<p, y[2]>> /\ y[2] \in Callers(p) /\ caller[y].answer = Waiting
      BY <2>3, CallersArePairs DEF Stopped
    <3>2. PICK i \in 1 .. Len(queue[p]) : queue[p][i] = y[2]
      BY <2>3, <3>1 DEF JobInv, Owed, Served
    <3>3. \A r \in Rows : ~Written(y, r)
      BY <3>1, <3>2 DEF JobInv, Queued
    <3>4. caller'[y].answer = "killed"
      BY <1>4, <2>3
    <3>. QED  BY <1>5, <3>3, <3>4
  <2>. QED  BY <2>1, <2>2, <2>3
<1>. QED  BY <1>7, <1>8, <1>9, <1>10, <1>11, <1>12, <1>13, <1>14 DEF JobInv

-----------------------------------------------------------------------------
LEMMA FileInvAtFirst ==
  ASSUME FileAssumption, LibInit
  PROVE FileInv
<1>. USE DEF LibInit, FileInv
<1>1. FileTypes
  <2>1. \A p \in Processes : queue[p] \in Seq(Callers(p))
    OBVIOUS
  <2>2. NoCall \in Calls
    BY DEF NoCall, Calls, Kinds
  <2>3. version \in Versions /\ schema \in [1 .. SchemaVersion -> Nat]
    OBVIOUS
  <2>. QED  BY <2>1, <2>2, <2>3 DEF FileTypes
<1>2. SchemaInv
  BY DEF SchemaInv, VersionIsSchema, Phases, Serves
<1>3. \A p \in Processes : ~Serves(p) /\ queue[p] = <<>>
  BY DEF Serves
<1>4. Len(<<>>) = 0 /\ 1 .. 0 = {}
  OBVIOUS
<1>5. \A x \in Callings : caller[x].answer = "none"
  BY DEF NoCall
<1>6. Queued /\ Serving /\ Kept
  BY <1>3, <1>4 DEF Queued, Serving, Kept
<1>7. Owed
  <2>1. \A p \in Processes : \A c \in Callers(p) : caller[<<p, c>>].answer = "none"
    BY <1>5, CallersArePairs
  <2>. QED  BY <2>1 DEF Owed, Waiting
<1>8. Past
  BY DEF Past
<1>9. Told
  BY <1>5 DEF Told
<1>. QED  BY <1>1, <1>2, <1>6, <1>7, <1>8, <1>9 DEF JobInv

LEMMA FileInvStays ==
  ASSUME FileAssumption, FileInv, [LibNext]_libVars
  PROVE FileInv'
<1>1. CASE UNCHANGED libVars
  <2>1. JobInv'
    BY <1>1, JobsUntouched DEF libVars, FileInv
  <2>2. FileTypes'
    BY <1>1 DEF libVars, FileInv, FileTypes, Jobs
  <2>3. SchemaInv'
    BY <1>1 DEF libVars, FileInv, SchemaInv, VersionIsSchema, Phases, Serves
  <2>. QED  BY <2>1, <2>2, <2>3 DEF FileInv
<1>2. ASSUME NEW p \in Processes,
             \/ Open(p) \/ Migrate(p) \/ CheckReferences(p)
             \/ (\E c \in Callers(p) : Write(p, c)) \/ TakeJob(p) \/ Statement(p)
             \/ Commit(p) \/ JobDone(p) \/ JobPanics(p) \/ Close(p) \/ Kill(p)
      PROVE FileInv'
  <2>1. CASE Open(p)
    BY <2>1, OpenKeeps
  <2>2. CASE Migrate(p)
    BY <2>2, MigrateKeeps
  <2>3. CASE CheckReferences(p)
    BY <2>3, CheckReferencesKeeps
  <2>4. CASE \E c \in Callers(p) : Write(p, c)
    BY <2>4, WriteKeeps
  <2>5. CASE TakeJob(p)
    BY <2>5, TakeJobKeeps
  <2>6. CASE Statement(p)
    BY <2>6, StatementKeeps
  <2>7. CASE Commit(p)
    BY <2>7, CommitKeeps
  <2>8. CASE JobDone(p)
    BY <2>8, JobDoneKeeps
  <2>9. CASE JobPanics(p)
    BY <2>9, JobPanicsKeeps
  <2>10. CASE Close(p)
    BY <2>10, CloseKeeps
  <2>11. CASE Kill(p)
    BY <2>11, KillKeeps
  <2>. QED  BY <1>2, <2>1, <2>2, <2>3, <2>4, <2>5, <2>6, <2>7, <2>8, <2>9, <2>10, <2>11
<1>. QED  BY <1>1, <1>2 DEF LibNext

\* Whatever processes open the file, migrate it, write to it and are killed, the invariant of
\* its schema and of the jobs holds (db.rs).
THEOREM FileInvariant ==
  ASSUME FileAssumption
  PROVE LibSpec => []FileInv
<1>1. LibInit => FileInv
  BY FileInvAtFirst
<1>2. FileInv /\ [LibNext]_libVars => FileInv'
  BY FileInvStays
<1>. QED  BY <1>1, <1>2, PTL DEF LibSpec

\* What the invariant says of the types, the schema, the jobs and who waits.
LEMMA FileInvHolds ==
  ASSUME FileAssumption, FileInv
  PROVE LibTypeOK /\ VersionIsSchema /\ OnlyCurrentIsWritten /\ AnswersAreTrue /\ Owed
<1>1. LibTypeOK
  BY DEF FileInv, FileTypes, JobInv, Kept, Serves, LibTypeOK
<1>2. OnlyCurrentIsWritten
  BY DEF FileInv, SchemaInv, Phases, Serves, OnlyCurrentIsWritten
<1>3. AnswersAreTrue
  <2>. SUFFICES ASSUME NEW x \in Callings
                PROVE LET mine == RowsOf(x[1], x[2])
                      IN /\ caller[x].answer = "ok" => mine \subseteq rows
                         /\ caller[x].answer \in {"panicked", "killed"} /\ caller[x].kind = "transaction"
                              => mine \subseteq rows \/ mine \cap rows = {}
    BY DEF AnswersAreTrue
  <2>1. RowsOf(x[1], x[2]) = {<<x[1], x[2], caller[x].sent, r>> : r \in Rows}
    BY CallersArePairs DEF RowsOf
  <2>. QED  BY <2>1 DEF FileInv, JobInv, Told, Written
<1>. QED  BY <1>1, <1>2, <1>3 DEF FileInv, SchemaInv, JobInv

\* The model's types, and a transaction's rows are taken back over rows that are there.
THEOREM FileIsTyped ==
  ASSUME FileAssumption
  PROVE LibSpec => []LibTypeOK
BY FileInvariant, FileInvHolds, PTL

\* Two programs may race to migrate one file and be killed between its transactions: the
\* version says which migrations took effect, each of them once (db.rs, migrate).
THEOREM MigrationsRunOnce ==
  ASSUME FileAssumption
  PROVE LibSpec => []VersionIsSchema
BY FileInvariant, FileInvHolds, PTL

\* No job runs on a file that is newer than the program or that is still being migrated,
\* by this process or by another (db.rs, Store::open).
THEOREM WritersAreCurrent ==
  ASSUME FileAssumption
  PROVE LibSpec => []OnlyCurrentIsWritten
BY FileInvariant, FileInvHolds, PTL

\* A caller told that its job was done finds all of it, and one whose transaction panicked or
\* was killed finds all of it or nothing, whoever else wrote meanwhile (db.rs, Store::write).
THEOREM AnswersStayTrue ==
  ASSUME FileAssumption
  PROVE LibSpec => []AnswersAreTrue
BY FileInvariant, FileInvHolds, PTL

\* Whoever waits for an answer is queued or being served, so that nobody waits for one that
\* will not be given (db.rs, Store::write).
THEOREM WaitersAreOwed ==
  ASSUME FileAssumption
  PROVE LibSpec => []Owed
BY FileInvariant, FileInvHolds, PTL

============================================================================
