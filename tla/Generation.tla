----------------------------- MODULE Generation -----------------------------
(****************************************************************************)
(* Generating into the library: the screen starts a job with the request on  *)
(* it, the store's one writer runs it as one transaction, rung by rung, and  *)
(* the cancel flag is read before each rung and before the commit.  Sweep    *)
(* values are in halves, so that a whole-numbered parameter has to round.     *)
(****************************************************************************)
EXTENDS Integers, Sequences, FiniteSets

CONSTANTS Requests,    \* what the screen may hold when Start is pressed
          MaxRungs,    \* MAX_RUNGS
          MaxJobs      \* bound: jobs started in a behaviour

VARIABLES job, shown, completed,      \* the screen: the job it holds, its progress, work done
          queue, tx, cancel, progress, \* the writer's jobs, the one it runs, and what is shared
          answers,                    \* Generated messages on their way
          library, defs               \* committed datasets and declared properties

screen == <<job, shown, completed>>
writer == <<queue, tx>>
genVars == <<screen, writer, cancel, progress, answers, library, defs>>

\* A sweep is a range of numbers or a list of them, or there is none.
GenerationAssumption ==
  /\ MaxRungs \in Nat /\ MaxJobs \in Nat
  /\ \A r \in Requests :
       /\ r.ladder \in BOOLEAN /\ r.sweep.kind \in {"none", "groups", "range", "list"}
       /\ r.sweep.kind = "range" => {r.sweep.start, r.sweep.stop, r.sweep.step} \subseteq Int
       /\ r.sweep.kind \in {"list", "groups"} => r.sweep.values \in Seq(Int)

Idle == [job |-> 0]
Jobs == 1..MaxJobs
Started == Cardinality({j \in Jobs : cancel[j] # "unused"})

-----------------------------------------------------------------------------
\* The values of a sweep: one for a plain request, "error" as the empty sequence.
AbsOf(x) == IF x < 0 THEN -x ELSE x
Sign(x) == IF x < 0 THEN -1 ELSE 1

Range(start, stop, step) ==
  IF step = 0 \/ (Sign(stop - start) # Sign(step) /\ stop # start) THEN <<>>
  ELSE LET n == AbsOf(stop - start) \div AbsOf(step) + 1
       IN  IF n > MaxRungs THEN <<>> ELSE [i \in 1..n |-> start + step * (i - 1)]

ValuesOf(sweep) ==
  CASE sweep.kind = "none"  -> <<sweep.at>>
    [] sweep.kind = "groups" -> sweep.values           \* a train's groups
    [] sweep.kind = "range" -> Range(sweep.start, sweep.stop, sweep.step)
    [] sweep.kind = "list"  -> IF Len(sweep.values) > MaxRungs THEN <<>> ELSE sweep.values

\* apply: a whole-numbered parameter takes the value rounded, half away from zero.
Rounded(v) == 2 * (Sign(v) * ((AbsOf(v) + 1) \div 2))
Swept(request) == request.sweep.kind \in {"range", "list"}
Applied(request, v) == IF request.integral /\ Swept(request) THEN Rounded(v) ELSE v

\* validate and validate_train, as far as they look at the parameter.
Blocks(p) == p <= 0
Rungs(request) == ValuesOf(request.sweep)
Ladder(request) == Swept(request) /\ request.ladder
Train(request) == request.sweep.kind = "groups"

-----------------------------------------------------------------------------
\* start and start_train.  The button asks for no job, the key does not.
Start(request) ==
  /\ Started < MaxJobs
  /\ ~Blocks(request.sweep.at) /\ (~Train(request) => Rungs(request) # <<>>)
  /\ LET j == Started + 1
     IN  /\ job' = j /\ shown' = 0
         /\ cancel' = [cancel EXCEPT ![j] = "clear"]
         /\ queue' = Append(queue, [job |-> j, request |-> request])
  /\ UNCHANGED <<completed, tx, progress, answers, library, defs>>

Tick == job # 0 /\ shown # progress[job] /\ shown' = progress[job]
        /\ UNCHANGED <<job, completed, writer, cancel, progress, answers, library, defs>>

Cancel ==
  /\ job # 0 /\ cancel' = [cancel EXCEPT ![job] = "set"]
  /\ UNCHANGED <<screen, writer, progress, answers, library, defs>>

Generated(answer) ==
  /\ answer \in answers /\ answers' = answers \ {answer}
  /\ job' = 0
  /\ completed' = (completed \/ answer.ok)
  /\ UNCHANGED <<shown, writer, cancel, progress, library, defs>>

\* take_completed, by the application after any message of the screen.
TakeCompleted ==
  /\ completed /\ completed' = FALSE
  /\ UNCHANGED <<job, shown, writer, cancel, progress, answers, library, defs>>

-----------------------------------------------------------------------------
Answer(j, ok) == answers' = answers \cup {[job |-> j, ok |-> ok]}

\* Expanded, validated and its sources read, before anything is written.
Refused(request) ==
  \/ Rungs(request) = <<>>
  \/ \E i \in DOMAIN Rungs(request) : Blocks(Applied(request, Rungs(request)[i]))
  \/ request.source = "missing" /\ ~Train(request)

\* declare_swept_property: a definition that is there already stays as it is.
Declared(request) ==
  (IF Swept(request) THEN {"signal"} ELSE {}) \cup (IF Ladder(request) THEN {"group"} ELSE {})

Begin ==
  /\ tx = Idle /\ queue # <<>>
  /\ LET head == Head(queue)
     IN  /\ queue' = Tail(queue)
         /\ IF Refused(head.request)
            THEN Answer(head.job, FALSE) /\ tx' = tx
            ELSE /\ UNCHANGED answers
                 /\ tx' = [job |-> head.job, request |-> head.request, checked |-> FALSE,
                           groups |-> IF Ladder(head.request) \/ Train(head.request) THEN <<>> ELSE <<<<>>>>,
                           done |-> 0, defs |-> Declared(head.request)]
  /\ UNCHANGED <<screen, cancel, progress, library, defs>>

\* The transaction is dropped: nothing of it stays.
Rollback == tx' = Idle /\ Answer(tx.job, FALSE) /\ UNCHANGED <<library, defs>>

\* A rung's group, if it has one of its own, and its signal, with the value that was asked for.
Written(value, spec) ==
  LET signal == [value |-> value, param |-> spec]
      own == Ladder(tx.request) \/ Train(tx.request)
  IN  [tx EXCEPT !.done = @ + 1,
                 !.groups = IF own THEN Append(@, <<signal>>) ELSE <<Append(Head(@), signal)>>]

Pending == tx # Idle /\ tx.done < Len(Rungs(tx.request))

\* The check before a rung, and the cancel that is seen while it renders.
Rung ==
  /\ Pending /\ cancel[tx.job] = "clear"
  /\ LET value == Rungs(tx.request)[tx.done + 1]
     IN  tx' = Written(value, Applied(tx.request, value))
  /\ progress' = [progress EXCEPT ![tx.job] = tx.done + 1]
  /\ UNCHANGED <<screen, queue, cancel, answers, library, defs>>

GiveUp ==
  /\ tx # Idle /\ ~tx.checked /\ cancel[tx.job] = "set"
  /\ Rollback /\ UNCHANGED <<screen, queue, cancel, progress>>

\* The store refuses a row, a blob or the commit itself.
StoreFails ==
  /\ tx # Idle /\ Rollback /\ UNCHANGED <<screen, queue, cancel, progress>>

SlipMayCommit == TRUE

\* The last check; what is cancelled from here on commits all the same.
MayCommit == cancel[tx.job] = "clear"

LastCheck ==
  /\ tx # Idle /\ ~Pending /\ ~tx.checked
  /\ MayCommit
  /\ tx' = [tx EXCEPT !.checked = TRUE]
  /\ UNCHANGED <<screen, queue, cancel, progress, answers, library, defs>>

Commit ==
  /\ tx # Idle /\ tx.checked
  /\ library' = library \cup {[job |-> tx.job, request |-> tx.request, groups |-> tx.groups]}
  /\ defs' = defs \cup tx.defs
  /\ tx' = Idle /\ Answer(tx.job, TRUE)
  /\ UNCHANGED <<screen, queue, cancel, progress>>

-----------------------------------------------------------------------------
GenerationInit ==
  /\ job = 0 /\ shown = 0 /\ completed = FALSE
  /\ queue = <<>> /\ tx = Idle
  /\ cancel = [j \in Jobs |-> "unused"] /\ progress = [j \in Jobs |-> 0]
  /\ answers = {} /\ library = {} /\ defs = {}

GenerationNext ==
  \/ (\E r \in Requests : Start(r)) \/ Tick \/ Cancel \/ TakeCompleted
  \/ \E a \in answers : Generated(a)
  \/ Begin \/ Rung \/ GiveUp \/ StoreFails \/ LastCheck \/ Commit

-----------------------------------------------------------------------------
Outstanding(j) == (\E i \in DOMAIN queue : queue[i].job = j) \/ (tx # Idle /\ tx.job = j)
                  \/ \E a \in answers : a.job = j

\* The screen holds the handle of a job only while that job is going or its answer
\* is on its way, and what it shows of it is never ahead of the work.
GenerationTypeOK ==
  /\ job # 0 => Outstanding(job) /\ shown <= progress[job]
  /\ \A j \in Jobs : Outstanding(j) => cancel[j] # "unused"

\* The rungs a range stands for: every value from start towards stop.
Between(sweep) ==
  {v \in (sweep.start..sweep.stop) \cup (sweep.stop..sweep.start) :
     (v - sweep.start) % AbsOf(sweep.step) = 0}

\* A dataset is there whole or not at all: a signal for every rung of its sweep,
\* a group for each rung of a ladder, one group otherwise.
SweepsAreWhole ==
  \A d \in library :
    LET values == [g \in DOMAIN d.groups |-> [s \in DOMAIN d.groups[g] |-> d.groups[g][s].value]]
    IN  /\ d.request.sweep.kind = "range" =>
             UNION {{values[g][s] : s \in DOMAIN values[g]} : g \in DOMAIN values} = Between(d.request.sweep)
        /\ IF Ladder(d.request) THEN \A g \in DOMAIN values : Len(values[g]) = 1
           ELSE Train(d.request) \/ Len(values) = 1

\* The property a rung is charted against is declared where its value is stored.
RungsAreDeclared ==
  \A d \in library : Swept(d.request) => "signal" \in defs /\ (d.request.ladder => "group" \in defs)

\* Nothing is in the library behind an answer that said it failed.
FailedLeavesNothing ==
  \A a \in answers : a.ok <=> \E d \in library : d.job = a.job

\* A job cancelled before its last check commits nothing, then or later.
CancelIsHeeded ==
  \A j \in Jobs :
    cancel[j] = "set" /\ ~(tx # Idle /\ tx.job = j /\ tx.checked) =>
      /\ ~(tx' # Idle /\ tx'.job = j /\ tx'.checked)
      /\ \A d \in library' \ library : d.job # j

=============================================================================
