--------------------------- MODULE ExternalStage ---------------------------
(****************************************************************************)
(* Stages of a native library: the file is hashed and loaded, and instances   *)
(* on several threads call into it, each with its handle, under the lock of a  *)
(* library that did not call itself thread-safe.  A call takes time: it is     *)
(* entered and left.                                                           *)
(****************************************************************************)
EXTENDS Integers, Sequences, FiniteSets

CONSTANTS Instances,    \* stages of the library, each on a thread of its own
          IsExclusive,  \* whether the library is called one call at a time
          Outputs,      \* [codes, returned]: what a library may hand back
          Inputs,       \* signals in a group
          MaxHandles,   \* bound: handles ever opened
          MaxBuilds     \* bound: builds of the file

VARIABLES disk,         \* the build in the file
          hashed,       \* the build whose bytes were hashed, 0 before
          library,      \* the build that is loaded, 0 before
          held,         \* the handle each instance has, 0 for null
          calls,        \* what each instance has yet to call: [call, on]
          inside,       \* the instances in the middle of the first of their calls
          lock,         \* who has the library's lock
          live,         \* the handles the library has open
          unfreed,      \* the handles with an output the library still owns
          opened,       \* handles ever opened
          taken         \* what was last read of each instance's outputs

extVars == <<disk, hashed, library, held, calls, inside, lock, live, unfreed, opened, taken>>
fileVars == <<disk, hashed, library>>

Refused == <<>>
Nothing == [out |-> Refused, of |-> <<>>]

-----------------------------------------------------------------------------
Recompile ==
  /\ disk < MaxBuilds /\ disk' = disk + 1
  /\ UNCHANGED <<hashed, library, held, calls, inside, lock, live, unfreed, opened, taken>>

\* ExtLibrary::open: the file is hashed, and then loaded.
HashFile ==
  /\ hashed = 0 /\ hashed' = disk
  /\ UNCHANGED <<disk, library, held, calls, inside, lock, live, unfreed, opened, taken>>

\* from_source: a symbol missing, another ABI or a descriptor that is not one refuses it.
OpenLibrary(ok) ==
  /\ hashed # 0 /\ library = 0
  /\ library' = IF ok THEN disk ELSE 0
  /\ hashed' = IF ok THEN hashed ELSE 0
  /\ UNCHANGED <<disk, held, calls, inside, lock, live, unfreed, opened, taken>>

-----------------------------------------------------------------------------
Idle(s) == library # 0 /\ calls[s] = <<>>
Asks(s, todo) ==
  /\ calls' = [calls EXCEPT ![s] = todo]
  /\ UNCHANGED <<fileVars, inside, lock, live, unfreed, opened, taken>>

Closing(s) == IF held[s] = 0 THEN <<>> ELSE <<[call |-> "close", on |-> held[s]]>>

\* configure: the handle there was is closed, and another asked for.
Configure(s) ==
  /\ Idle(s) /\ opened < MaxHandles
  /\ held' = [held EXCEPT ![s] = 0]
  /\ Asks(s, Closing(s) \o <<[call |-> "open", on |-> 0]>>)

\* begin_run, process and end_run need a handle.
Use(s, call) == Idle(s) /\ held[s] # 0 /\ Asks(s, <<[call |-> call, on |-> held[s]]>>) /\ UNCHANGED held

\* drop
Drop(s) ==
  /\ Idle(s) /\ held[s] # 0
  /\ held' = [held EXCEPT ![s] = 0]
  /\ Asks(s, Closing(s))

\* The calls made while the lock is held.
Locked(call) == call \in {"open", "begin_run", "process", "end_run"}

SlipMayEnter(call) == TRUE

MayEnter(call) == IsExclusive /\ Locked(call) => lock = {}

Enter(s) ==
  /\ calls[s] # <<>> /\ s \notin inside /\ MayEnter(calls[s][1].call)
  /\ inside' = inside \cup {s}
  /\ lock' = IF IsExclusive /\ Locked(calls[s][1].call) THEN lock \cup {s} ELSE lock
  /\ UNCHANGED <<fileVars, held, calls, live, unfreed, opened, taken>>

Left(s, todo) ==
  /\ inside' = inside \ {s}
  /\ lock' = lock \ {s}
  /\ calls' = [calls EXCEPT ![s] = todo]
  /\ UNCHANGED fileVars

In(s, call) == s \in inside /\ calls[s][1].call = call

\* The library opens a handle, or refuses the parameters.
Opened(s, ok) ==
  /\ In(s, "open") /\ Left(s, Tail(calls[s]))
  /\ opened' = IF ok THEN opened + 1 ELSE opened
  /\ held' = IF ok THEN [held EXCEPT ![s] = opened + 1] ELSE held
  /\ live' = IF ok THEN live \cup {opened + 1} ELSE live
  /\ UNCHANGED <<unfreed, taken>>

Begun(s) == In(s, "begin_run") /\ Left(s, Tail(calls[s])) /\ UNCHANGED <<held, live, unfreed, opened, taken>>

-----------------------------------------------------------------------------
Positions(codes, code) == {i \in DOMAIN codes : codes[i] = code}
Before(set, i) == Cardinality({j \in set : j < i})

\* read_output: refused, or what becomes of every input and then what is added:
\* [code, from] with 0 replaced, 1 kept, 2 dropped, 3 added, from the buffer returned.
Read(output, inputs) ==
  LET replaced == Positions(output.codes, 0)
  IN  IF Len(output.codes) # inputs \/ (\E i \in DOMAIN output.codes : output.codes[i] \notin 0..2)
         \/ output.returned < Cardinality(replaced)
      THEN Refused
      ELSE [i \in 1..inputs |-> [code |-> output.codes[i], from |-> IF i \in replaced THEN Before(replaced, i) + 1 ELSE 0]]
           \o [i \in 1..(output.returned - Cardinality(replaced)) |-> [code |-> 3, from |-> Cardinality(replaced) + i]]

\* take_output: the output is freed whether or not it could be read.
After(s, output, inputs) == <<[call |-> "free_output", on |-> calls[s][1].on]>>

\* process and end_run: an error leaves no output, success one to be read and freed.
Failed(s) ==
  /\ s \in inside /\ calls[s][1].call \in {"process", "end_run"}
  /\ Left(s, Tail(calls[s])) /\ UNCHANGED <<held, live, unfreed, opened, taken>>
Worked(s, call, output, inputs) ==
  /\ In(s, call) /\ Left(s, After(s, output, inputs))
  /\ unfreed' = unfreed \cup {calls[s][1].on}
  /\ taken' = [taken EXCEPT ![s] = [out |-> Read(output, inputs), of |-> IF call = "process" THEN <<output>> ELSE <<>>]]
  /\ UNCHANGED <<held, live, opened>>

Freed(s) ==
  /\ In(s, "free_output") /\ Left(s, Tail(calls[s]))
  /\ unfreed' = unfreed \ {calls[s][1].on}
  /\ UNCHANGED <<held, live, opened, taken>>

Closed(s) ==
  /\ In(s, "close") /\ Left(s, Tail(calls[s]))
  /\ live' = live \ {calls[s][1].on}
  /\ UNCHANGED <<held, unfreed, opened, taken>>

ExtInit ==
  /\ disk = 1 /\ hashed = 0 /\ library = 0
  /\ held = [s \in Instances |-> 0] /\ calls = [s \in Instances |-> <<>>] /\ inside = {} /\ lock = {}
  /\ live = {} /\ unfreed = {} /\ opened = 0 /\ taken = [s \in Instances |-> Nothing]

Stage(s) ==
  \/ Configure(s) \/ Drop(s) \/ Enter(s) \/ Begun(s) \/ Failed(s) \/ Freed(s) \/ Closed(s)
  \/ \E call \in {"begin_run", "process", "end_run"} : Use(s, call)
  \/ \E ok \in BOOLEAN : Opened(s, ok)
  \/ \E o \in Outputs : Worked(s, "process", o, Inputs) \/ Worked(s, "end_run", o, 0)
ExtNext == Recompile \/ HashFile \/ (\E ok \in BOOLEAN : OpenLibrary(ok)) \/ (\E s \in Instances : Stage(s))

ExtSpec == ExtInit /\ [][ExtNext]_extVars

-----------------------------------------------------------------------------
\* Each input is accounted for in order, each replaced one by its own buffer, each
\* buffer used once and the ones left over added in the order returned.
BuffersGoHome ==
  \A s \in Instances : taken[s].of # <<>> /\ taken[s].out # Refused =>
    LET out == taken[s].out  used == SelectSeq(out, LAMBDA o : o.from # 0)
    IN  /\ \A i \in 1..Inputs : out[i].code = taken[s].of[1].codes[i]
        /\ \A i \in DOMAIN used : used[i].from = i
        /\ Len(used) = taken[s].of[1].returned

\* The calls that work on groups never overlap in a library that asked for one at a
\* time (sp-ext library.rs, the guard around each call).
WorkIsExclusive ==
  IsExclusive => Cardinality({s \in inside : Locked(calls[s][1].call)}) <= 1

\* Every call is on a handle the library has open, that no other instance is using, and
\* a handle is closed with no output of it left to free.
CallsAreOnLiveHandles ==
  \A s \in inside : calls[s][1].call # "open" =>
    /\ calls[s][1].on \in live
    /\ \A r \in inside \ {s} : calls[r][1].on # calls[s][1].on
    /\ calls[s][1].call = "close" => calls[s][1].on \notin unfreed

\* No handle is forgotten: an open one is held by an instance or about to be closed.
NoHandleIsLost ==
  \A h \in live : \E s \in Instances : held[s] = h \/ \E i \in DOMAIN calls[s] : calls[s][i] = [call |-> "close", on |-> h]

\* Whatever the instances on their threads ask for, and whichever call fails: work
\* excludes work in a library that asked for it, every call is on a handle that is
\* open and nobody else's, with its output freed before it is closed, and no open
\* handle is forgotten (stage.rs, library.rs).
HandlesAreSound == WorkIsExclusive /\ CallsAreOnLiveHandles /\ NoHandleIsLost

\* "Taken around every call into a library that did not declare itself thread-safe."
CallsAreExclusive == IsExclusive => Cardinality(inside) <= 1

=============================================================================
