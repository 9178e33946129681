----------------------------- MODULE Definition -----------------------------
(***************************************************************************)
(* A pipeline as it is written (crates/sp-proc: pipeline.rs, param.rs,     *)
(* registry.rs, and the ports of stage.rs and frame.rs): stages of kinds a *)
(* registry knows, with parameters held to what a kind declares; validate  *)
(* says whether it would run, hash names what it would compute, to_rows    *)
(* and from_rows keep it in the library.  A validated pipeline is walked   *)
(* stage by stage, each reading the artifacts it needs off the frame.      *)
(*                                                                         *)
(* Values are tagged tuples, a parameter set is a function on some names,  *)
(* and {} or {v} stands for an optional value.                             *)
(***************************************************************************)
EXTENDS Integers, Sequences, FiniteSets

CONSTANTS Kinds, Descriptor,    \* what may be registered, and as what: version, inputs, outputs, params
          Values,               \* what check boxes and lists offer
          Typed,                \* what a box may hold: [int, float, text], what it reads as, if it does
          Expressions,          \* assertions: [good, enabled]
          MaxStages

VARIABLES registry,     \* kinds registered so far
          stages,       \* Seq of [kind, params, enabled]; labels and retention change nothing here
          assertions,   \* {} or {expression}: one is enough
          box,          \* the box last typed in, as it still stands: {} or {[at, name, raw]}
          rows,         \* what the library holds of the pipeline: {} or {[stages, assertions]}
          at,           \* stage being run, 0 while editing
          ports,        \* artifacts on the frame: [name, kind, by]
          starved       \* a stage did not find what it needs
defVars == <<registry, stages, box, assertions, rows, at, ports, starved>>

----------------------------------------------------------------------------
\* Parameters: ParamSpec::check, validate, resolved.
NumberKinds == {"float", "freq", "duration"}
InRange(spec, n) == /\ \A m \in spec.min : n >= m
                    /\ \A m \in spec.max : n <= m
Check(spec, v) ==
  CASE spec.kind \in NumberKinds -> v[1] \in {"int", "float"} /\ InRange(spec, v[2])
    [] spec.kind = "int" -> v[1] = "int" /\ InRange(spec, v[2])
    [] spec.kind = "bool" -> v[1] = "bool"
    [] spec.kind = "text" -> v[1] = "text"
    [] spec.kind = "enum" -> v[1] = "text" /\ v[2] \in spec.variants
ValidParams(params, specs) ==
  /\ \A n \in DOMAIN params : \E spec \in specs : spec.name = n /\ Check(spec, params[n])
  /\ \A spec \in specs : spec.default = {} => spec.name \in DOMAIN params
SlipResolved(params, specs) == params
Resolved(params, specs) ==
  LET defaulted == {spec \in specs : spec.default # {} /\ spec.name \notin DOMAIN params}
  IN [n \in DOMAIN params \cup {spec.name : spec \in defaulted} |->
       IF n \in DOMAIN params THEN params[n]
       ELSE CHOOSE v \in (CHOOSE spec \in defaulted : spec.name = n).default : TRUE]

----------------------------------------------------------------------------
\* Ports: PortKind::accepts.
Signals == <<"signals", "">>
Accepts(want, have) ==
  \/ want[1] = "any" \/ have[1] = "any"
  \/ /\ want[1] = "signals" /\ have[1] = "signals"
     /\ want[2] = "" \/ have[2] = "" \/ want[2] = have[2]
  \/ want[1] = "artifact" /\ want = have
Enabled(p) == {i \in DOMAIN p : p[i].enabled}
Upstream(p, i) == {j \in Enabled(p) : j < i}
Produced(p, i) == {Signals} \cup UNION {{port.kind : port \in Descriptor[p[j].kind].outputs} :
                                         j \in {k \in Upstream(p, i) : p[k].kind \in registry}}
Unsatisfied(p, i) == {port \in Descriptor[p[i].kind].inputs :
                       port.required /\ ~\E have \in Produced(p, i) : Accepts(port.kind, have)}
BadParams(p) == {i \in Enabled(p) : /\ p[i].kind \in registry
                                   /\ ~ValidParams(p[i].params, Descriptor[p[i].kind].params)}
Issues(p, written) ==
  {<<"unknown", i>> : i \in {j \in Enabled(p) : p[j].kind \notin registry}}
  \cup {<<"params", i>> : i \in BadParams(p)}
  \cup {<<"port", i>> : i \in {j \in Enabled(p) : p[j].kind \in registry /\ Unsatisfied(p, j) # {}}}
  \cup {<<"assertion", 0>> : e \in {x \in written : x.enabled /\ ~x.good}}
Validate(p, written) == Enabled(p) # {} /\ Issues(p, written) = {}

\* hash: kind, version and resolved parameters of each enabled stage, in order.
OfStage(s) == <<s.kind, Descriptor[s.kind].version, Resolved(s.params, Descriptor[s.kind].params)>>
Rank(p, i) == Cardinality({j \in Enabled(p) : j <= i})
Nth(p, n) == CHOOSE i \in Enabled(p) : Rank(p, i) = n
Hash(p) == [n \in 1 .. Cardinality(Enabled(p)) |-> OfStage(p[Nth(p, n)])]
Hashes(p) == \A i \in Enabled(p) :
  p[i].kind \in registry /\ ValidParams(p[i].params, Descriptor[p[i].kind].params)

\* to_rows writes the parameters of a stage as one text; from_rows reads the texts back, and
\* fails if one of them, written by another program, is not a set of parameters ({}).
ToRows(p) == [i \in DOMAIN p |-> [kind |-> p[i].kind, json |-> {p[i].params}, enabled |-> p[i].enabled]]
Parses(r) == \A i \in DOMAIN r : r[i].json # {}
FromRows(r) == [i \in DOMAIN r |-> [kind |-> r[i].kind, params |-> CHOOSE x \in r[i].json : TRUE,
                                    enabled |-> r[i].enabled]]

----------------------------------------------------------------------------
DefInit == /\ registry = {} /\ stages = <<>> /\ assertions = {} /\ rows = {} /\ box = {}
           /\ at = 0 /\ ports = {} /\ starved = FALSE
Consistent(d) == \A part \in {d.inputs, d.outputs, d.params} :
                   \A x, y \in part : x.name = y.name => x = y
\* The registry is complete before the editor opens.
Register(k) ==
  /\ stages = <<>> /\ rows = {} /\ at = 0 /\ k \notin registry /\ Consistent(Descriptor[k]) /\ registry' = registry \cup {k}
  /\ UNCHANGED <<stages, box, assertions, rows, at, ports, starved>>
Edited(p) == /\ at = 0 /\ stages' = p /\ box' = {}    \* selecting drops what was typed
             /\ UNCHANGED <<registry, assertions, rows, at, ports, starved>>
AddStage(k) ==
  /\ Len(stages) < MaxStages
  /\ Edited(Append(stages, [kind |-> k, params |-> <<>>, enabled |-> TRUE]))
RemoveStage(i) == Edited(SubSeq(stages, 1, i - 1) \o SubSeq(stages, i + 1, Len(stages)))
MoveStage(i) == /\ i + 1 \in DOMAIN stages
                /\ Edited([stages EXCEPT ![i] = stages[i + 1], ![i + 1] = stages[i]])
ToggleStage(i) == /\ at = 0 /\ stages' = [stages EXCEPT ![i].enabled = ~@]
                  /\ UNCHANGED <<registry, box, assertions, rows, at, ports, starved>>
With(params, n, v) == [m \in DOMAIN params \cup {n} |-> IF m = n THEN v ELSE params[m]]
Names(i) == {spec.name : spec \in Descriptor[stages[i].kind].params}
SetParam(i, n, v) == Edited([stages EXCEPT ![i].params = With(@, n, v)])
\* set_param_text: a typed box is read as a whole number or as a number, or not taken.
Boxed == {"int", "text"} \cup NumberKinds
SpecOf(i, n) == CHOOSE spec \in Descriptor[stages[i].kind].params : spec.name = n
Read(spec, raw) == IF spec.kind = "int" THEN {<<"int", x>> : x \in raw.int}
                   ELSE {<<"float", x>> : x \in raw.float}
TypeParam(i, n, raw) ==
  /\ at = 0 /\ stages[i].kind \in registry /\ SpecOf(i, n).kind \in Boxed
  /\ box' = {[at |-> i, name |-> n, raw |-> raw]}
  /\ \/ \E v \in Read(SpecOf(i, n), raw) : stages' = [stages EXCEPT ![i].params = With(@, n, v)]
     \/ Read(SpecOf(i, n), raw) = {} /\ UNCHANGED stages
  /\ UNCHANGED <<registry, assertions, rows, at, ports, starved>>
\* An emptied box means the default, which is the parameter being absent.
ClearParam(i, n) == Edited([stages EXCEPT ![i].params = [m \in DOMAIN @ \ {n} |-> @[m]]])
Assert(e) == /\ at = 0 /\ assertions' = e
             /\ UNCHANGED <<registry, stages, box, rows, at, ports, starved>>
Save == /\ at = 0 /\ rows' = {[stages |-> ToRows(stages), assertions |-> assertions]}
        /\ UNCHANGED <<registry, stages, box, assertions, at, ports, starved>>
Load == \E r \in rows :
  /\ at = 0
  /\ IF Parses(r.stages)
     THEN stages' = FromRows(r.stages) /\ assertions' = r.assertions /\ box' = {}
     ELSE UNCHANGED <<stages, assertions, box>>
  /\ UNCHANGED <<registry, rows, at, ports, starved>>
\* Another program writes to the library, over the text of one stage.
Spoilt(s) == [kind |-> s.kind, json |-> {}, enabled |-> s.enabled]
WriteOver == \E r \in rows : \E i \in DOMAIN r.stages :
  /\ at = 0 /\ Parses(r.stages)
  /\ rows' = {[stages |-> [r.stages EXCEPT ![i] = Spoilt(@)], assertions |-> r.assertions]}
  /\ UNCHANGED <<registry, stages, box, assertions, at, ports, starved>>

\* latest_of_kind, and a run over one group: publishing to a name that is taken replaces it.
Found(kind) == kind[1] # "artifact" \/ \E x \in ports : x.kind = kind
Start == /\ at = 0 /\ Validate(stages, assertions) /\ at' = 1 /\ ports' = {} /\ starved' = FALSE
         /\ UNCHANGED <<registry, stages, box, assertions, rows>>
Process ==
  /\ at \in DOMAIN stages /\ at' = at + 1
  /\ \/ /\ ~stages[at].enabled /\ UNCHANGED <<ports, starved>>
     \/ /\ stages[at].enabled
        /\ \E port \in Descriptor[stages[at].kind].inputs : port.required /\ ~Found(port.kind)
        /\ starved' = TRUE /\ UNCHANGED ports
     \/ /\ stages[at].enabled
        /\ \A port \in Descriptor[stages[at].kind].inputs : port.required => Found(port.kind)
        /\ \E given \in SUBSET {port \in Descriptor[stages[at].kind].outputs :
                                  port.kind[1] = "artifact"} :
             /\ \A port \in Descriptor[stages[at].kind].outputs \ given :
                  port.required => port.kind[1] # "artifact"
             /\ ports' = {x \in ports : \A port \in given : port.name # x.name}
                         \cup {[name |-> port.name, kind |-> port.kind, by |-> at] : port \in given}
        /\ UNCHANGED starved
  /\ UNCHANGED <<registry, stages, box, assertions, rows>>
Stop == /\ at > Len(stages) /\ at' = 0 /\ ports' = {} /\ starved' = FALSE
        /\ UNCHANGED <<registry, stages, box, assertions, rows>>

DefNext ==
  \/ \E k \in Kinds : Register(k) \/ AddStage(k)
  \/ \E i \in DOMAIN stages :
       \/ RemoveStage(i) \/ MoveStage(i) \/ ToggleStage(i)
       \/ \E n \in Names(i) : \/ ClearParam(i, n)
                            \/ \E raw \in Typed : TypeParam(i, n, raw)
                            \/ \E v \in Values : SpecOf(i, n).kind \notin Boxed /\ SetParam(i, n, v)
  \/ \E e \in Expressions : Assert({e})
  \/ Save \/ Load \/ WriteOver \/ Start \/ Process \/ Stop
DefSpec == DefInit /\ [][DefNext]_defVars

----------------------------------------------------------------------------
\* Types: a position in the pipeline, rows the editor wrote, artifacts of stages already run.
DefTypeOK == /\ registry \subseteq Kinds /\ Len(stages) <= MaxStages /\ at \in 0 .. MaxStages + 1
             /\ \A x \in ports : x.by < at /\ stages[x.by].enabled

\* A pipeline validate lets through finds what each stage needs on the frame, if no output port is
\* optional and none is named like one of another kind.
PortsArrive == ~starved

\* One that validates can be hashed, and so can be run at all.
ValidatedHashes == Validate(stages, assertions) => Hashes(stages)

Told(s, spec) == IF spec.name \in DOMAIN s.params THEN {s.params[spec.name]} ELSE spec.default
Alike(p, q) == /\ Cardinality(Enabled(p)) = Cardinality(Enabled(q))
               /\ \A i \in Enabled(p), j \in Enabled(q) : Rank(p, i) = Rank(q, j) =>
                    /\ p[i].kind = q[j].kind
                    /\ \A x \in Descriptor[p[i].kind].params : Told(p[i], x) = Told(q[j], x)

\* The hash is the same exactly for pipelines that compute the same: the same kinds at work in the
\* same order, told the same of every parameter, whether written out or left to its default.
HashIsWork == \A r \in rows : Parses(r.stages) =>
  LET loaded == FromRows(r.stages)
  IN Hashes(stages) /\ Hashes(loaded) => (Hash(stages) = Hash(loaded) <=> Alike(stages, loaded))

Meant(spec, raw) == CASE spec.kind = "int" -> {<<"int", x>> : x \in raw.int}
                      [] spec.kind = "text" -> {<<"text", x>> : x \in raw.text}
                      [] OTHER -> {<<"float", x>> : x \in raw.float}

\* What is typed in a box, and can be read as what the parameter is, is what the stage is told.
TypedIsTaken ==
  \A b \in box : \A v \in Meant(SpecOf(b.at, b.name), b.raw) :
    b.name \in DOMAIN stages[b.at].params /\ stages[b.at].params[b.name] = v

=============================================================================
