------------------------------ MODULE Vetting ------------------------------
(***************************************************************************)
(* What decides before a run and after it: the pipeline that is validated, *)
(* the conformance suite a stage has to pass, and the golden run another   *)
(* run is held to (crates/sp-proc: pipeline.rs, conform.rs, regress.rs,    *)
(* compare.rs, assert.rs).  The three do not touch each other: a behaviour *)
(* is of one of them, or of another part of the processing side, and the   *)
(* variables of the rest stay 0.                                           *)
(***************************************************************************)
EXTENDS Integers, Sequences

CONSTANTS Parts,                                                      \* what a behaviour may be of
          Kinds, Descriptor, Values, Typed, Expressions, MaxStages,   \* Definition
          Cases, FirstCase, Judged, Waivable,                             \* Conformance
          Groups, Records, Limits, Amounts                            \* Regression

VARIABLES part,
          registry, stages, assertions, box, rows, pipelinesAt, ports, starved,
          stage, skipped, suitePhase, suiteLeft, suiteCalls, found,
          gateRecorded, limits, gatePhase, gateSeen, gateLeft, dirty, removed

Pipelines == INSTANCE Definition WITH at <- pipelinesAt
Suite == INSTANCE Conformance WITH
  First <- FirstCase, Stages <- Judged, phase <- suitePhase, left <- suiteLeft, calls <- suiteCalls
Gate == INSTANCE Regression WITH
  recorded <- gateRecorded, phase <- gatePhase, seen <- gateSeen, left <- gateLeft

\* The ports of what may be registered: a stage publishes signals and artifacts, none of them
\* optional, and an artifact of one name is always of one kind.  A default is one value.
DescriptorAssumption ==
  /\ MaxStages \in Nat
  /\ \A k \in Kinds :
       /\ \A out \in Descriptor[k].outputs :
            out.kind[1] \in {"signals", "artifact"} /\ (out.kind[1] = "artifact" => out.required)
       /\ \A spec \in Descriptor[k].params :
            spec.default = {} \/ \E v \in spec.default : spec.default = {v}
  /\ \A k, l \in Kinds : \A p \in Descriptor[k].outputs, q \in Descriptor[l].outputs :
       p.kind[1] = "artifact" /\ q.kind[1] = "artifact" /\ p.name = q.name => p.kind = q.kind
ASSUME PortsAgree == DescriptorAssumption

\* A stage answers every group in one of the ways there are.
JudgedAssumption == \A s \in Judged : Suite!StageType(s)
ASSUME JudgedIsTyped == JudgedAssumption

\* A recorded group: signals of different names with their samples, at most one metric and one
\* artifact; tolerances are finite.
RecordType(x) ==
  /\ x \in [status : STRING, metric : SUBSET Int, artifact : SUBSET Seq(Int),
            signals : Seq([name : STRING, samples : Seq(Int), kept : BOOLEAN])]
  /\ \A i, j \in DOMAIN x.signals : x.signals[i].name = x.signals[j].name => i = j
  /\ \A m, n \in x.metric : m = n
  /\ \A a, b \in x.artifact : a = b
RecordsAssumption ==
  /\ \A x \in Records : RecordType(x)
  /\ \A l \in Limits : l.abs \in 0 .. Gate!Inf - 1 /\ l.rel \in Nat /\ l.new \in BOOLEAN
  /\ Amounts \subseteq Int
ASSUME RecordsAreTyped == RecordsAssumption

-----------------------------------------------------------------------------
PipelinesUnused ==
  registry = 0 /\ stages = 0 /\ assertions = 0 /\ box = 0 /\ rows = 0 /\
  pipelinesAt = 0 /\ ports = 0 /\ starved = 0
SuiteUnused ==
  stage = 0 /\ skipped = 0 /\ suitePhase = 0 /\ suiteLeft = 0 /\ suiteCalls = 0 /\
  found = 0
GateUnused ==
  gateRecorded = 0 /\ limits = 0 /\ gatePhase = 0 /\ gateSeen = 0 /\ gateLeft = 0 /\
  dirty = 0 /\ removed = 0
PipelinesVars == <<registry, stages, assertions, box, rows, pipelinesAt, ports,
  starved>>
SuiteVars == <<stage, skipped, suitePhase, suiteLeft, suiteCalls, found>>
GateVars == <<gateRecorded, limits, gatePhase, gateSeen, gateLeft, dirty, removed>>
VettingVars == <<part, PipelinesVars, SuiteVars, GateVars>>

VettingInit ==
  /\ part \in Parts
  /\ IF part = "definition" THEN Pipelines!DefInit ELSE PipelinesUnused
  /\ IF part = "conformance" THEN Suite!ConInit ELSE SuiteUnused
  /\ IF part = "regression" THEN Gate!RegInit ELSE GateUnused
VettingNext ==
  /\ UNCHANGED part
  /\ IF part = "definition" THEN Pipelines!DefNext ELSE UNCHANGED PipelinesVars
  /\ IF part = "conformance" THEN Suite!ConNext ELSE UNCHANGED SuiteVars
  /\ IF part = "regression" THEN Gate!RegNext ELSE UNCHANGED GateVars
VettingSpec == VettingInit /\ [][VettingNext]_VettingVars

-----------------------------------------------------------------------------
\* A pipeline validate lets through can be hashed, and each of its stages finds on
\* the frame what it needs, if no output port is optional and none is named like one
\* of another kind.  Its hash is that of the pipelines that compute the same and of
\* no other, whether a parameter is written out or left to its default (pipeline.rs
\* validate, hash; registry.rs; frame.rs).
ValidatedRuns ==
  part = "definition" => /\ Pipelines!DefTypeOK /\ Pipelines!PortsArrive
                         /\ Pipelines!ValidatedHashes /\ Pipelines!HashIsWork

\* A pass is earned.  A stage the conformance kit finds nothing against, with nothing
\* waived, never panicked, accounted for its signals and ports, stopped when it was
\* cancelled and repeated itself; a check that passes against a golden run missed no
\* group, status, sample, metric or field, nor a recorded group whose rows went before
\* it was compared; an assertion passes only of what was recorded.  And passes are
\* given: to a stage that keeps its promises, and to a run that recorded what the
\* golden run did
\* (conform.rs, regress.rs, compare.rs, assert.rs).
PassesAreEarned ==
  /\ part = "conformance" => Suite!ConTypeOK /\ Suite!PassIsEarned /\ Suite!GoodStagesPass
  /\ part = "regression" => /\ Gate!RegTypeOK /\ Gate!GateIsSound /\ Gate!SameRunPasses
                            /\ Gate!DeletionIsNoticed /\ Gate!AssertionsAreTrue

\* A value typed into a parameter's box is taken if the parameter may hold it
\* (pipeline.rs, typed parameters).
TypedIsTaken == part = "definition" => Pipelines!TypedIsTaken
=============================================================================
