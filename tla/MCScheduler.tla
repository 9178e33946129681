---------------------------- MODULE MCScheduler -----------------------------
(* Small libraries and jobs for Scheduler: sample data d0, d1, d2, d3 that  *)
(* the kind "gain" takes to the next, and the jobs of the runs' cfg files.   *)
EXTENDS Scheduler, TLC

CONSTANTS d0, d1, d2, d3, t0, t1, g1, g2, e1, e2

MCOrdinals == 0 .. 1
MCContents == [data : Data, time : Times]
MCKeys == [kind : Kinds, data : Data \cup {NoData}, time : Times \cup {NoTime}]

At0(d) == [data |-> d, time |-> t0]
At1(d) == [data |-> d, time |-> t1]
Next1(d) == IF d = d0 \/ d2 \notin Data THEN d1
            ELSE IF d = d1 \/ d3 \notin Data THEN d2 ELSE d3

\* "gain" replaces the samples, "tag" patches the group attribute and passes
\* them on, "read" replaces them by what the attribute says, "align" by what
\* the timebase says.
MCTransform == [k \in Fresh |-> [x \in Data \X Times \X Attrs |->
                  CASE k = "read"  -> IF x[3] = "plain" THEN d1 ELSE d2
                    [] k = "align" -> IF x[2] = t0 THEN d1 ELSE d2
                    [] OTHER       -> Next1(x[1])]]
MCPatch == [k \in Kinds |-> IF k = "tag" THEN "tagged" ELSE NoChange]
MCGroupAttr == [g \in Groups |-> "plain"]
MCSize == [d \in Data |-> IF d = d3 THEN 2 ELSE 1]

Two(a, b) == 0 :> a @@ 1 :> b
A(p, gs) == [pipeline |-> p, groups |-> gs, inFlight |-> 2,
             useCache |-> TRUE, asserted |-> FALSE, cap |-> Unlimited]

\* Reuse: the second stage of g1 is the first of g2.  The other run shares its
\* first stage, may make no samples of its own, and passes on what it is given.
ReuseKinds == "p" :> Two("gain", "gain") @@ "q" :> Two("gain", "pass")
ReuseRetention == [p \in Pipelines |-> Two("always", "always")]
ReuseSource == g1 :> At0(d0) @@ g2 :> At0(d1)
ReuseJob == e1 :> [A("p", {g1, g2}) EXCEPT !.cap = 2] @@ e2 :> [A("q", {g1}) EXCEPT !.cap = 0]

\* Evidence: a pipeline whose first stage is swept, judged by assertions; the
\* same kind under another pipeline has published its output before.
EvidenceKinds == "p" :> Two("gain", "noise") @@ "q" :> (0 :> "gain")
EvidenceRetention == "p" :> Two("on_failure", "on_failure") @@ "q" :> Two("always", "always")
EvidenceSource == g1 :> At0(d0) @@ g2 :> At0(d0)
EvidenceJob == e1 :> A("q", {g1}) @@ e2 :> [A("p", {g1, g2}) EXCEPT !.asserted = TRUE]

\* Discipline and Returns: short runs among deletions, crashes and failing jobs.
OneStage == [p \in Pipelines |-> 0 :> "gain"]
TroubleRetention == "p" :> Two("always", "always") @@ "q" :> Two("on_failure", "always")
TroubleSource == [g \in Groups |-> At0(d0)]
TroubleJob == e1 :> A("p", {g1}) @@ e2 :> A("q", {g1})

\* Untimed: a stage that keeps nothing, before one that reads the timebase.
UntimedKinds == [p \in Pipelines |-> Two("gain", "align")]
UntimedRetention == [p \in Pipelines |-> Two("never", "always")]
UntimedSource == g1 :> At0(d0) @@ g2 :> At1(d0)
OneJob == e1 :> A("p", {g1, g2})
=============================================================================
