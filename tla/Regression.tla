----------------------------- MODULE Regression -----------------------------
(***************************************************************************)
(* A run held to a golden one (crates/sp-proc: compare.rs, assert.rs;      *)
(* crates/sp-store: regress.rs): check_baseline reads what both recorded,  *)
(* group by group and a job at a time, and passes only if nothing is out   *)
(* of tolerance.  Assertions are evaluated over the same rows, when the    *)
(* group ends and again whenever an old run is looked at.                  *)
(*                                                                         *)
(* A group's rows are its status, the signals of one stage, one metric and *)
(* one artifact; {} stands for what was not recorded.  Columns are of at   *)
(* most two samples, so the recorded minimum and maximum say as much as    *)
(* the recorded mean and RMS, and numbers are whole.                       *)
(***************************************************************************)
EXTENDS Integers, Sequences, FiniteSets

CONSTANTS Groups, Records,     \* the groups a run may cover, and what it may record of one
          Limits,              \* tolerances a baseline may carry: [abs, rel, new]
          Amounts              \* numbers an assertion may be written with

NaN == 1000
Inf == 1001
Runs == {"base", "cand"}
Big(a, b) == IF a < b THEN b ELSE a
Abs(x) == Big(x, -x)
Only(s) == CHOOSE x \in s : TRUE

VARIABLES recorded,      \* [Runs -> [Groups -> {} or {record}]]
          limits,        \* the baseline's tolerances
          phase,         \* "record", "groups", "diff" or "closed"
          seen,          \* [Runs -> [Groups -> {} or {status}]] as the check read them
          left,          \* groups still to be compared
          dirty,         \* groups found to deviate, missing and new ones included
          removed        \* the candidate has been deleted
regVars == <<recorded, limits, phase, seen, left, dirty, removed>>

Nobody == [r \in Runs |-> [g \in Groups |-> {}]]
RegInit ==
  /\ recorded = Nobody /\ limits \in Limits /\ phase = "record" /\ seen = Nobody
  /\ left = {} /\ dirty = {} /\ removed = FALSE

Record == \E r \in Runs, g \in Groups, x \in Records :
  /\ phase = "record" /\ recorded[r][g] = {}
  /\ recorded' = [recorded EXCEPT ![r][g] = {x}]
  /\ UNCHANGED <<limits, phase, seen, left, dirty, removed>>
\* A group that came out well loses the samples it kept in case it failed.
Swept(x) == [x EXCEPT !.signals = [i \in DOMAIN @ |-> [@[i] EXCEPT !.kept = FALSE]]]
Sweep == \E r \in Runs, g \in Groups :
  /\ phase = "record" /\ recorded[r][g] # {} /\ Only(recorded[r][g]).status = "ok"
  /\ recorded' = [recorded EXCEPT ![r][g] = {Swept(Only(@))}]
  /\ UNCHANGED <<limits, phase, seen, left, dirty, removed>>
Promote ==
  /\ phase = "record" /\ phase' = "groups"
  /\ UNCHANGED <<recorded, limits, seen, left, dirty, removed>>
\* The golden run cannot be deleted; the other one can, between any two jobs of the check.
DeleteRun ==
  /\ phase # "record" /\ ~removed
  /\ recorded' = [recorded EXCEPT !["cand"] = [g \in Groups |-> {}]] /\ removed' = TRUE
  /\ UNCHANGED <<limits, phase, seen, left, dirty>>

----------------------------------------------------------------------------
\* diff_signals: by name, the first of each side.  Two NaNs are no difference, one is the largest.
Named(signals, n) == {i \in DOMAIN signals : signals[i].name = n}
FirstOf(signals, n) ==
  signals[CHOOSE i \in Named(signals, n) : \A j \in Named(signals, n) : i <= j]
ErrorOf(a, b) == IF a = NaN /\ b = NaN THEN 0 ELSE IF a = NaN \/ b = NaN THEN Inf ELSE Abs(a - b)
Finite(samples) == {samples[i] : i \in DOMAIN samples} \ {NaN}
Lowest(s) == CHOOSE x \in s : \A y \in s : x <= y
Highest(s) == CHOOSE x \in s : \A y \in s : y <= x
\* sample_bound, squared and times the number of samples behind the RMS, to stay in integers.
SquareSum(samples) ==
  LET f[i \in 0 .. Len(samples)] ==
        IF i = 0 THEN 0 ELSE f[i - 1] + (IF samples[i] = NaN THEN 0 ELSE samples[i] * samples[i])
      n[i \in 0 .. Len(samples)] ==
        IF i = 0 THEN 0 ELSE n[i - 1] + (IF samples[i] = NaN THEN 0 ELSE 1)
  IN [sum |-> f[Len(samples)], n |-> n[Len(samples)]]
Within(error, golden) ==
  LET s == SquareSum(golden)
  IN \/ error <= limits.abs
     \/ error # Inf /\ error * error * s.n <= limits.rel * limits.rel * s.sum /\ s.n > 0
SummaryError(a, b) ==
  LET x == Finite(a)  y == Finite(b)
  IN IF x = {} /\ y = {} THEN 0 ELSE IF x = {} \/ y = {} THEN Inf
     ELSE Big(Abs(Lowest(x) - Lowest(y)), Abs(Highest(x) - Highest(y)))
SignalsMatch(a, b) ==
  /\ Len(a.samples) = Len(b.samples)
  /\ IF ~a.kept \/ ~b.kept THEN Within(SummaryError(a.samples, b.samples), a.samples)
     ELSE \A i \in DOMAIN a.samples : Within(ErrorOf(a.samples[i], b.samples[i]), a.samples)
SignalsClean(a, b) ==
  \A n \in {a[i].name : i \in DOMAIN a} \cup {b[i].name : i \in DOMAIN b} :
    /\ Named(a, n) # {} /\ Named(b, n) # {} /\ SignalsMatch(FirstOf(a, n), FirstOf(b, n))
\* metric_bound; a metric only one side has is infinitely far.
MetricsClean(a, b) ==
  \/ a = {} /\ b = {}
  \/ /\ a # {} /\ b # {}
     /\ Abs(Only(a) - Only(b)) <= Big(limits.abs, limits.rel * Abs(Only(a)))
\* diff: a field is equal if it has as many rows and none of them is further apart.
FieldsAgree(p, q) == Len(p) = Len(q) /\ \A i \in DOMAIN p : Abs(p[i] - q[i]) <= limits.abs
ArtifactsClean(a, b) ==
  (a = {} /\ b = {}) \/ (a # {} /\ b # {} /\ FieldsAgree(Only(a), Only(b)))

\* check_baseline: both runs' groups in one job, then a group at a time.
Rows(r, g) ==     \* what there is of a group that is gone: nothing
  IF recorded[r][g] = {} THEN [signals |-> <<>>, metric |-> {}, artifact |-> {}]
  ELSE [signals |-> Only(recorded[r][g]).signals, metric |-> Only(recorded[r][g]).metric,
        artifact |-> Only(recorded[r][g]).artifact]
Covered(s, r) == {g \in Groups : s[r][g] # {}}
Missing(s) == Covered(s, "base") \ Covered(s, "cand")
Extra(s) == IF limits.new THEN {} ELSE Covered(s, "cand") \ Covered(s, "base")
Compared(s) == Covered(s, "base") \cap Covered(s, "cand")
ReadGroups ==
  /\ phase = "groups" /\ ~removed
  /\ LET s == [r \in Runs |-> [g \in Groups |-> {x.status : x \in recorded[r][g]}]]
     IN /\ seen' = s /\ dirty' = Missing(s) \cup Extra(s)
        /\ left' = Compared(s)
  /\ phase' = "diff"
  /\ UNCHANGED <<recorded, limits, removed>>
GroupClean(g) ==
  LET a == Rows("base", g)  b == Rows("cand", g)
  IN /\ seen["base"][g] = seen["cand"][g] /\ SignalsClean(a.signals, b.signals)
     /\ MetricsClean(a.metric, b.metric) /\ ArtifactsClean(a.artifact, b.artifact)
DiffGroup == \E g \in left :
  /\ phase = "diff" /\ left' = left \ {g}
  /\ dirty' = IF GroupClean(g) THEN dirty ELSE dirty \cup {g}
  /\ UNCHANGED <<recorded, limits, phase, seen, removed>>
Close == /\ phase = "diff" /\ left = {} /\ phase' = "closed"
         /\ UNCHANGED <<recorded, limits, seen, left, dirty, removed>>
RegNext == Record \/ Sweep \/ Promote \/ DeleteRun \/ ReadGroups \/ DiffGroup \/ Close
RegSpec == RegInit /\ [][RegNext]_regVars

----------------------------------------------------------------------------
\* Assertions: a subject, and a comparison or a `within`, against a number or the golden run.
Subjects == {"metric", "max", "samples", "rows", "largest"}
Ops == {"==", "!=", "<", "<=", ">", ">="}
Operands == {[golden |-> TRUE, n |-> 0]} \cup {[golden |-> FALSE, n |-> n] : n \in Amounts}
Tests == [op : Ops, operand : Operands, amount : {0}]
         \cup [op : {"within", "percent"}, operand : Operands, amount : Amounts]
Resolve(x, subject) ==
  CASE subject = "metric" -> x.metric
    [] subject = "max" -> {Highest(Finite(s.samples)) : s \in {x.signals[i] : i \in
         {j \in DOMAIN x.signals : j = 1 /\ Finite(x.signals[j].samples) # {}}}}
    [] subject = "samples" -> {Len(x.signals[i].samples) : i \in DOMAIN x.signals \cap {1}}
    [] subject = "rows" -> {Len(a) : a \in x.artifact}
    [] subject = "largest" -> {Highest({a[i] : i \in DOMAIN a}) : a \in x.artifact \ {<<>>}}
Holds(test, a, b) ==
  CASE test.op = "==" -> a = b  [] test.op = "!=" -> a # b
    [] test.op = "<" -> a < b   [] test.op = "<=" -> a <= b
    [] test.op = ">" -> a > b   [] test.op = ">=" -> a >= b
    [] test.op = "within" -> Abs(a - b) <= test.amount
    [] test.op = "percent" -> 100 * Abs(a - b) <= test.amount * Abs(b)
\* golden is {} when the run was given no baseline.
Evaluate(x, golden, subject, test) ==
  LET actual == Resolve(x, subject)
      reference == IF test.operand.golden THEN Resolve(Only(golden), subject) ELSE {test.operand.n}
  IN IF actual = {} THEN "not_applicable"
     ELSE IF test.operand.golden /\ golden = {} THEN "not_applicable"
     ELSE IF reference = {} THEN "error"
     ELSE IF Holds(test, Only(actual), Only(reference)) THEN "pass" ELSE "fail"

----------------------------------------------------------------------------
\* Types; only groups both runs cover are compared.
RegTypeOK ==
  /\ recorded \in [Runs -> [Groups -> {{}} \cup {{x} : x \in Records \cup {Swept(y) : y \in Records}}]]
  /\ limits \in Limits /\ phase \in {"record", "groups", "diff", "closed"}
  /\ left \subseteq Covered(seen, "base") \cap Covered(seen, "cand") /\ dirty \subseteq Groups

Rank(x, i) == Cardinality({j \in 1 .. i : x.signals[j].name = x.signals[i].name})
Near(a, b, golden) == IF a = NaN \/ b = NaN THEN a = b ELSE Within(Abs(a - b), golden)
Agree(x, y) ==
  /\ x.status = y.status /\ Len(x.signals) = Len(y.signals)
  /\ \A i \in DOMAIN x.signals : \E j \in DOMAIN y.signals :
       LET a == x.signals[i]  b == y.signals[j]
       IN /\ a.name = b.name /\ Rank(x, i) = Rank(y, j)
          /\ Len(a.samples) = Len(b.samples)
          /\ (a.kept /\ b.kept) =>
               \A k \in DOMAIN a.samples : Near(a.samples[k], b.samples[k], a.samples)
  /\ (x.metric = {}) = (y.metric = {}) /\ (x.artifact = {}) = (y.artifact = {})
  /\ \A m \in x.metric, n \in y.metric : m = n \/ Abs(m - n) <= Big(limits.abs, limits.rel * Abs(m))
  /\ \A p \in x.artifact, q \in y.artifact : Len(p) = Len(q)
Passed == phase = "closed" /\ dirty = {}

\* What a check that passes promises: no group of the golden run has stopped being tested, none
\* changed its status, every sample of every signal is within tolerance, NaN for NaN, every
\* metric and every field too.  Samples that were not kept are vouched for by their summaries.
GateIsSound ==
  (Passed /\ ~removed) =>
    \A g \in Groups :
      /\ (recorded["base"][g] # {}) => recorded["cand"][g] # {}
      /\ (recorded["cand"][g] # {} /\ recorded["base"][g] = {}) => limits.new
      /\ \A x \in recorded["base"][g], y \in recorded["cand"][g] : Agree(x, y)

\* A run that recorded what the golden run did passes, NaN samples included.
SameRunPasses ==
  (phase = "closed" /\ ~removed /\ recorded["base"] = recorded["cand"]) => dirty = {}

\* A group still to be compared whose golden samples were recorded does not compare as
\* clean once rows were deleted; one without samples, or compared before, may.
DeletionIsNoticed ==
  (phase = "diff" /\ removed) =>
    \A g \in left : (\E x \in recorded["base"][g] : x.signals # <<>>) => ~GroupClean(g)

\* An assertion passes only if its subject and what it is held to were recorded and stand in that
\* relation; of two recorded numbers exactly one of <, ==, > passes.
AssertionsAreTrue ==
  phase = "groups" => \A g \in Groups, s \in Subjects :
    \A golden \in {{}, recorded["base"][g]}, x \in recorded["cand"][g] :
      /\ \A t \in Tests : Evaluate(x, golden, s, t) = "pass" =>
           /\ Resolve(x, s) # {} /\ (t.operand.golden => golden # {} /\ Resolve(Only(golden), s) # {})
      /\ \A o \in Operands :
           LET Verdict(op) == Evaluate(x, golden, s, [op |-> op, operand |-> o, amount |-> 0])
               passing == {op \in {"<", "==", ">"} : Verdict(op) = "pass"}
           IN /\ \A p, q \in passing : p = q
              /\ Verdict("==") \in {"pass", "fail"} => passing # {}
              /\ (Verdict("!=") = "pass") = (Verdict("==") = "fail")

=============================================================================
