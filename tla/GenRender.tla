----------------------------- MODULE GenRender -----------------------------
(****************************************************************************)
(* Rendering a generator specification: validate, then fill the requested   *)
(* range in chunks taken by any thread in any order, with one cache of       *)
(* noise levels between them and a cancellation seen only between chunks.    *)
(* A time is a number of ticks, Second of them a second; a sample's value    *)
(* is a term, so that two samples are equal when they were computed alike.   *)
(****************************************************************************)
EXTENDS GenTree, FiniteSets

CONSTANTS
  Specs,           \* what is rendered: [root, rate, dur, t0, sources], the signals resolved for it
  Ranges,          \* the ranges asked for: <<first, past the last>>
  Chunk,           \* CHUNK_SAMPLES
  ProbeSamples, ProbeBlocks

-----------------------------------------------------------------------------
(* validate.rs: everything wrong with a specification, each issue at the      *)
(* pointer of the node it is about.  A node's "val" is the tuple of its        *)
(* parameters, with NaN for one that is not a finite number.                   *)

Second == 12
NaN == 999
Am == 1
Fm == 2
Pm == 3
Log == 1
Adsr == 1
Gaussian == 2
Tukey == 3
Oscillators == {"Sine", "Square", "Triangle", "Sawtooth"}

Error(p) == [sev |-> "Error", at |-> p]
Warning(p) == [sev |-> "Warning", at |-> p]
When(cond, issue) == IF cond THEN {issue} ELSE {}
Blocks(issues) == \E i \in issues : i.sev = "Error"

Finite(x) == x # NaN
OutsideTheSignal(p, t, dur) == When(Finite(t) /\ (t < 0 \/ t > dur), Warning(p))

\* Finite, not negative, and below the Nyquist frequency of the grid.
Frequency(p, hz, rate) == When(~Finite(hz) \/ hz < 0 \/ 2 * hz >= rate, Error(p))

RECURSIVE Integrable(_)
Integrable(n) ==
  CASE n.kind \in Oscillators \cup {"Dc", "Ramp", "Step"} -> TRUE
    [] n.kind \in {"Sum", "Gain", "Delay"} -> \A i \in DOMAIN n.kids : Integrable(n.kids[i])
    [] OTHER -> FALSE

\* Oscillators: <<freq>>, a square also its duty in percent; a chirp <<f0, f1, log>>;
\* a pulse <<period, width>>.
PeriodicIssues(n, p, rate) ==
  CASE n.kind = "Square" ->
         Frequency(p, n.val[1], rate) \cup When(n.val[2] \notin 1..99, Error(p))
         \cup When(20 * n.val[1] > rate /\ 2 * n.val[1] < rate, Warning(p))
    [] n.kind \in Oscillators -> Frequency(p, n.val[1], rate)
    [] n.kind = "Chirp" ->
         Frequency(p, n.val[1], rate) \cup Frequency(p, n.val[2], rate)
         \cup When(n.val[3] = Log /\ (n.val[1] <= 0 \/ n.val[2] <= 0), Error(p))
    [] n.kind = "Pulse" ->
         When(n.val[1] <= 0 \/ n.val[2] < 0 \/ n.val[2] > n.val[1], Error(p))
         \cup When(n.val[1] > 0 /\ n.val[1] * rate < 2 * Second, Error(p))
    [] OTHER -> {}

\* Levels, times and sources: <<level>>, <<at>>, <<order, taps>>, <<parses>>.
PlainIssues(n, p, dur) ==
  CASE n.kind \in {"Dc", "Ramp", "Noise"} -> When(~Finite(n.val[1]), Error(p))
    [] n.kind \in {"Step", "Impulse"} ->
         When(~Finite(n.val[1]), Error(p)) \cup OutsideTheSignal(p, n.val[1], dur)
    [] n.kind = "Prbs" -> When(n.val[1] \notin 2..32 \/ n.val[2] = 0, Error(p))
    [] n.kind = "Expr" -> When(n.val[1] = 0, Error(p))
    [] OTHER -> {}

\* <<Adsr, attack + decay + release, sustain>>, <<Gaussian, centre, sigma>>, <<Tukey, alpha, _>>.
EnvelopeIssues(env, p, dur) ==
  CASE env[1] = Adsr     -> When(env[2] < 0 \/ env[2] > dur \/ env[3] \notin 0..100, Error(p))
    [] env[1] = Gaussian -> When(env[3] <= 0, Error(p)) \cup OutsideTheSignal(p, env[2], dur)
    [] env[1] = Tukey    -> When(env[2] \notin 0..100, Error(p))

WrapperIssues(n, p, dur) ==
  CASE n.kind = "Gain"  -> When(~Finite(n.val[1]), Error(p))
    [] n.kind = "Delay" -> When(~Finite(n.val[1]) \/ n.val[1] < 0, Error(p))
                           \cup OutsideTheSignal(p, n.val[1], dur)
    [] n.kind = "Clip"  -> When(~Finite(n.val[1]) \/ ~Finite(n.val[2]), Error(p))
                           \cup When(n.val[1] > n.val[2], Error(p))
    [] n.kind = "Envelope" -> EnvelopeIssues(n.val, p, dur)
    [] n.kind = "Modulate" ->
         When(~Finite(n.val[2]), Error(p))
         \cup When(n.val[1] = Fm /\ ~Integrable(n.kids[2]), Error(p))
         \cup When(n.val[1] \in {Fm, Pm} /\ n.kids[1].kind \notin Oscillators, Error(p))
    [] n.kind = "Awgn"  -> When(~Finite(n.val[1]), Error(p))
                           \cup When(n.kids[1].kind = "Dc" /\ n.kids[1].val[1] = 0, Warning(p))
    [] OTHER -> {}

PartsTotal(n) ==
  LET Sum[i \in 0..Len(n.kids)] == IF i = 0 THEN 0 ELSE Sum[i - 1] + n.kids[i].dur IN Sum[Len(n.kids)]

CombinatorIssues(n, p, rate, dur) ==
  When(n.kind \in Combinators /\ n.kids = <<>>, Error(p))
  \cup When(n.kind = "Concat" /\ PartsTotal(n) * rate < dur * rate - Second, Warning(p))
  \cup When(n.kind = "Concat" /\ \E i \in DOMAIN n.kids : n.kids[i].dur <= 0, Error(p))
  \cup When(n.kind = "Resample" /\ (~Finite(n.val[1]) \/ n.val[1] <= 0), Error(p))
  \cup When(n.kind = "Resample" /\ n.val[1] >= rate, Warning(p))

\* The grid a node's children are checked against.
ChildRate(n, rate) ==
  IF n.kind = "Resample" /\ Finite(n.val[1]) /\ n.val[1] > 0 THEN n.val[1] ELSE rate

ChildDuration(n, i, dur) ==
  CASE n.kind # "Concat"     -> dur
    [] n.kids[i].dur < 0     -> 0
    [] OTHER                 -> n.kids[i].dur

KidPointer(n, i, p) ==
  CASE n.kind \in {"Sum", "Product"} -> ChildPointer(p, "terms", i)
    [] n.kind = "Concat"   -> ChildPointer(p, "parts", i)
    [] n.kind = "Modulate" -> ChildPointer(p, IF i = 1 THEN "carrier" ELSE "modulator", 0)
    [] OTHER               -> ChildPointer(p, "input", 0)

RECURSIVE NodeIssues(_, _, _, _)
NodeIssues(n, p, rate, dur) ==
  PeriodicIssues(n, p, rate) \cup PlainIssues(n, p, dur) \cup WrapperIssues(n, p, dur)
  \cup CombinatorIssues(n, p, rate, dur)
  \cup UNION {NodeIssues(n.kids[i], KidPointer(n, i, p), ChildRate(n, rate), ChildDuration(n, i, dur)) :
                i \in DOMAIN n.kids}

\* validate: the signal's own fields first, and its nodes only when those hold.
Issues(spec) ==
  LET own == When(spec.rate <= 0, Error(<<>>)) \cup When(spec.dur <= 0, Error(<<>>))
             \cup When(~Finite(spec.t0), Error(<<>>))
  IN  IF Blocks(own) THEN own ELSE NodeIssues(spec.root, ROOT, spec.rate, spec.dur)

-----------------------------------------------------------------------------
VARIABLES spec, asked, phase, todo, busy, out, probes, cancelled

renderVars == <<spec, asked, phase, todo, busy, out, probes, cancelled>>

Zero == <<"zero">>
Panic == <<"panic">>
SourceSamples == 3          \* sources hold 3 samples, one a second, from t = 0

IndexAt(t, rate) == (t * rate + Second \div 2) \div Second        \* (t * rate).round()
TimeOf(k, rate) == (k * Second) \div rate
AtLeast(x, lo) == IF x < lo THEN lo ELSE x
AtMost(x, hi) == IF x > hi THEN hi ELSE x

\* What a node's children see: Frame::child.
Frame(rate, dur, off, path) == [rate |-> rate, dur |-> dur, off |-> off, path |-> path]
InnerRate(n, rate) == AtMost(n.val[1], rate)
ShiftOf(n, rate) == IndexAt(AtLeast(n.val[1], 0), rate)

\* Where a part begins and ends on the grid: sums of durations, each rounded.
StartOf(kids, i) ==
  LET Sum[j \in 0..Len(kids)] == IF j = 0 THEN 0 ELSE Sum[j - 1] + AtLeast(kids[j].dur, 0) IN Sum[i - 1]
FirstOf(kids, i, rate) == IndexAt(StartOf(kids, i), rate)
LastOf(kids, i, rate) == IndexAt(StartOf(kids, i) + AtLeast(kids[i].dur, 0), rate)

KidFrame(n, i, fr) ==
  LET kid == [fr EXCEPT !.path = @ \o Slots(n)[i]]
  IN  CASE n.kind = "Concat"   -> [kid EXCEPT !.dur = AtLeast(n.kids[i].dur, 0),
                                              !.off = @ + TimeOf(FirstOf(n.kids, i, fr.rate), fr.rate)]
        [] n.kind = "Delay"    -> [kid EXCEPT !.off = @ + TimeOf(ShiftOf(n, fr.rate), fr.rate)]
        [] n.kind = "Resample" -> [kid EXCEPT !.rate = InnerRate(n, fr.rate)]
        [] OTHER               -> kid

Lerp(a, b, frac) == IF frac = 0 THEN a ELSE <<"lerp", a, b, frac>>

SampleSource(id, t) ==
  IF t < 0 \/ t > (SourceSamples - 1) * Second THEN Zero
  ELSE Lerp(<<"read", id, t \div Second>>, <<"read", id, (t \div Second) + 1>>, t % Second)

RECURSIVE IntegralAt(_, _, _)
IntegralAt(n, t, dur) ==
  CASE n.kind \in Oscillators \cup {"Dc", "Step"} -> <<"integral", n.kind, n.val, t>>
    [] n.kind = "Ramp"  -> <<"integral", n.kind, n.val, t, dur>>
    [] n.kind = "Sum"   -> <<"sum", [i \in DOMAIN n.kids |-> IntegralAt(n.kids[i], t, dur)]>>
    [] n.kind = "Gain"  -> <<"Gain", n.val, IntegralAt(n.kids[1], t, dur)>>
    [] n.kind = "Delay" -> IF t <= n.val[1] THEN Zero ELSE IntegralAt(n.kids[1], t - n.val[1], dur)
    [] OTHER -> Zero

-----------------------------------------------------------------------------
\* A leaf's value at one sample of its own grid.
Leaf(n, fr, k) ==
  CASE n.kind \in Oscillators \cup {"Pulse", "Step"} -> <<n.kind, n.val, TimeOf(k, fr.rate)>>
    [] n.kind \in {"Chirp", "Ramp"} -> <<n.kind, n.val, TimeOf(k, fr.rate), fr.dur>>
    [] n.kind = "Dc"         -> IF n.val[1] = 0 THEN Zero ELSE <<"Dc", n.val>>
    [] n.kind = "Impulse"    -> IF k = IndexAt(n.val[1], fr.rate) THEN <<"Impulse", n.val>> ELSE Zero
    [] n.kind = "Noise"      -> <<"Noise", n.val, fr.path, k>>
    [] n.kind = "Prbs"       -> <<"Prbs", n.val, k>>
    [] n.kind = "Expr"       -> IF n.val[1] = 0 THEN Zero ELSE <<"Expr", n.val, TimeOf(k, fr.rate)>>
    [] n.kind = "FromSignal" -> IF n.val[1] \notin spec.sources THEN Zero
                                ELSE SampleSource(n.val[1], fr.off + TimeOf(k, fr.rate))

\* What the modulators and the wrappers make of their inputs' values.
Shaped(n, fr, k, x) ==
  CASE n.kind = "Gain"     -> <<"Gain", n.val, x>>
    [] n.kind = "Clip"     -> IF n.val[1] > n.val[2] THEN Panic ELSE <<"Clip", n.val, x>>
    [] n.kind = "Envelope" -> <<"Envelope", n.val, TimeOf(k, fr.rate), fr.dur, x>>

Modulated(n, fr, k, x, m) ==
  CASE n.val[1] = Am -> <<"am", x, m>>
    [] n.kids[1].kind \notin Oscillators -> Panic
    [] n.val[1] = Fm -> <<"fm", n.kids[1].val, TimeOf(k, fr.rate),
                            IntegralAt(n.kids[2], TimeOf(k, fr.rate), fr.dur)>>
    [] n.val[1] = Pm -> <<"pm", n.kids[1].val, TimeOf(k, fr.rate), m>>

\* probe_spans: the whole signal, or a few blocks of it that reach both ends.
ProbeSpans(total) ==
  IF total = 0 THEN {}
  ELSE IF total <= ProbeSamples THEN {<<0, total>>}
  ELSE LET block == ProbeSamples \div ProbeBlocks
       IN  {LET start == ((total - block) * i) \div (ProbeBlocks - 1) IN <<start, start + block>> :
              i \in 0..(ProbeBlocks - 1)}

Silent(terms) == \A x \in terms : x = Zero

RECURSIVE Fill(_, _, _, _, _)

\* noise_scale: what the input holds over the probed spans of the whole signal,
\* whichever range is being filled.
NoiseScale(n, fr, first, last) ==
  UNION {Range(Fill(n.kids[1], KidFrame(n, 1, fr), s[1], s[2], <<>>)) :
           s \in ProbeSpans(IndexAt(AtLeast(fr.dur, 0), fr.rate))}

\* fill: the samples first .. last - 1 of a node, with the levels known so far.
Fill(n, fr, first, last, known) ==
  LET Samples == 1..(last - first)
      At(k) == first + k - 1
      Input(i, frame, a, b) == Fill(n.kids[i], frame, a, b, known)
      Whole(i) == Input(i, KidFrame(n, i, fr), first, last)
      From(i) == IF n.kind = "Concat" THEN FirstOf(n.kids, i, fr.rate) ELSE ShiftOf(n, fr.rate)
      Till(i) == IF n.kind = "Concat" THEN LastOf(n.kids, i, fr.rate) ELSE last
      Begins(i) == AtLeast(From(i), first)
      Ends(i) == AtMost(Till(i), last)
  IN  CASE n.kind \in {"Sum", "Product"} ->
             LET terms == [i \in DOMAIN n.kids |-> Whole(i)]
             IN  [k \in Samples |-> <<n.kind, [i \in DOMAIN n.kids |-> terms[i][k]]>>]
        [] n.kind \in {"Concat", "Delay"} ->
             LET spans == [i \in {j \in DOMAIN n.kids : Begins(j) < Ends(j)} |->
                             Input(i, KidFrame(n, i, fr), Begins(i) - From(i), Ends(i) - From(i))]
             IN  [k \in Samples |->
                    LET at == {i \in DOMAIN spans : At(k) \in Begins(i)..(Ends(i) - 1)}
                    IN  IF at = {} THEN Zero
                        ELSE LET i == CHOOSE j \in at : TRUE IN spans[i][At(k) - Begins(i) + 1]]
        [] n.kind = "Modulate" ->
             LET x == Whole(1)
                 m == Whole(2)
             IN  [k \in Samples |-> Modulated(n, fr, At(k), x[k], m[k])]
        [] n.kind = "Awgn" ->
             LET x == Whole(1)
                 level == IF fr.path \in DOMAIN known THEN known[fr.path] ELSE NoiseScale(n, fr, first, last)
             IN  IF Silent(level) THEN x
                 ELSE [k \in Samples |-> <<"Awgn", n.val, level, fr.path, At(k), x[k]>>]
        [] n.kind = "Resample" ->
             LET inner == InnerRate(n, fr.rate)
                 a == (first * inner) \div fr.rate
                 b == ((last - 1) * inner) \div fr.rate + 2
                 x == Input(1, KidFrame(n, 1, fr), a, b)
             IN  [k \in Samples |->
                    LET j == (At(k) * inner) \div fr.rate - a + 1
                    IN  Lerp(x[j], IF j + 1 <= b - a THEN x[j + 1] ELSE x[j], (At(k) * inner) % fr.rate)]
        [] n.kind \in OneInput ->
             LET x == Whole(1) IN [k \in Samples |-> Shaped(n, fr, At(k), x[k])]
        [] OTHER -> [k \in Samples |-> Leaf(n, fr, At(k))]

\* The levels a fill leaves in the cache, by the path of their nodes.
RECURSIVE Measured(_, _, _, _)
Measured(n, fr, first, last) ==
  UNION {Measured(n.kids[i], KidFrame(n, i, fr), first, last) : i \in DOMAIN n.kids}
  \cup (IF n.kind = "Awgn" THEN {<<fr.path, NoiseScale(n, fr, first, last)>>} ELSE {})

-----------------------------------------------------------------------------
\* render_values and its threads.
Count(s) == IndexAt(s.dur, s.rate)
PastLast == AtMost(asked[2], Count(spec))
Wanted == IF asked[1] >= PastLast THEN 0 ELSE PastLast - asked[1]
Chunks == IF Wanted = 0 THEN {} ELSE 1..((Wanted + Chunk - 1) \div Chunk)
SpanOf(c) == <<asked[1] + (c - 1) * Chunk, AtMost(asked[1] + c * Chunk, PastLast)>>
RootFrame(s) == Frame(s.rate, s.dur, s.t0, ROOT)         \* offsets counted from the start time

RECURSIVE Referenced(_)
\* referenced_signals
Referenced(n) == UNION {Referenced(n.kids[i]) : i \in DOMAIN n.kids}
                 \cup (IF n.kind = "FromSignal" THEN {n.val[1]} ELSE {})

RenderInit ==
  /\ spec \in Specs /\ asked \in Ranges
  /\ phase = "asked" /\ todo = {} /\ busy = <<>> /\ out = <<>> /\ probes = <<>>
  /\ cancelled = FALSE

Validate ==
  /\ phase = "asked"
  /\ phase' = IF Blocks(Issues(spec)) \/ ~(Referenced(spec.root) \subseteq spec.sources)
              THEN "refused" ELSE "rendering"
  /\ todo' = IF phase' = "refused" THEN {} ELSE Chunks
  /\ UNCHANGED <<spec, asked, busy, out, probes, cancelled>>

Cancel == phase \in {"asked", "rendering"} /\ ~cancelled /\ cancelled' = TRUE
          /\ UNCHANGED <<spec, asked, phase, todo, busy, out, probes>>

Claimed(c) == todo \ {c}

\* A thread takes a chunk: control.check, then the fill with the levels it finds.
Begin(c) ==
  /\ phase = "rendering" /\ c \in todo
  /\ todo' = Claimed(c)
  /\ IF cancelled THEN phase' = "cancelled" /\ UNCHANGED busy
     ELSE UNCHANGED phase /\ busy' = (c :> probes) @@ busy
  /\ UNCHANGED <<spec, asked, out, probes, cancelled>>

End(c) ==
  /\ phase = "rendering" /\ c \in DOMAIN busy
  /\ LET s == SpanOf(c)
         found == Measured(spec.root, RootFrame(spec), s[1], s[2])
     IN  /\ out' = (c :> Fill(spec.root, RootFrame(spec), s[1], s[2], busy[c])) @@ out
         /\ probes' = [p \in {m[1] : m \in found} \cup DOMAIN probes |->
                        IF p \in DOMAIN probes THEN probes[p]
                        ELSE (CHOOSE m \in found : m[1] = p)[2]]
  /\ busy' = [b \in DOMAIN busy \ {c} |-> busy[b]]
  /\ UNCHANGED <<spec, asked, phase, todo, cancelled>>

SlipDone == phase = "rendering" /\ todo = {}

Done == phase = "rendering" /\ todo = {} /\ busy = <<>>

Finish == Done /\ phase' = "done" /\ UNCHANGED <<spec, asked, todo, busy, out, probes, cancelled>>

RenderNext == Validate \/ Cancel \/ Finish \/ \E c \in Chunks : Begin(c) \/ End(c)

-----------------------------------------------------------------------------
\* What one sample of a node is, with no range and no cache in sight.
RECURSIVE Value(_, _, _)
Value(n, fr, k) ==
  LET Of(i, j) == Value(n.kids[i], KidFrame(n, i, fr), j)
  IN  CASE n.kind \in {"Sum", "Product"} -> <<n.kind, [i \in DOMAIN n.kids |-> Of(i, k)]>>
        [] n.kind = "Concat" ->
             LET at == {i \in DOMAIN n.kids : k \in FirstOf(n.kids, i, fr.rate)..(LastOf(n.kids, i, fr.rate) - 1)}
             IN  IF at = {} THEN Zero
                 ELSE LET i == CHOOSE j \in at : TRUE IN Of(i, k - FirstOf(n.kids, i, fr.rate))
        [] n.kind = "Delay" -> IF k < ShiftOf(n, fr.rate) THEN Zero ELSE Of(1, k - ShiftOf(n, fr.rate))
        [] n.kind = "Modulate" -> Modulated(n, fr, k, Of(1, k), Of(2, k))
        [] n.kind = "Awgn" ->
             LET total == IndexAt(AtLeast(fr.dur, 0), fr.rate)
                 level == UNION {{Of(1, j) : j \in s[1]..(s[2] - 1)} : s \in ProbeSpans(total)}
             IN  IF Silent(level) THEN Of(1, k) ELSE <<"Awgn", n.val, level, fr.path, k, Of(1, k)>>
        [] n.kind = "Resample" ->
             LET u == k * InnerRate(n, fr.rate)
             IN  Lerp(Of(1, u \div fr.rate), Of(1, (u \div fr.rate) + 1), u % fr.rate)
        [] n.kind \in OneInput -> Shaped(n, fr, k, Of(1, k))
        [] OTHER -> Leaf(n, fr, k)

\* The rate of the grid every node is rendered on.
RECURSIVE Grids(_, _)
Grids(n, fr) == {<<n, fr.rate>>} \cup UNION {Grids(n.kids[i], KidFrame(n, i, fr)) : i \in DOMAIN n.kids}

\* A chunk is taken once, and comes back with as many samples as it has.
RenderTypeOK ==
  /\ phase \in {"asked", "refused", "rendering", "cancelled", "done"}
  /\ todo \cup DOMAIN busy \subseteq Chunks /\ todo \cap (DOMAIN busy \cup DOMAIN out) = {}
  /\ \A c \in DOMAIN out : c \in Chunks /\ Len(out[c]) = SpanOf(c)[2] - SpanOf(c)[1]

\* A render that is handed back holds every sample asked for, and each is what
\* the specification says of that one sample: which chunk it fell in, which
\* thread measured a noise level first and what range was asked do not show.
ChunksMakeTheWhole ==
  phase = "done" =>
    \A c \in Chunks : \A k \in 1..(SpanOf(c)[2] - SpanOf(c)[1]) :
      c \in DOMAIN out /\ out[c][k] = Value(spec.root, RootFrame(spec), SpanOf(c)[1] + k - 1)

\* A specification that is let through holds no node the renderer cannot render:
\* no carrier without a phase, no crossed clip, no modulator without an integral, no
\* signal that was not resolved.
AcceptedRenders ==
  phase \in {"rendering", "done"} =>
    \A g \in Grids(spec.root, RootFrame(spec)) :
      LET n == g[1]
      IN  /\ n.kind = "Clip" => n.val[1] <= n.val[2]
          /\ n.kind = "Modulate" /\ n.val[1] # Am => n.kids[1].kind \in Oscillators
          /\ n.kind = "Modulate" /\ n.val[1] = Fm => Integrable(n.kids[2])
          /\ n.kind = "FromSignal" => n.val[1] \in spec.sources

\* With nothing to report, every oscillator turns below half the rate of the grid
\* it is really rendered on.
CleanIsBelowNyquist ==
  phase = "done" /\ Issues(spec) = {} =>
    \A g \in Grids(spec.root, RootFrame(spec)) : g[1].kind \in Oscillators => 2 * g[1].val[1] < g[2]

\* Every issue is at a node the editor can select, or at the signal itself.
IssuesResolve == \A i \in Issues(spec) : i.at \in Outline(spec.root) \cup {<<>>}
=============================================================================
