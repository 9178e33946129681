---------------------------- MODULE MCProcessing ---------------------------
(* The processing half of the system: what a pipeline is defined as, the     *)
(* stages and generators that do its arithmetic, the external libraries it    *)
(* calls, the budget its groups share, and the comparison and conformance     *)
(* that judge the outcome.  A behaviour is of one part.                       *)
EXTENDS ExternalStage, SampleBudget, Vetting, TLC

VARIABLES
  group, symbols, bits,
  frame, regular, detections, peaks, metrics,
  spec, asked, renderingPhase, todo, busy, renderingOut, probes, cancelled,
  source, formulaOut, pending, expectValue, verdict,
  next, pos, randomHeld, drawn, order, state, randomAt, bit,
  train, made, stored,
  mode, editorRoot, editorTrain, selected, drafts, errors, editorDirty, flight, shown

G == INSTANCE GenTree
Node(kind, v, kids) == G!Node(kind, v, kids)
AsPart(n, d) == G!AsPart(n, d)

\* ExternalStage: what a library may answer to two inputs.
MCOutputs == {[codes |-> c[1], returned |-> c[2]] :
                c \in {<<<<1, 0>>, 0>>, <<<<1, 0>>, 2>>, <<<<0, 0>>, 2>>, <<<<2, 7>>, 1>>, <<<<1>>, 1>>}}
\* SampleBudget: two groups fit the cap together, one asks for nearly all the
\* counter can hold, one for little.
MCBytes == 1 :> 2 @@ 2 :> 4 @@ 3 :> 7 @@ 4 :> 1

\* Definition: a stage that makes an artifact another may read.
Level == [name |-> "level", kind |-> "int", default |-> {<<"int", 1>>}, min |-> {0}, max |-> {}, variants |-> {}]
Width == [name |-> "width", kind |-> "float", default |-> {}, min |-> {}, max |-> {1}, variants |-> {}]
SignalPort == [name |-> "in", kind |-> <<"signals", "">>, required |-> TRUE]
ArtifactPort(n, k) == [name |-> n, kind |-> <<"artifact", k>>, required |-> TRUE]
MCDescriptor ==
  [k \in {"fft", "peak"} |->
    IF k = "fft" THEN [version |-> 1, inputs |-> {SignalPort}, params |-> {Level},
                       outputs |-> {SignalPort, ArtifactPort("spectrum", "spectrum")}]
    ELSE [version |-> 2, inputs |-> {ArtifactPort("from", "spectrum")}, params |-> {Width},
          outputs |-> {ArtifactPort("peaks", "peaks")}]]
MCTyped == {[int |-> {1}, float |-> {}, text |-> {}], [int |-> {}, float |-> {1}, text |-> {}]}
MCExpressions == {[good |-> FALSE, enabled |-> TRUE]}
\* The same with a stage that takes a name, into which "rf" is typed.
Named == [name |-> "signal", kind |-> "text", default |-> {<<"text", "">>}, min |-> {}, max |-> {}, variants |-> {}]
MCNaming == [MCDescriptor EXCEPT !["fft"].params = {Named}]
MCTypedNames == {[int |-> {}, float |-> {}, text |-> {"rf"}]}

\* Conformance: every way a stage answers, and one with no ports.
MCJudged == [described : BOOLEAN, configure : {"ok", "lax", "rejects"}, answer : [{"ordinary", "empty"} -> {"produces", "errs", "panics"}],
           covers : BOOLEAN, ports : {TRUE}, pure : BOOLEAN, tires : BOOLEAN,
           drift : {"none", "calls", "instances", "salt"}, heeds : {"heeds", "ignores", "panics"}]
          \cup [described : {TRUE}, configure : {"ok"}, answer : [{"ordinary", "empty"} -> {"produces"}],
                covers : {TRUE}, ports : {FALSE}, pure : {TRUE}, tires : {FALSE},
                drift : {"none"}, heeds : {"heeds"}]
          \cup [described : {TRUE}, configure : {"once"}, answer : [{"ordinary", "empty"} -> {"produces", "errs"}],
                covers : {TRUE}, ports : {TRUE}, pure : BOOLEAN, tires : {FALSE},
                drift : {"none", "instances"}, heeds : {"heeds", "panics"}]

\* Regression: what two runs may have recorded of a group; 1000 stands for NaN.
Channel(name, samples) == [name |-> name, samples |-> samples, kept |-> TRUE]
Recorded == [status |-> "ok", signals |-> <<Channel("rf", <<0, 2>>)>>, metric |-> {2}, artifact |-> {<<2>>}]
Columns == {<<>>, <<2>>, <<0, 0>>, <<0, 3>>, <<1000, 2>>, <<0, 1000>>, <<1000, 1000>>, <<2, 0>>}
MCRecords == {Recorded, [Recorded EXCEPT !.status = "failed"]}
  \cup {[Recorded EXCEPT !.signals = <<Channel("rf", c)>>] : c \in Columns}
  \cup {[Recorded EXCEPT !.signals = @ \o <<Channel("lo", c)>>] : c \in {<<0>>, <<3>>}}
  \cup {[Recorded EXCEPT !.metric = m] : m \in {{}, {3}, {0}}}
  \cup {[Recorded EXCEPT !.artifact = a] : a \in {{}, {<<>>}, {<<3>>}, {<<2, 2>>}}}
  \cup {[Recorded EXCEPT !.metric = {}, !.artifact = {}]}
MCLimits == {[abs |-> 0, rel |-> 0, new |-> FALSE], [abs |-> 1, rel |-> 0, new |-> TRUE],
           [abs |-> 0, rel |-> 1, new |-> FALSE]}

\* Digital: four samples of three values, and fewer of which any may be NaN (9).
Captured == [1..4 -> {-2, 0, 1}] \cup [1..3 -> {-2, 1, 9}] \cup UNION {[1..n -> {-2, 0, 1, 9}] : n \in 0..2}
Slices == {s \in [level : {0, -1}, half : -1..2, invert : BOOLEAN] :
             (s.level = 0 /\ s.half \in 0..1 /\ s.invert = (s.half = 1)) \/ (s.level = -1 /\ s.half \in {-1, 2} /\ ~s.invert)}
Decoders ==
  {d \in [name : {"", "logic", "none"}, width : {2, 4, 5, 6}, levels : {2, 4}, level : {0, 1}, edge : BOOLEAN, phase : {0, 2, 4}] :
     \/ d.name # "none" /\ d.width = 4 /\ d.levels = 2 /\ d.level = 1 /\ d.phase = 2
     \/ d.name = "none" /\ d.width = 2 /\ d.levels = 2 /\ d.level = 0 /\ d.edge /\ d.phase = 0
     \/ d.name = "" /\ d.width = 6 /\ d.levels = 2 /\ d.level = 0 /\ d.edge /\ d.phase < 4
     \/ d.name = "" /\ d.width \in {4, 5} /\ d.levels = 4 /\ d.level = 0 /\ d.edge /\ d.phase > 0}
Packers == {p \in [width : {0, 1, 2, 3, 8}, msb : BOOLEAN, invert : BOOLEAN] :
              IF p.width = 8 THEN p.msb /\ p.invert ELSE ~p.invert}

\* Detect: short captures of one signal, and pairs of shorter ones.
Bursts(S, n) == UNION {[1..m -> S] : m \in 0..n}
Frames == {<<[name |-> "a", values |-> v]>> : v \in Bursts({0, 1, 2}, 5) \cup Bursts({0, 1, 9}, 4)}
          \cup {<<[name |-> "a", values |-> v], [name |-> x, values |-> w]>> : v \in Bursts({0, 2}, 3), w \in Bursts({0, 2}, 3), x \in {"a", "b"}}
Thresholds == {t \in [level : {1, 2}, below : BOOLEAN, hysteresis : {-1, 0, 1}, width : {0, 2}] :
                 t.below = (t.level = 1) /\ t.hysteresis = 0 => t.width = 0}
Finders == {f \in [minima : BOOLEAN, prominence : {0, 1, 2}, gap : {0, 3}, count : {0, 1}, window : {0, 1}] :
              f.minima => (f.gap = 0 /\ f.prominence = 0 /\ f.count = 0)}

\* GenRender: every kind of node, over every kind of leaf.
Leaves == {Node("Sine", <<1>>, <<>>), Node("Sine", <<2>>, <<>>), Node("Dc", <<0>>, <<>>),
           Node("Impulse", <<3>>, <<>>), Node("Noise", <<1>>, <<>>), Node("FromSignal", <<1>>, <<>>)}
Alone == {Node("Square", <<1, 50>>, <<>>), Node("Square", <<1, 0>>, <<>>), Node("Chirp", <<1, 0, 1>>, <<>>),
          Node("Pulse", <<6, 3>>, <<>>), Node("Pulse", <<3, 6>>, <<>>), Node("Step", <<20>>, <<>>),
          Node("Ramp", <<1>>, <<>>), Node("Prbs", <<9, 0>>, <<>>), Node("Prbs", <<9, 1>>, <<>>),
          Node("Expr", <<0>>, <<>>), Node("Expr", <<1>>, <<>>), Node("Dc", <<999>>, <<>>)}   \* 999 is the NaN of GenRender
Over(kids) ==
  {Node("Gain", <<2>>, <<x>>) : x \in kids} \cup {Node("Delay", <<v>>, <<x>>) : v \in {-3, 5}, x \in kids}
  \cup {Node("Clip", v, <<x>>) : v \in {<<0, 1>>, <<1, 0>>}, x \in kids}
  \cup {Node("Envelope", v, <<x>>) : v \in {<<1, 6, 50>>, <<1, 20, 50>>, <<2, 20, 1>>, <<3, 120, 0>>}, x \in kids}
  \cup {Node("Awgn", <<1>>, <<x>>) : x \in kids}
  \cup {Node("Resample", <<v>>, <<x>>) : v \in {2, 3, 8}, x \in kids}
  \cup {Node("Concat", <<0>>, <<AsPart(x, 5), AsPart(y, 6)>>) : x, y \in kids}
  \cup {Node("Sum", <<0>>, <<x, Node("Noise", <<1>>, <<>>)>>) : x \in kids}
  \cup {Node("Product", <<0>>, <<>>)}
  \cup {Node("Modulate", <<v, 1>>, <<x, y>>) : v \in 1..3, x, y \in kids}
Joined == Node("Concat", <<0>>, <<AsPart(Node("Awgn", <<1>>, <<Node("Impulse", <<3>>, <<>>)>>), 5),
                                 AsPart(Node("FromSignal", <<1>>, <<>>), 7)>>)
Trees == Leaves \cup Alone \cup Over(Leaves)
         \cup Over({Node("Awgn", <<1>>, <<Node("Sine", <<1>>, <<>>)>>), Joined,
                    Node("Delay", <<5>>, <<Node("Noise", <<1>>, <<>>)>>),
                    Node("Resample", <<3>>, <<Node("FromSignal", <<1>>, <<>>)>>)})
Ordinary(t) == [root |-> t, rate |-> 4, dur |-> 14, t0 |-> 0, sources |-> {1}]
Rendered == {Ordinary(t) : t \in Trees}
            \cup {[Ordinary(Node("Dc", <<1>>, <<>>)) EXCEPT !.rate = 0]}
            \cup {[Ordinary(Joined) EXCEPT !.t0 = t] : t \in {-5, 7, 999}}
            \cup {[Ordinary(Joined) EXCEPT !.sources = {}]}
Windows == {<<0, 9>>, <<1, 4>>}

\* Pulse trains: every way of spacing pulses, and one or two extra fields.
Spacings ==
  [mode : {"fixed"}, pri : {0, 2}]
  \cup [mode : {"stagger"}, positions : {<<>>, <<2, 1>>, <<1, 4, 2>>, <<2, 0>>, <<3, -1>>}]
  \cup [mode : {"jitter"}, pri : {4}, quarters : {0, 3, 6}]
  \cup [mode : {"drift"}, pri : {3}, per : {-1, 1}]
Shapes == {[shape |-> "ramp", lo |-> 1, hi |-> 5], [shape |-> "sequence", values |-> <<7, 8, 9>>],
           [shape |-> "sequence", values |-> <<>>], [shape |-> "uniform", lo |-> 2, hi |-> 1], [shape |-> "gaussian", sigma |-> 1],
           [shape |-> "scan", mean |-> 0, period |-> 3]}
FieldNames == {[name |-> "a b", key |-> "ab"], [name |-> "ab", key |-> "ab"], [name |-> "c", key |-> "c"], [name |-> " ", key |-> ""]}
Fields == {[name |-> n.name, key |-> n.key, value |-> v] : n \in FieldNames, v \in Shapes}
Only == [name |-> "c", key |-> "c", value |-> [shape |-> "constant", value |-> 0]]
Trains == [groups : 0..3, each : 0..3, pri : Spacings, fields : {<<Only>>}]
          \cup [groups : 0..3, each : 0..2, pri : [mode : {"fixed"}, pri : {2}], fields : {<<>>} \cup {<<f>> : f \in Fields}]
          \cup [groups : {2}, each : {2}, pri : [mode : {"fixed"}, pri : {2}], fields : {<<f, g>> : f \in Fields, g \in Fields}]

-----------------------------------------------------------------------------
BuiltIn == INSTANCE Stages WITH
  Signals <- Captured, Period <- 4, NaN <- 9
Rendering == INSTANCE GenRender WITH
  Specs <- Rendered, Ranges <- Windows, Chunk <- 2, ProbeSamples <- 2, ProbeBlocks <- 2,
  phase <- renderingPhase, out <- renderingOut
Formula == INSTANCE GenExpr WITH
  Tokens <- {"n", "f", "g", "+", "-", "*", "^", ",", "(", ")"}, MaxTokens <- 5,
  out <- formulaOut
ByIndex == INSTANCE Streams WITH
  Octaves <- 3, Orders <- {2, 3, 5, 7, 8, 9}, MaxIndex <- 9, MaxPulses <- 6,
  held <- randomHeld, at <- randomAt
Editor == INSTANCE GenerateScreen WITH
  Kinds <- {"Sine", "Concat"}, Values <- {2}, Variants <- {"fixed", "constant", "tukey", "fm"},
  Presets <- {G!KindDefault("Envelope"), G!KindDefault("Modulate")}, MaxDepth <- 1, MaxKids <- 2, MaxFields <- 1,
  MaxDrafts <- 1, MaxErrors <- 1, root <- editorRoot, train <- editorTrain,
  dirty <- editorDirty

BitsUnused ==
  group = 0 /\ symbols = 0 /\ bits = 0
SearchUnused ==
  frame = 0 /\ regular = 0 /\ detections = 0 /\ peaks = 0 /\ metrics = 0
RenderingUnused ==
  spec = 0 /\ asked = 0 /\ renderingPhase = 0 /\ todo = 0 /\ busy = 0 /\
  renderingOut = 0 /\ probes = 0 /\ cancelled = 0
FormulaUnused ==
  source = 0 /\ formulaOut = 0 /\ pending = 0 /\ expectValue = 0 /\ verdict = 0
RandomUnused ==
  next = 0 /\ pos = 0 /\ randomHeld = 0 /\ drawn = 0 /\ order = 0 /\ state = 0 /\
  randomAt = 0 /\ bit = 0
PulsedUnused ==
  train = 0 /\ made = 0 /\ stored = 0
EditorUnused ==
  mode = 0 /\ editorRoot = 0 /\ editorTrain = 0 /\ selected = 0 /\ drafts = 0 /\
  errors = 0 /\ editorDirty = 0 /\ flight = 0 /\ shown = 0
BitsVars == <<group, symbols, bits>>
SearchVars == <<frame, regular, detections, peaks, metrics>>
RenderingVars == <<spec, asked, renderingPhase, todo, busy, renderingOut, probes,
  cancelled>>
FormulaVars == <<source, formulaOut, pending, expectValue, verdict>>
RandomVars == <<next, pos, randomHeld, drawn, order, state, randomAt, bit>>
PulsedVars == <<train, made, stored>>
EditorVars == <<mode, editorRoot, editorTrain, selected, drafts, errors,
  editorDirty, flight, shown>>

\* A behaviour is of one component; the others are not there.
ProcessingInit ==
  /\ VettingInit
  /\ ExtInit
  /\ Init
  /\ IF part = "digital" THEN BuiltIn!DigitalInit ELSE BitsUnused
  /\ IF part = "detect" THEN BuiltIn!DetectInit ELSE SearchUnused
  /\ IF part = "render" THEN Rendering!RenderInit ELSE RenderingUnused
  /\ IF part = "expr" THEN Formula!ExprInit ELSE FormulaUnused
  /\ IF part = "streams" THEN ByIndex!StreamsInit ELSE RandomUnused
  /\ IF part = "pulses" THEN ByIndex!TrainInit(Trains) ELSE PulsedUnused
  /\ IF part = "generate" THEN Editor!GenInit ELSE EditorUnused

ProcessingVars == <<VettingVars, extVars, vars,
  BitsVars, SearchVars, RenderingVars, FormulaVars, RandomVars, PulsedVars, EditorVars>>

ProcessingNext ==
  /\ VettingNext
  /\ IF part = "external" THEN ExtNext ELSE UNCHANGED extVars
  /\ IF part = "budget" THEN Next ELSE UNCHANGED vars
  /\ IF part = "digital" THEN BuiltIn!DigitalNext ELSE UNCHANGED BitsVars
  /\ IF part = "detect" THEN BuiltIn!DetectNext ELSE UNCHANGED SearchVars
  /\ IF part = "render" THEN Rendering!RenderNext ELSE UNCHANGED RenderingVars
  /\ IF part = "expr" THEN Formula!ExprNext ELSE UNCHANGED FormulaVars
  /\ IF part = "streams" THEN ByIndex!StreamsNext ELSE UNCHANGED RandomVars
  /\ IF part = "pulses" THEN ByIndex!TrainNext ELSE UNCHANGED PulsedVars
  /\ IF part = "generate" THEN Editor!GenNext ELSE UNCHANGED EditorVars

ProcessingSpec == ProcessingInit /\ [][ProcessingNext]_ProcessingVars

-----------------------------------------------------------------------------
\* Each stage computes what its definition says in the terms of the signal, and not in
\* those of the loop that computes it: logic by the band it is in, symbols by the
\* nearest level at the instants in phase with an edge, words that unpack to the
\* stream, spans as the maximal runs, intervals that add up, peaks that are the
\* tallest and as prominent as the samples around them make them (digital.rs, detect.rs);
\* and a library's answer gives every buffer to the signal it replaces (sp-ext stage.rs).
StagesAreExact ==
  /\ BuffersGoHome
  /\ part = "digital" => /\ BuiltIn!LogicKeepsItsBand /\ BuiltIn!NearestIsDecided
                         /\ BuiltIn!ClockIsTheEdges /\ BuiltIn!WordsHoldTheStream
  /\ part = "detect" => /\ BuiltIn!SpansAreTheRuns /\ BuiltIn!IntervalsAddUp
                        /\ BuiltIn!TallestAreKept /\ BuiltIn!ProminenceIsHonest

\* A generated sample is what the specification says of that one sample: which chunk
\* it fell in, which thread measured a noise level first, what range was asked, what
\* was drawn before it and in which group a pulse is made do not show.  What is let
\* through can be rendered, below half the rate it is rendered on, and every issue is
\* at a node the editor can select.  While the specification is edited its pointers
\* lead to the nodes they were given for, a move keeps the node selected and its
\* primitives, a box shows what it addresses unless a variant was picked for the object
\* around it since it was typed in, and the preview that has settled is of the document
\* on screen (validate.rs, render.rs, expr.rs, noise.rs, train.rs,
\* tree.rs, screens/generate.rs).
SamplesStandAlone ==
  /\ part = "render" => /\ Rendering!RenderTypeOK /\ Rendering!ChunksMakeTheWhole
                        /\ Rendering!AcceptedRenders /\ Rendering!CleanIsBelowNyquist
                        /\ Rendering!IssuesResolve
  /\ part = "expr" => Formula!ExprTypeOK /\ Formula!MeansWhatItSays
  /\ part = "streams" => /\ ByIndex!StreamsTypeOK /\ ByIndex!DrawsByIndex
                         /\ ByIndex!SeekIsStepping /\ ByIndex!PeriodIsMaximal
  /\ part = "pulses" => /\ ByIndex!ElapsedIsTheSum /\ ByIndex!PulsesArriveInOrder
                        /\ ByIndex!FieldsAreFound
  /\ part = "generate" => /\ Editor!GenTypeOK /\ Editor!TreeIsSound /\ Editor!MovesKeepTheNode
                          /\ Editor!DraftsStayHome /\ Editor!PreviewIsCurrent

=============================================================================
