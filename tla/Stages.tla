------------------------------- MODULE Stages -------------------------------
(****************************************************************************)
(* Stages that come with the application (crates/sp-dsp), as the exact part   *)
(* of their arithmetic: the detecting ones, and the digital ones as a chain.  *)
(* The two families do not touch each other: a behaviour is of one of them.   *)
(****************************************************************************)
EXTENDS Integers, Sequences, FiniteSets, FiniteSetsExt

CONSTANTS Frames,       \* sequences of signals [name, values]
          Thresholds,   \* [level, below, hysteresis, width]
          Finders,      \* [minima, prominence, gap, count, window]: 0 is no limit
          NaN           \* an integer no sample's value is, standing for not-a-number

-----------------------------------------------------------------------------
(* Detecting (detect.rs): spans past a threshold with hysteresis, the pulse    *)
(* measures taken from them, and peaks ranked by height and kept apart.  A     *)
(* time is a number of samples; a signal without a rate has none.  Threshold   *)
(* and PeakFind do not touch each other: a behaviour has one of them.          *)

VARIABLES frame, regular, detections, peaks, metrics

detectVars == <<frame, regular, detections, peaks, metrics>>

NotYet == {}

\* What configure accepts: a length is not negative.
ThresholdParams == [level : Int, below : BOOLEAN, hysteresis : Nat, width : Nat]
PeakParams == [minima : BOOLEAN, prominence : Nat, gap : Nat, count : Nat, window : Nat]

-----------------------------------------------------------------------------

\* Threshold::is_in: a detection ends further back than where it begins.
IsIn(t, v, already) ==
  LET back == IF already THEN t.hysteresis ELSE 0
  IN  v # NaN /\ (IF t.below THEN v <= t.level + back ELSE v >= t.level - back)

Better(t, v, peak) == IF t.below THEN v < peak ELSE v > peak
TimeOf(i) == IF regular THEN i ELSE 0

\* close: a span too short is dropped; a span ends when its last sample does.
Closed(t, spans, open, end) ==
  LET span == <<TimeOf(open[1]), TimeOf(end - 1) + (IF regular THEN 1 ELSE 0)>>
  IN  IF span[2] - span[1] < t.width THEN spans
      ELSE Append(spans, [from |-> span[1], to |-> span[2], peak |-> open[2]])

\* Threshold::scan: one pass, an open span closed by the end of the signal.
Scanned(t, values) ==
  LET step[i \in 0..Len(values)] ==
        IF i = 0 THEN [open |-> <<>>, spans |-> <<>>]
        ELSE LET was == step[i - 1]  in == IsIn(t, values[i], was.open # <<>>)
             IN  CASE was.open = <<>> /\ in -> [was EXCEPT !.open = <<i - 1, values[i]>>]
                   [] was.open # <<>> /\ in ->
                        IF Better(t, values[i], was.open[2]) THEN [was EXCEPT !.open[2] = values[i]] ELSE was
                   [] was.open # <<>> /\ ~in -> [open |-> <<>>, spans |-> Closed(t, was.spans, was.open, i - 1)]
                   [] OTHER -> was
      last == step[Len(values)]
  IN  IF last.open = <<>> THEN last.spans ELSE Closed(t, last.spans, last.open, Len(values))

\* widest_s: zero without a detection.
Widest(spans) == Max({0} \cup UNION {{spans[i][n].to - spans[i][n].from : n \in DOMAIN spans[i]} : i \in DOMAIN spans})

\* Threshold::process: signal after signal into one artifact.
Threshold(t) ==
  /\ t \in ThresholdParams /\ detections = NotYet /\ peaks = NotYet
  /\ LET spans == [i \in DOMAIN frame |-> Scanned(t, frame[i].values)]
     IN  detections' = {[by |-> t, spans |-> spans, widest |-> Widest(spans)]}
  /\ UNCHANGED <<frame, regular, peaks, metrics>>

-----------------------------------------------------------------------------
StartsOf(d, names) == {<<i, n>> \in (DOMAIN frame) \X (1..Max({Len(f.values) : f \in {frame[i] : i \in DOMAIN frame}})) :
                          frame[i].name \in names /\ n \in DOMAIN d.spans[i]}

\* The gaps between successive starts, in time order.
Gaps(d, starts) ==
  LET From(s) == d.spans[s[1]][s[2]].from
      Earlier(r, s) == From(r) < From(s) \/ (From(r) = From(s) /\ (r[1] < s[1] \/ (r[1] = s[1] /\ r[2] < s[2])))
      Next(s) == CHOOSE r \in starts : Earlier(s, r) /\ ~\E q \in starts : Earlier(s, q) /\ Earlier(q, r)
  IN  {[of |-> s, gap |-> From(Next(s)) - From(s)] : s \in {s \in starts : \E r \in starts : Earlier(s, r)}}

\* widths_and_intervals: interval after interval, of each name by itself.
Intervals(d) == UNION {Gaps(d, StartsOf(d, {name})) : name \in {frame[i].name : i \in DOMAIN frame}}

\* PulseMetrics::measure; a mean is kept as its sum and how many it is of.
Measure ==
  /\ metrics = NotYet
  /\ \E d \in detections :
       LET all == StartsOf(d, {frame[i].name : i \in DOMAIN frame})
       IN  metrics' = {[pulses |-> Cardinality(all),
                        width |-> MapThenSumSet(LAMBDA s : d.spans[s[1]][s[2]].to - d.spans[s[1]][s[2]].from, all),
                        pri |-> <<MapThenSumSet(LAMBDA g : g.gap, Intervals(d)), Cardinality(Intervals(d))>>]}
  /\ UNCHANGED <<frame, regular, detections, peaks>>

-----------------------------------------------------------------------------
Rises(v, i) == v[i] # NaN /\ v[i - 1] # NaN /\ v[i] > v[i - 1]

\* local_maxima: a rise, a plateau and a fall; the plateau's centre.
LocalMaxima(v) ==
  LET End(i) == Max({e \in i..Len(v) : \A k \in i..e : v[k] = v[i]})
  IN  {(i - 1 + End(i) - 1) \div 2 + 1 : i \in {i \in 2..(Len(v) - 1) : Rises(v, i) /\ End(i) < Len(v)
                                                   /\ v[End(i) + 1] # NaN /\ v[End(i) + 1] < v[i]}}

\* reach: the lowest value on the way, as far as nothing is strictly higher.
Floor(v, at, to) ==
  LET path == IF to >= at THEN at..to ELSE to..at
      Between(k) == IF to >= at THEN at..k ELSE k..at
  IN  Min({v[k] : k \in {k \in path : v[k] # NaN /\ \A j \in Between(k) : v[j] = NaN \/ v[j] <= v[at]}})

Prominence(v, at, window) ==
  LET span == IF window = 0 THEN Len(v) ELSE window
  IN  v[at] - Max({Floor(v, at, Max({at - span, 1})), Floor(v, at, Min({at + span, Len(v)}))})

Worked(f, values) == [i \in DOMAIN values |-> IF f.minima /\ values[i] # NaN THEN -values[i] ELSE values[i]]
Candidates(f, v) == {i \in LocalMaxima(v) : Prominence(v, i, f.window) >= f.prominence}

SlipKept(f, v) == {i \in Candidates(f, v) : \A j \in Candidates(f, v) \ {i} :
                      v[j] > v[i] => (IF i > j THEN i - j ELSE j - i) >= f.gap}

\* scan: the tallest first, each kept unless a kept one is too near, up to the count.
Kept(f, v) ==
  LET all == Candidates(f, v)
      Taller(i, j) == v[i] > v[j] \/ (v[i] = v[j] /\ i < j)
      Rank(n) == CHOOSE i \in all : Cardinality({j \in all : Taller(j, i)}) = n - 1
      Near(i, j) == (IF i > j THEN i - j ELSE j - i) < f.gap
      kept[n \in 0..Cardinality(all)] ==
        IF n = 0 THEN {}
        ELSE IF (\E j \in kept[n - 1] : Near(Rank(n), j)) \/ (f.count > 0 /\ Cardinality(kept[n - 1]) = f.count)
             THEN kept[n - 1] ELSE kept[n - 1] \cup {Rank(n)}
  IN  kept[Cardinality(all)]

\* Without a rate neither the gap nor the window limits anything.
Effective(f) == IF regular THEN f ELSE [f EXCEPT !.gap = 0, !.window = 0]

\* Peaks::strongest, of the rows in the order pushed: <<signal, index>>, the first of equals.
Strongest(f, kept) ==
  LET rows == UNION {{<<i, at>> : at \in kept[i]} : i \in DOMAIN kept}
      P(r) == Prominence(Worked(f, frame[r[1]].values), r[2], Effective(f).window)
      Before(q, r) == q[1] < r[1] \/ (q[1] = r[1] /\ q[2] < r[2])
  IN  {r \in rows : \A q \in rows \ {r} : P(q) < P(r) \/ (P(q) = P(r) /\ Before(r, q))}

\* PeakFind::process
Find(f) ==
  /\ f \in PeakParams /\ detections = NotYet /\ peaks = NotYet
  /\ LET kept == [i \in DOMAIN frame |-> Kept(Effective(f), Worked(f, frame[i].values))]
     IN  peaks' = {[by |-> f, kept |-> kept, strongest |-> Strongest(f, kept)]}
  /\ UNCHANGED <<frame, regular, detections, metrics>>

DetectInit == frame \in Frames /\ regular \in BOOLEAN /\ detections = NotYet /\ peaks = NotYet /\ metrics = NotYet
DetectNext == \/ \E t \in Thresholds : Threshold(t)
              \/ Measure
              \/ \E f \in Finders : Find(f)

-----------------------------------------------------------------------------
\* The spans of a regular signal are its maximal runs of samples that have been past
\* the threshold and not back past the hysteresis since, in order, the short ones
\* dropped, the run the signal ends in included, each with its extreme value.
SpansAreTheRuns ==
  \A d \in detections : regular => \A s \in DOMAIN frame :
    LET v == frame[s].values
        Held(k) == v[k] # NaN /\ (IF d.by.below THEN v[k] <= d.by.level + d.by.hysteresis ELSE v[k] >= d.by.level - d.by.hysteresis)
        Past(k) == v[k] # NaN /\ (IF d.by.below THEN v[k] <= d.by.level ELSE v[k] >= d.by.level)
        In(i) == \E j \in 1..i : Past(j) /\ \A k \in j..i : Held(k)
        runs == {<<a, b>> \in (DOMAIN v) \X (DOMAIN v) :
                   /\ a <= b /\ b - a + 1 >= d.by.width /\ \A k \in a..b : In(k)
                   /\ (a = 1 \/ ~In(a - 1)) /\ (b = Len(v) \/ ~In(b + 1))}
        spans == d.spans[s]
    IN  /\ {<<spans[n].from + 1, spans[n].to>> : n \in DOMAIN spans} = runs
        /\ \A n \in DOMAIN spans :
             /\ n > 1 => spans[n - 1].to < spans[n].from
             /\ spans[n].peak = (IF d.by.below THEN Min({v[k] : k \in (spans[n].from + 1)..spans[n].to})
                                              ELSE Max({v[k] : k \in (spans[n].from + 1)..spans[n].to}))

\* The intervals of a name add up to the time between its first and its last start:
\* pulses of another channel in between do not split them.
IntervalsAddUp ==
  \A m \in metrics : \A d \in detections :
    LET Froms(name) == {d.spans[s[1]][s[2]].from : s \in StartsOf(d, {name})}
        fired == {name \in {frame[i].name : i \in DOMAIN frame} : Froms(name) # {}}
    IN  /\ m.pri[1] = MapThenSumSet(LAMBDA name : Max(Froms(name)) - Min(Froms(name)), fired)
        /\ m.pri[2] = m.pulses - Cardinality(fired)

\* Kept peaks are as far apart as asked, no more than asked, and a peak that passed
\* the filter is left out only for kept ones that are at least as tall.  Of any two close
\* peaks the taller need not be kept, as the parameter's help says it is (detect.rs 234):
\* one still taller may push it out, and the lower one stays.
TallestAreKept ==
  \A p \in peaks : \A s \in DOMAIN frame :
    LET f == Effective(p.by)  v == Worked(f, frame[s].values)
        Apart(i, j) == IF i > j THEN i - j ELSE j - i
    IN  /\ \A i, j \in p.kept[s] : i # j => Apart(i, j) >= f.gap
        /\ f.count > 0 => Cardinality(p.kept[s]) <= f.count
        /\ \A i \in Candidates(f, v) \ p.kept[s] :
             \/ \E j \in p.kept[s] : Apart(i, j) < f.gap /\ v[j] >= v[i]
             \/ f.count > 0 /\ Cardinality(p.kept[s]) = f.count /\ \A j \in p.kept[s] : v[j] >= v[i]

\* A window only understates a prominence; peaks of one height do not hide each other:
\* with nothing higher a peak stands over the higher of the two sides' lowest values.
ProminenceIsHonest ==
  \A s \in DOMAIN frame : LET v == frame[s].values IN \A i \in LocalMaxima(v) :
    /\ \A w \in 1..Len(v) : Prominence(v, i, w) <= Prominence(v, i, 0)
    /\ (\A k \in DOMAIN v : v[k] = NaN \/ v[k] <= v[i]) =>
         Prominence(v, i, 0) = v[i] - Max({Min({v[k] : k \in {k \in 1..i : v[k] # NaN}}),
                                           Min({v[k] : k \in {k \in i..Len(v) : v[k] # NaN}})})

-----------------------------------------------------------------------------
(* Digital (digital.rs): a comparator with hysteresis adds a logic signal, a   *)
(* symbol decoder recovers a clock and decides one symbol per period, a packer *)
(* turns the symbols into words.  Time is whole ticks from the first sample; a *)
(* level is an integer.                                                        *)

CONSTANTS Signals,      \* sequences of samples a captured signal may have
          Slices,       \* [level, half, invert]: half of the hysteresis
          Decoders,     \* [name, width, levels, level, edge, phase]: phase in ticks
          Packers,      \* [width, msb, invert]
          Period        \* ticks from sample to sample

VARIABLES group,        \* the signals of the frame, in order
          symbols,      \* the symbols artifact: what was decided, when
          bits          \* the bits artifact: words of digits

digitalVars == <<group, symbols, bits>>

Above(v, level) == v # NaN /\ v > level
Under(v, level) == v # NaN /\ v < level

\* What configure accepts of each stage's parameters.
SliceParams == [level : Int, half : Nat, invert : BOOLEAN]
SymbolParams == [name : {"", "a", "logic", "none"}, width : Nat \ {0}, levels : {2, 4}, level : Int, edge : BOOLEAN, phase : Nat]
BitParams == [width : 1..64, msb : BOOLEAN, invert : BOOLEAN]

\* signal_named, or the first one for the empty name.
Chosen(name) == IF name = "" THEN group[1] ELSE group[Min({i \in DOMAIN group : group[i].name = name})]
Has(name) == name = "" \/ \E i \in DOMAIN group : group[i].name = name

-----------------------------------------------------------------------------

\* Slice::slice: high until the band is left downwards, low until it is left upwards.
Levels(s, values) ==
  LET high[i \in 0..Len(values)] ==
        IF i = 0 THEN FALSE
        ELSE LET bound == IF high[i - 1] THEN s.level - s.half ELSE s.level + s.half
             IN  Above(values[i], bound) \/ (high[i - 1] /\ ~Under(values[i], bound))
  IN  [i \in DOMAIN values |-> high[i]]

\* Slice::process: the waveform stays, the logic is added beside it.
Slice(s) ==
  /\ s \in SliceParams /\ Len(group) = 1 /\ symbols = {}
  /\ group' = IF group[1].values = <<>> THEN group
              ELSE Append(group, [name |-> "logic",
                     values |-> [i \in DOMAIN group[1].values |->
                                   IF Levels(s, group[1].values)[i] # s.invert THEN 1 ELSE 0]])
  /\ UNCHANGED <<symbols, bits>>

-----------------------------------------------------------------------------
\* Levels are two apart, around the centre; a boundary lies halfway.
Nominal(d, k) == d.level + 2 * k - (d.levels - 1)
Boundaries(d) == {(Nominal(d, k) + Nominal(d, k + 1)) \div 2 : k \in 0..(d.levels - 2)}

\* decide: how many boundaries the value is above.
Decide(d, v) == Cardinality({b \in Boundaries(d) : v > b})
Margin(d, v) == Min({IF v > b THEN v - b ELSE b - v : b \in Boundaries(d)})

\* The first crossing of the centre: the sample before it, or 0 when there is none.
Edge(d, values) ==
  LET AtOrAbove(v) == v # NaN /\ v >= d.level
      crossed == {i \in 1..(Len(values) - 1) :
                    \/ Under(values[i], d.level) /\ AtOrAbove(values[i + 1])
                    \/ AtOrAbove(values[i]) /\ Under(values[i + 1], d.level)}
  IN  IF crossed = {} THEN 0 ELSE Min(crossed)

\* first_instant: the instant after the edge, walked back by whole symbols while that is inside.
First(d, values) ==
  IF ~d.edge \/ Edge(d, values) = 0 THEN d.phase
  ELSE (Edge(d, values) * Period + d.phase) % d.width

\* index_at: the sample at or before, kept inside the signal; the first is 1 here.
IndexAt(at, count) == Min({at \div Period, count - 1}) + 1

\* decode: every instant up to the last sample, the ones that read NaN left out.
Decoded(d, values) ==
  LET first == First(d, values)
      Value(n) == values[IndexAt(first + n * d.width, Len(values))]
      steps == {n \in 0..(Len(values) * Period) :
                  values # <<>> /\ first + n * d.width <= (Len(values) - 1) * Period /\ Value(n) # NaN}
  IN  {[at |-> first + n * d.width, value |-> Value(n), symbol |-> Decide(d, Value(n)),
        margin |-> Margin(d, Value(n))] : n \in steps}

Readable(d) == Has(d.name) /\ Chosen(d.name).values # <<>>

\* SymbolDecode::process refuses a symbol shorter than a sample, and publishes no
\* symbols of a signal that is not there or is empty.
Decode(d) ==
  /\ d \in SymbolParams /\ d.phase <= d.width /\ symbols = {} /\ (Readable(d) => d.width >= Period)
  /\ LET values == IF Readable(d) THEN Chosen(d.name).values ELSE <<>>
     IN  symbols' = {[by |-> d, from |-> values, found |-> Decoded(d, values)]}
  /\ UNCHANGED <<group, bits>>

-----------------------------------------------------------------------------
InOrder(found) == LET at(n) == CHOOSE s \in found : Cardinality({r \in found : r.at < s.at}) = n - 1
                  IN  [n \in 1..Cardinality(found) |-> at(n)]
BitsPerSymbol(levels) == IF levels = 2 THEN 1 ELSE 2

\* stream: the symbols' bits in the order decoded, the most significant of each first.
Stream(p, d, found) ==
  LET per == BitsPerSymbol(d.levels)
  IN  [i \in 1..(Cardinality(found) * per) |->
         LET symbol == InOrder(found)[((i - 1) \div per) + 1].symbol
             set == ((symbol \div (2 ^ (per - 1 - ((i - 1) % per)))) % 2) = 1
         IN  IF set # p.invert THEN 1 ELSE 0]

Words(p, stream) == [w \in 1..((Len(stream) + p.width - 1) \div p.width) |->
                       SubSeq(stream, (w - 1) * p.width + 1, Min({w * p.width, Len(stream)}))]

\* pack: the first bit is the highest or the lowest one of the word's own length.
Packed(p, word) ==
  LET shift(i) == IF p.msb THEN Len(word) - i ELSE i - 1
  IN  MapThenSumSet(LAMBDA i : word[i] * 2 ^ shift(i), DOMAIN word)

\* Bits::push: a word is written out from its highest bit.
Digits(value, length) == [i \in 1..length |-> (value \div 2 ^ (length - i)) % 2]

\* BitPack::process
Pack(p) ==
  /\ p \in BitParams /\ bits = {}
  /\ \E s \in symbols :
       LET stream == Stream(p, s.by, s.found)
       IN  bits' = {[by |-> p, stream |-> stream,
                     words |-> [w \in DOMAIN Words(p, stream) |->
                       LET word == Words(p, stream)[w]
                       IN  [value |-> Packed(p, word), digits |-> Digits(Packed(p, word), Len(word))]]]}
  /\ UNCHANGED <<group, symbols>>

DigitalInit == group \in {<<[name |-> "a", values |-> v]>> : v \in Signals} /\ symbols = {} /\ bits = {}
DigitalNext == \/ \E s \in Slices : Slice(s)
               \/ \E d \in Decoders : Decode(d)
               \/ \E p \in Packers : Pack(p)

-----------------------------------------------------------------------------
\* The logic is high exactly when the waveform has gone above the band and has not
\* been below it since: noise inside the band never toggles it, and a NaN holds it.
LogicKeepsItsBand ==
  \A s \in Slices : LET v == group[1].values IN \A i \in DOMAIN v :
    Levels(s, v)[i] <=>
      \E j \in 1..i : Above(v[j], s.level + s.half) /\ \A k \in j..i : ~Under(v[k], s.level - s.half)

\* A symbol is the level nearest to what was sampled, the lower one of two, and its
\* margin is the distance to the closest value that would have been decided otherwise.
NearestIsDecided ==
  \A s \in symbols : \A f \in s.found :
    LET Off(k) == IF f.value > Nominal(s.by, k) THEN f.value - Nominal(s.by, k) ELSE Nominal(s.by, k) - f.value
    IN  /\ \A k \in 0..(s.by.levels - 1) : Off(f.symbol) < Off(k) \/ (Off(f.symbol) = Off(k) /\ f.symbol <= k)
        /\ \A off \in 1..(f.margin - 1) : Decide(s.by, f.value + off) = f.symbol /\ Decide(s.by, f.value - off) = f.symbol

\* Every instant of the capture that is in phase with the first crossing is decided,
\* once, unless the sample there is not a number: none is missed at the start.
ClockIsTheEdges ==
  \A s \in symbols :
    LET edge == Edge(s.by, s.from)
        inPhase == {t \in 0..((Len(s.from) - 1) * Period) : t % s.by.width = (edge * Period + s.by.phase) % s.by.width}
    IN  s.by.edge /\ edge # 0 =>
          {f.at : f \in s.found} = {t \in inPhase : s.from[(t \div Period) + 1] # NaN}

\* No bit is lost, added or moved: unpacking the words gives the stream, short last word included.
WordsHoldTheStream ==
  \A b \in bits :
    LET unpacked(w) == LET length == Len(w.digits)
                       IN  IF b.by.msb THEN w.digits ELSE [i \in 1..length |-> w.digits[length - i + 1]]
        joined[n \in 0..Len(b.words)] == IF n = 0 THEN <<>> ELSE joined[n - 1] \o unpacked(b.words[n])
    IN  joined[Len(b.words)] = b.stream
=============================================================================
