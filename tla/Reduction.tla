----------------------------- MODULE Reduction -----------------------------
(***************************************************************************)
(* A stored column drawn in a window (crates/sp-engine: pyramid.rs,        *)
(* reduce.rs, viewport.rs, compare.rs).  A builder folds values into cells *)
(* of 2^BaseShift, the levels above are folded pairwise, and a frame reads *)
(* one slice of one level, or the values themselves, into one (min, max)   *)
(* pair per pixel.  A pinned second column is drawn over the same pixels,  *)
(* and the residual is taken from what the two reduced to.                 *)
(*                                                                         *)
(* Times are integer ticks, sample i of a column lies at i * period, and a *)
(* pixel is duration / width ticks: the code's floating-point quotients are *)
(* exact here.  Sample values are small integers or Gap (not finite).      *)
(***************************************************************************)
EXTENDS Integers, Sequences

CONSTANTS BaseShift,       \* log2 of the values in a level-0 cell (6 in the code)
          Values, Changed, \* finite sample values, and the one a pinned column may differ by
          MaxLength,       \* bound on the lengths whose reads are counted
          MaxCount,        \* bound on the values of the column
          Periods,         \* ticks between two samples, of either column
          Widths, Starts,  \* pixels of the canvas; bound on where the window starts
          MinDuration, MaxDuration,   \* the zoom limits
          Styles           \* [gain, bias] a frame may be drawn with

Gap == 1000
Inf == 100
Least(a, b) == IF a < b THEN a ELSE b
Most(a, b) == IF a > b THEN a ELSE b
Clamp(x, low, high) == Most(low, Least(x, high))
CeilDiv(a, b) == -((-a) \div b)

Nothing == [min |-> Inf, max |-> -Inf]         \* MinMax::EMPTY
Void(c) == c.min > c.max
Include(c, v) ==
  IF v = Gap THEN c ELSE [min |-> Least(c.min, v), max |-> Most(c.max, v)]
Merge(c, d) == [min |-> Least(c.min, d.min), max |-> Most(c.max, d.max)]

VARIABLES window, width, \* the viewport: [start, duration], and its pixels
          style, periodA, periodB,
          phase,         \* "view", "push", "fold" or "drawn"
          column,        \* the values pushed, which the library stores
          base, open, filled,   \* the builder
          levels,        \* the pyramid, level 0 first
          other          \* the pinned column
redVars == <<window, width, style, periodA, periodB, phase, column, base, open, filled, levels, other>>

----------------------------------------------------------------------------
\* Sizes of a pyramid over n values: cells_at, span_at, level_count.
Span(level) == 2 ^ (BaseShift + level)
CellsAt(n, level) == CeilDiv(n, Span(level))
LevelCount(n) ==
  IF n = 0 THEN 0
  ELSE CHOOSE k \in 1 .. n : CellsAt(n, k - 1) = 1 /\ \A j \in 1 .. k - 1 : CellsAt(n, j - 1) > 1

\* The viewport.
Windows == [start : Starts, duration : MinDuration .. MaxDuration]
SetTime(start, duration) ==
  [start |-> start, duration |-> IF duration <= 0 THEN MinDuration
                                 ELSE Clamp(duration, MinDuration, MaxDuration)]
RedInit ==
  /\ window = SetTime(0, MaxDuration) /\ width \in Widths /\ style \in Styles
  /\ periodA \in Periods /\ periodB \in Periods
  /\ phase = "view" /\ column = <<>> /\ base = <<>> /\ open = Nothing /\ filled = 0
  /\ levels = <<>> /\ other = <<>>

Move(w) == /\ phase = "view" /\ w.start \in Starts /\ window' = w
           /\ UNCHANGED <<width, style, periodA, periodB, phase, column, base, open, filled,
                          levels, other>>
Zoomed(a, num, den) ==
  SetTime(a - ((a - window.start) * num) \div den, (window.duration * num) \div den)
ZoomAt(a, num, den) ==
  /\ (a - window.start) % den = 0 /\ window.duration % den = 0 /\ Move(Zoomed(a, num, den))
ZoomOut == \E a \in Starts : ZoomAt(a, 2, 1)
ZoomIn == \E a \in Starts : ZoomAt(a, 1, 2)
Pan == \E dt \in {-1, 1} : Move(SetTime(window.start + dt, window.duration))
FitTime == \E w \in Windows : Move(SetTime(w.start, w.duration))

----------------------------------------------------------------------------
\* PyramidBuilder.
StartBuild == /\ phase = "view" /\ phase' = "push"
              /\ UNCHANGED <<window, width, style, periodA, periodB, column, base, open, filled,
                             levels, other>>
Push == \E v \in Values \cup {Gap} :
  /\ phase = "push" /\ Len(column) < MaxCount
  /\ column' = Append(column, v)
  /\ LET cell == Include(open, v)
     IN IF filled + 1 = Span(0)
        THEN base' = Append(base, cell) /\ open' = Nothing /\ filled' = 0
        ELSE open' = cell /\ filled' = filled + 1 /\ UNCHANGED base
  /\ UNCHANGED <<window, width, style, periodA, periodB, phase, levels, other>>
Flushed == IF filled > 0 THEN Append(base, open) ELSE base
Finish ==
  /\ phase = "push" /\ column # <<>>
  /\ levels' = <<Flushed>> /\ phase' = "fold"
  /\ UNCHANGED <<window, width, style, periodA, periodB, column, base, open, filled, other>>
Folded(below) ==
  [j \in 1 .. CeilDiv(Len(below), 2) |->
     IF 2 * j <= Len(below) THEN Merge(below[2 * j - 1], below[2 * j]) ELSE below[2 * j - 1]]
Top == levels[Len(levels)]
Fold ==
  /\ phase = "fold" /\ Len(Top) > 1 /\ levels' = Append(levels, Folded(Top))
  /\ UNCHANGED <<window, width, style, periodA, periodB, phase, column, base, open, filled, other>>
\* The frame is drawn, with a pinned column that differs in at most one value.
Draw == \E i \in 1 .. Len(column) :
  /\ phase = "fold" /\ Len(Top) = 1 /\ phase' = "drawn"
  /\ other' = [column EXCEPT ![i] = Changed]
  /\ UNCHANGED <<window, width, style, periodA, periodB, column, base, open, filled, levels>>

RedNext == ZoomOut \/ ZoomIn \/ Pan \/ FitTime \/ StartBuild \/ Push \/ Finish \/ Fold \/ Draw
RedSpec == RedInit /\ [][RedNext]_redVars

----------------------------------------------------------------------------
\* trace: what a column of values, period ticks apart, is drawn as.
WindowEnd == window.start + window.duration
\* Pixel position of t, rounded down or up and clamped to the canvas.
FloorX(t) == Clamp(((t - window.start) * width) \div window.duration, 0, width)
CeilX(t) == Clamp(CeilDiv((t - window.start) * width, window.duration), 0, width)
\* Viewport::sample_range: one sample past the right edge; indices from 0, end excluded.
SampleRange(n, p) ==
  LET start == Clamp(window.start \div p, 0, n)
  IN [start |-> start, end |-> Most(start, Clamp(CeilDiv(WindowEnd, p) + 1, 0, n))]
\* The first sample at or after the left edge of pixel px.
FirstSample(px, p) == Most(0, CeilDiv(window.start * width + px * window.duration, width * p))
ColumnSamples(px, p, visible) ==
  [start |-> Most(FirstSample(px, p), visible.start),
   end |-> Least(Most(FirstSample(px, p) + 1, FirstSample(px + 1, p)), visible.end)]

\* choose and Quality::apply, as a level or Raw.
Raw == -1
Level(n, p) ==
  IF window.duration < Span(0) * width * p THEN Raw
  ELSE LET fits == {k \in 0 .. LevelCount(n) - 1 : Span(k) * width * p <= window.duration}
       IN Clamp((CHOOSE k \in fits : \A j \in fits : j <= k) + style.bias, 0, LevelCount(n) - 1)
Styled(c) ==
  IF Void(c) THEN c ELSE [min |-> Least(style.gain * c.min, style.gain * c.max),
                          max |-> Most(style.gain * c.min, style.gain * c.max)]
Extent(vs) ==
  LET seen == {v \in vs : v # Gap}
  IN IF seen = {} THEN Nothing
     ELSE [min |-> CHOOSE v \in seen : \A u \in seen : v <= u,
           max |-> CHOOSE v \in seen : \A u \in seen : u <= v]
Merged(pyramid, level, from, end) ==
  LET cells == {pyramid[level + 1][k + 1] :
                  k \in from \div Span(level) .. CeilDiv(end, Span(level)) - 1}
  IN Extent({c.min : c \in {d \in cells : ~Void(d)}} \cup {c.max : c \in {d \in cells : ~Void(d)}})

Bars(first, cells) == [form |-> "bars", first |-> first, cells |-> cells]
Trace(vs, p, pyramid) ==
  LET n == Len(vs)
      visible == SampleRange(n, p)
      first == FloorX(visible.start * p)
      last == CeilX(visible.end * p)
      level == Level(n, p)
      Cell(px) ==
        LET s == ColumnSamples(px, p, visible)
        IN IF s.end <= s.start THEN Nothing
           ELSE IF level = Raw THEN Extent({vs[i + 1] : i \in s.start .. s.end - 1})
           ELSE Merged(pyramid, level, s.start, s.end)
  IN IF visible.end <= visible.start \/ last <= first THEN Bars(0, <<>>)
     ELSE IF window.duration < width * p
     THEN [form |-> "points",
           points |-> SelectSeq([i \in 1 .. visible.end - visible.start |->
                                   [t |-> (visible.start + i - 1) * p, v |-> vs[visible.start + i]]],
                                LAMBDA q : q.v # Gap)]
     ELSE Bars(first, [c \in 1 .. last - first |-> Styled(Cell(first + c - 1))])

\* What the library holds of a column: its pyramid, by folding it from nothing.
LevelZero(vs) ==
  [c \in 1 .. CellsAt(Len(vs), 0) |->
     Extent({vs[i] : i \in (c - 1) * Span(0) + 1 .. Least(c * Span(0), Len(vs))})]
PyramidOf(vs) ==
  LET f[k \in 1 .. LevelCount(Len(vs))] == IF k = 1 THEN LevelZero(vs) ELSE Folded(f[k - 1]) IN f
TraceA == Trace(column, periodA, levels)
TraceB == Trace(other, periodB, PyramidOf(other))

Difference(a, b) ==
  [min |-> Least(a.min - b.min, a.max - b.max), max |-> Most(a.min - b.min, a.max - b.max)]
\* cell_at: of points, the one whose number is the pixel's.
CellAt(trace, px) ==
  IF trace.form = "bars"
  THEN IF px - trace.first + 1 \in DOMAIN trace.cells THEN trace.cells[px - trace.first + 1]
       ELSE Nothing
  ELSE IF px + 1 \in DOMAIN trace.points
  THEN LET v == style.gain * trace.points[px + 1].v IN [min |-> v, max |-> v]
  ELSE Nothing
Residual(a, b) ==
  [px \in 0 .. width - 1 |->
     IF Void(CellAt(a, px)) \/ Void(CellAt(b, px)) THEN Nothing
     ELSE Difference(CellAt(a, px), CellAt(b, px))]

----------------------------------------------------------------------------
\* Types; the window stays between the zoom limits; the cell being filled is never full.
RedTypeOK ==
  /\ window.start \in Starts /\ window.duration \in MinDuration .. MaxDuration
  /\ width \in Widths /\ style \in Styles /\ phase \in {"view", "push", "fold", "drawn"}
  /\ Len(column) <= MaxCount /\ filled \in 0 .. Span(0) - 1

\* Every cell of every level is the extent of the values it covers, the short last one included,
\* and the levels are as many and as long as the header lets a reader compute without reading one.
LevelsCover ==
  phase \in {"fold", "drawn"} =>
    /\ \A k \in DOMAIN levels :
         /\ Len(levels[k]) = CellsAt(Len(column), k - 1)
         /\ \A c \in DOMAIN levels[k] :
              levels[k][c] = Extent({column[i] : i \in (c - 1) * Span(k - 1) + 1
                                                       .. Least(c * Span(k - 1), Len(column))})
    /\ phase = "drawn" => Len(levels) = LevelCount(Len(column))

\* No sample inside the window is lost at any zoom: the pixel it falls on is drawn over it.
NothingHidden ==
  (phase = "drawn" /\ TraceA.form = "bars") =>
    \A i \in 1 .. Len(column) :
      LET t == (i - 1) * periodA
          cell == CellAt(TraceA, ((t - window.start) * width) \div window.duration)
          v == style.gain * column[i]
      IN (column[i] # Gap /\ window.start <= t /\ t < WindowEnd) => cell.min <= v /\ v <= cell.max

\* A frame reads a slice whose size the canvas bounds, whatever the length of the column: one to
\* two cells a pixel, twice that at the finest quality, or the values of a level-0 cell a pixel.
ReadIsBounded ==
  phase = "view" => \A n \in 1 .. MaxLength :
    LET r == SampleRange(n, periodA)
        level == Level(n, periodA)
    IN IF level = Raw THEN r.end - r.start <= Span(0) * width + 2
       ELSE CeilDiv(r.end, Span(level)) - r.start \div Span(level)
              <= (IF style.bias = -1 THEN 4 ELSE 2) * width + 2

\* Two columns with the same values and the same rate differ by nothing, at every zoom.
SameIsZero ==
  (phase = "drawn" /\ column = other /\ periodA = periodB) =>
    \A px \in 0 .. width - 1 :
      LET d == Residual(TraceA, TraceB)[px] IN Void(d) \/ (d.min = 0 /\ d.max = 0)

============================================================================
