------------------------------ MODULE Streams ------------------------------
(****************************************************************************)
(* What is generated from anywhere, without what comes before it: the two    *)
(* sources of noise a render reads, and pulse trains.  A noise of several    *)
(* octaves is a stream of draws with a position each; a shift register seeks *)
(* by squaring its step matrix.  A bit vector is the set of the positions    *)
(* that are one; a draw is the octave and position it came from.             *)
(****************************************************************************)
EXTENDS Integers, Sequences, FiniteSets, FiniteSetsExt

CONSTANTS Octaves,      \* 1 for white noise, OCTAVES for pink and brown
          Orders,       \* the register orders tried
          MaxIndex,     \* bound: the highest sample index read
          MaxPulses     \* bound: pulses in a train

VARIABLES next, pos, held, drawn, order, state, at, bit,   \* noise
          train, made, stored                              \* a pulse train

streamVars == <<next, pos, held, drawn, order, state, at, bit>>

Unheld == [slot |-> -1, from |-> -1]
Levels == 0..(Octaves - 1)
Slot(index, octave) == index \div (2 ^ octave)

\* Stream::seek: the generator is moved only when it is not there already.
Sought(octave, index) == IF index # next[octave] THEN index ELSE pos[octave]

\* Noise::seek; what the octaves hold is forgotten.
Seek(index) ==
  /\ pos' = [o \in Levels |-> Sought(o, Slot(index, o))]
  /\ next' = [o \in Levels |-> Slot(index, o)]
  /\ held' = [o \in Levels |-> Unheld]
  /\ UNCHANGED <<drawn, order, state, at, bit>>

Stale(octave, slot) == held[octave].slot # slot

\* Noise::value: an octave draws when its slot has changed, and holds the draw.
Value(index) ==
  LET fresh == {o \in Levels : Stale(o, Slot(index, o))}
      after == [o \in Levels |-> IF o \in fresh THEN [slot |-> Slot(index, o), from |-> Sought(o, Slot(index, o))]
                                 ELSE held[o]]
  IN  /\ held' = after
      /\ pos' = [o \in Levels |-> IF o \in fresh THEN after[o].from + 1 ELSE pos[o]]
      /\ next' = [o \in Levels |-> IF o \in fresh THEN Slot(index, o) + 1 ELSE next[o]]
      /\ drawn' = [index |-> index, from |-> [o \in Levels |-> after[o].from]]
      /\ UNCHANGED <<order, state, at, bit>>

-----------------------------------------------------------------------------

Taps(n) ==
  CASE n = 8        -> {0, 2, 3, 4}
    [] n = 9        -> {0, 4}
    [] n = 10       -> {0, 3}
    [] n \in {5, 11} -> {0, 2}
    [] OTHER        -> {0, 1}

Odd(s) == Cardinality(s) % 2 = 1

\* next_bit's new register.
Step(n, s) == {i - 1 : i \in s \ {0}} \cup (IF Odd(s \cap Taps(n)) THEN {n - 1} ELSE {})
Ones(n) == 0..(n - 1)

Identity(n) == [i \in Ones(n) |-> {i}]

StepMatrix(n) == [i \in Ones(n) |-> IF i = n - 1 THEN Taps(n) ELSE {i + 1}]

\* multiply: row i is the sum over the rows of b that row i of a selects.
Multiply(a, b) ==
  [i \in DOMAIN a |-> {j \in DOMAIN b : Odd({k \in a[i] : j \in b[k]})}]

Apply(m, v) == {i \in DOMAIN m : Odd(m[i] \cap v)}

\* The matrix of a jump: one squaring a bit of the index.
Jump(n, index) ==
  LET Square[k \in 0..12] == IF k = 0 THEN StepMatrix(n) ELSE Multiply(Square[k - 1], Square[k - 1])
      Upto[k \in 0..12] == IF k = 0 THEN Identity(n)
                          ELSE IF (index \div 2 ^ (k - 1)) % 2 = 1 THEN Multiply(Upto[k - 1], Square[k - 1])
                          ELSE Upto[k - 1]
  IN  Upto[12]

PrbsSeek(index) ==
  /\ state' = IF index = at THEN state ELSE Apply(Jump(order, index), Ones(order))
  /\ at' = index
  /\ UNCHANGED <<next, pos, held, drawn, order, bit>>

NextBit ==
  /\ at < MaxIndex
  /\ bit' = [index |-> at, one |-> 0 \in state]
  /\ state' = Step(order, state) /\ at' = at + 1
  /\ UNCHANGED <<next, pos, held, drawn, order>>

-----------------------------------------------------------------------------
StreamsInit ==
  /\ next = [o \in Levels |-> 0] /\ pos = next /\ held = [o \in Levels |-> Unheld]
  /\ drawn = [index |-> -1, from |-> <<>>]
  /\ order \in Orders /\ state = Ones(order) /\ at = 0 /\ bit = [index |-> -1, one |-> FALSE]

\* One of the two is in use at a time: a node reads one source.
StreamsNext ==
  \/ bit.index = -1 /\ at = 0 /\ \E i \in 0..MaxIndex : Seek(i) \/ Value(i)
  \/ drawn.index = -1 /\ \A o \in Levels : next[o] = 0 /\ (NextBit \/ \E i \in 0..MaxIndex : PrbsSeek(i))

\* The register after so many single steps.
Stepped(n) ==
  LET After[k \in 0..MaxIndex] == IF k = 0 THEN Ones(n) ELSE Step(n, After[k - 1]) IN After

\* Where an octave believes its generator to be is where it is.
StreamsTypeOK ==
  /\ next = pos /\ \A o \in Levels : held[o] # Unheld => next[o] = held[o].slot + 1
  /\ state \subseteq Ones(order)

\* A noise sample is a function of its index alone: whatever was read before, each
\* octave gives the draw of the slot the index falls in.
DrawsByIndex ==
  drawn.index # -1 => \A o \in Levels : drawn.from[o] = Slot(drawn.index, o)

\* Seeking gives the register that stepping there bit by bit gives.
SeekIsStepping == state = Stepped(order)[at] /\ (bit.index # -1 => bit.one = (0 \in Stepped(order)[bit.index]))

Returns(n, steps) == Apply(Jump(n, steps), Ones(n)) = Ones(n)

\* The register of each order passes through every state but zero before it repeats:
\* 2^n - 1 steps bring it back, and no proper divisor of them does.
PeriodIsMaximal ==
  at = 0 /\ bit.index = -1 /\ drawn.index = -1 =>
    LET whole == 2 ^ order - 1
    IN  /\ Returns(order, whole)
        /\ \A p \in 2..whole : whole % p = 0 => ~Returns(order, whole \div p)

-----------------------------------------------------------------------------
(* A generated pulse train: its intervals as a closed form of the index, so   *)
(* that any group is made without the ones before it, what validate_train     *)
(* accepts, and the group as it is stored and read back record by record.     *)
(* A jitter draw is one of a few fractions.                                   *)

trainVars == <<train, made, stored>>

Draws == {-3, 0, 3}                \* unit_signed in fourths, short of -4 and 4
Pulses(t) == t.groups * t.each
GroupRange(t, g) == g * t.each .. (g + 1) * t.each - 1

SumUpTo(s, n) == MapThenSumSet(LAMBDA i : s[i], 1..n)

\* elapsed_s: from the first pulse to pulse n.
Elapsed(pri, n) ==
  CASE pri.mode \in {"fixed", "jitter"} -> n * pri.pri
    [] pri.mode = "stagger" ->
         LET len == Len(pri.positions)
         IN  IF len = 0 THEN 0
             ELSE (n \div len) * SumUpTo(pri.positions, len) + SumUpTo(pri.positions, n % len)
    [] pri.mode = "drift" -> n * pri.pri + (pri.per * n * (n - 1)) \div 2

\* toa_seconds, in eighths of a time unit: half the draw, of the fraction, of the interval.
Toa(t, draws, n) ==
  8 * Elapsed(t.pri, n) + (IF t.pri.mode = "jitter" THEN (draws[n] * t.pri.quarters * t.pri.pri) \div 4 ELSE 0)

\* field_values: a fraction, the draw of the stream at that index, or the place in a scan.
FieldValue(t, shape, n) ==
  CASE shape.shape = "ramp" ->
         IF Pulses(t) <= 1 THEN <<shape.lo, 1>>
         ELSE <<shape.lo * (Pulses(t) - 1) + (shape.hi - shape.lo) * n, Pulses(t) - 1>>
    [] shape.shape = "sequence" -> IF shape.values = <<>> THEN <<0, 0>> ELSE <<shape.values[(n % Len(shape.values)) + 1], 1>>
    [] shape.shape = "scan" -> IF shape.period <= 0 THEN <<shape.mean, 1>> ELSE <<shape.mean, n % shape.period>>
    [] shape.shape \in {"uniform", "gaussian"} -> <<"draw", n>>
    [] shape.shape = "constant" -> <<shape.value, 1>>

-----------------------------------------------------------------------------

\* pri: every interval is above zero, to the end of the train.
PriIssue(pri, pulses) ==
  CASE pri.mode = "fixed" -> pri.pri <= 0
    [] pri.mode = "stagger" -> pri.positions = <<>> \/ \E i \in DOMAIN pri.positions : pri.positions[i] <= 0
    [] pri.mode = "jitter" -> pri.pri <= 0 \/ pri.quarters \notin 0..3
    [] pri.mode = "drift" -> pri.pri <= 0 \/ (pulses > 1 /\ pri.pri + pri.per * (pulses - 1) <= 0)

\* field_value
ShapeIssue(shape) ==
  \/ shape.shape = "uniform" /\ shape.lo >= shape.hi
  \/ shape.shape = "gaussian" /\ shape.sigma < 0
  \/ shape.shape = "sequence" /\ shape.values = <<>>
  \/ shape.shape = "scan" /\ shape.period <= 0

\* A name that normalises to nothing, or to an earlier field's key.
KeyIssue(fields, i) == fields[i].key = "" \/ \E j \in 1..(i - 1) : fields[j].key = fields[i].key

Blocks(t) ==
  \/ t.groups = 0 \/ t.each = 0 \/ PriIssue(t.pri, Pulses(t)) \/ t.fields = <<>>
  \/ \E i \in DOMAIN t.fields : KeyIssue(t.fields, i) \/ ShapeIssue(t.fields[i].value)

-----------------------------------------------------------------------------
NotMade == [groups |-> <<>>]

\* What two draws of a jittered train may be, index by index.
DrawsOf(t) == IF t.pri.mode = "jitter" THEN [0..(Pulses(t) - 1) -> Draws] ELSE {[n \in 0..(Pulses(t) - 1) |-> 0]}

\* TrainSpec::group for each group of an accepted train.
Make(draws) ==
  /\ made = NotMade /\ ~Blocks(train)
  /\ made' = [groups |-> [g \in 0..(train.groups - 1) |->
                [toa |-> [n \in GroupRange(train, g) |-> Toa(train, draws, n)],
                 fields |-> [i \in DOMAIN train.fields |->
                   [n \in GroupRange(train, g) |-> FieldValue(train, train.fields[i].value, n)]]]]]
  /\ UNCHANGED <<train, stored>>

\* insert_pulse_group: the arrival times and each field as columns, found again by key.
Insert(g) ==
  /\ made # NotMade /\ g \in DOMAIN made.groups /\ g \notin DOMAIN stored
  /\ \A h \in 0..(g - 1) : h \in DOMAIN stored
  /\ stored' = [h \in DOMAIN stored \cup {g} |->
                  IF h \in DOMAIN stored THEN stored[h]
                  ELSE [toa |-> made.groups[h].toa, fields |-> made.groups[h].fields,
                        keys |-> [i \in DOMAIN train.fields |-> train.fields[i].key]]]
  /\ UNCHANGED <<train, made>>

\* read_record and the column a key finds.
ColumnOf(g, key) == CHOOSE i \in DOMAIN stored[g].keys : stored[g].keys[i] = key

TrainInit(Trains) == train \in {t \in Trains : Pulses(t) <= MaxPulses} /\ made = NotMade /\ stored = <<>>
TrainNext == \/ made = NotMade /\ (\E d \in DrawsOf(train) : Make(d))
             \/ \E g \in 0..(train.groups - 1) : Insert(g)

-----------------------------------------------------------------------------
\* Interval after interval, added up one by one.
Interval(pri, n) ==
  CASE pri.mode = "stagger" -> pri.positions[(n % Len(pri.positions)) + 1]
    [] pri.mode = "drift" -> pri.pri + pri.per * n
    [] OTHER -> pri.pri

\* The closed form every group starts from is the sum of the intervals before it.
ElapsedIsTheSum ==
  ~Blocks(train) => \A n \in 0..(Pulses(train) - 1) :
    Elapsed(train.pri, n) = MapThenSumSet(LAMBDA i : Interval(train.pri, i), 0..(n - 1))

\* Pulses of an accepted train arrive one after the other, within a group and from
\* each group to the next, whatever the jitter draws.
PulsesArriveInOrder ==
  \A g \in DOMAIN stored : \A n \in DOMAIN stored[g].toa :
    /\ n + 1 \in DOMAIN stored[g].toa => stored[g].toa[n] < stored[g].toa[n + 1]
    /\ g + 1 \in DOMAIN stored => \A k \in DOMAIN stored[g + 1].toa : stored[g].toa[n] < stored[g + 1].toa[k]

\* Every field of every group can be found by its key, and a key finds one column.
FieldsAreFound ==
  \A g \in DOMAIN stored : \A i \in DOMAIN train.fields :
    stored[g].fields[ColumnOf(g, train.fields[i].key)] = made.groups[g].fields[i]
=============================================================================
