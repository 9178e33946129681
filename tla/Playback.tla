------------------------------ MODULE Playback ------------------------------
(****************************************************************************)
(* Playback as the Scope screen drives it: the transport and the clock that   *)
(* turns frames into playback time.  The span played is the union of the     *)
(* traces' ranges; here it may become any of ContentRanges at any time       *)
(* (traces are added, removed and shifted).                                  *)
(****************************************************************************)
EXTENDS Integers

CONSTANTS MinRate, MaxRate, \* bounds of the rate's magnitude
          ContentRanges,    \* spans the traces on the scope may have
          Rates,            \* rates the user asks for
          Times,            \* places on the timeline the user clicks
          MaxStep           \* MAX_STEP: a longer gap between frames is a stall

ASSUME RatesAssumption == MinRate \in Nat \ {0} /\ MaxRate \in Nat /\ MinRate <= MaxRate
                          /\ 1 \in MinRate .. MaxRate /\ Rates \subseteq Int
ASSUME RangesAssumption ==
  \A r \in ContentRanges : r \in [start : Int, end : Int] /\ r.start <= r.end
ASSUME StepAssumption == MaxStep \in Nat \ {0} /\ Times \subseteq Int

-----------------------------------------------------------------------------
(* The transport: a record, every method an operator from one to the next.   *)
(* Time is counted in whole units.                                           *)

States == {"stopped", "playing", "paused"}
LoopModes == {"once", "loop", "pingpong"}

TimeRange(a, b) == [start |-> a, end |-> IF b > a THEN b ELSE a]
IsEmpty(r) == r.end <= r.start
Span(r) == r.end - r.start
ClampTo(r, x) == IF x < r.start THEN r.start ELSE IF x > r.end THEN r.end ELSE x

New(r) == [state |-> "stopped", playhead |-> r.start, rate |-> 1,
           mode |-> "once", range |-> r, direction |-> 1]

\* The way the playhead travels: the user's rate, turned round by ping-pong.
Heading(t) == t.rate * t.direction
AtEnd(t) == IF Heading(t) >= 0 THEN t.playhead >= t.range.end
                               ELSE t.playhead <= t.range.start
StartForDirection(t) == IF Heading(t) >= 0 THEN t.range.start ELSE t.range.end

Play(t) ==
  IF IsEmpty(t.range) THEN t
  ELSE [t EXCEPT !.state = "playing",
                 !.playhead = IF t.state # "playing" /\ AtEnd(t)
                              THEN StartForDirection(t) ELSE @]
Pause(t) == IF t.state = "playing" THEN [t EXCEPT !.state = "paused"] ELSE t
Toggle(t) == IF t.state = "playing" THEN Pause(t) ELSE Play(t)
Stop(t) == [t EXCEPT !.state = "stopped", !.direction = 1, !.playhead = t.range.start]
Seek(t, x) == [t EXCEPT !.playhead = IF IsEmpty(t.range) THEN t.range.start
                                     ELSE ClampTo(t.range, x)]

Magnitude(r) == LET m == IF r < 0 THEN -r ELSE r IN
                IF m < MinRate THEN MinRate ELSE IF m > MaxRate THEN MaxRate ELSE m
SetRate(t, r) == IF r = 0 THEN t
                 ELSE [t EXCEPT !.rate = IF r < 0 THEN -Magnitude(r) ELSE Magnitude(r)]
SetLoopMode(t, m) == [t EXCEPT !.mode = m, !.direction = IF m = "pingpong" THEN @ ELSE 1]

SetRange(t, r) == [t EXCEPT !.range = r,
                            !.playhead = IF IsEmpty(r) THEN r.start ELSE ClampTo(r, @),
                            !.state = IF IsEmpty(r) THEN "stopped" ELSE @]
SetLoopStart(t, x) ==
  SetRange(t, TimeRange(IF x < t.range.end THEN x ELSE t.range.end, t.range.end))
SetLoopEnd(t, x) ==
  SetRange(t, TimeRange(t.range.start, IF x > t.range.start THEN x ELSE t.range.start))

\* rem_euclid and floor of a quotient by a positive span are % and \div.
SlipWrap(x, r) == (x - r.start) % Span(r)
Wrap(x, r) == r.start + ((x - r.start) % Span(r))
Folded(x, r) == LET offset == (x - r.start) % (2 * Span(r)) IN
                IF offset <= Span(r) THEN r.start + offset ELSE r.end - (offset - Span(r))
SlipFlipped(x, r) == x < r.start \/ x > r.end
Flipped(x, r) == ((x - r.start) \div Span(r)) % 2 = 1

\* Once: clamps to the end it ran into, and pauses there.
SlipEnded(t, target) == [t EXCEPT !.playhead = ClampTo(t.range, target)]
Ended(t, target) == [t EXCEPT !.playhead = ClampTo(t.range, target), !.state = "paused"]

Advance(t, dt) ==
  LET target == t.playhead + dt * Heading(t) IN
  CASE t.state # "playing" \/ IsEmpty(t.range) -> t
    [] OTHER ->
       IF t.range.start <= target /\ target <= t.range.end
       THEN [t EXCEPT !.playhead = target]
       ELSE CASE t.mode = "once" -> Ended(t, target)
              [] t.mode = "loop" -> [t EXCEPT !.playhead = Wrap(target, t.range)]
              [] t.mode = "pingpong" ->
                   [t EXCEPT !.playhead = Folded(target, t.range),
                             !.direction = IF Flipped(target, t.range) THEN -@ ELSE @]

-----------------------------------------------------------------------------
VARIABLES transport,
          last,       \* wall time since the clock's last tick, NoTick after a reset
          playedFor   \* wall time the transport has been playing since the last
                      \* play, stop or seek; counted up to MaxStep + 1
      
playbackVars == <<transport, last, playedFor>>

NoTick == -1
Ages == 0 .. MaxStep + 1          \* one above MaxStep stands for every longer gap
Longer(a) == IF a > MaxStep THEN a ELSE a + 1

PlaybackInit ==
  /\ transport = New(TimeRange(0, 0))
  /\ last = NoTick
  /\ playedFor = 0

\* The messages that start, stop or move playback reset the clock.
SlipCommand(t) == transport' = t /\ UNCHANGED last /\ playedFor' = 0
Command(t) == transport' = t /\ last' = NoTick /\ playedFor' = 0
PlayPressed == Command(Play(transport))
StopPressed == Command(Stop(transport))
TogglePressed == Command(Toggle(transport))
SeekFraction == \E x \in transport.range.start .. transport.range.end :
                   Command(Seek(transport, x))
CanvasSeek == \E x \in Times : Command(Seek(transport, x))

\* The others leave the clock running.
Adjust(t) == transport' = t /\ UNCHANGED <<last, playedFor>>
PausePressed == Adjust(Pause(transport))
RateChanged == \E r \in Rates : Adjust(SetRate(transport, r))
LoopModeChanged == \E m \in LoopModes : Adjust(SetLoopMode(transport, m))
LoopStartPressed == Adjust(SetLoopStart(transport, transport.playhead))
LoopEndPressed == Adjust(SetLoopEnd(transport, transport.playhead))
Retime == \E r \in ContentRanges : Adjust(SetRange(transport, r))

\* Wall time passes, whether or not frames are drawn.
Elapse ==
  /\ last' = IF last = NoTick THEN last ELSE Longer(last)
  /\ playedFor' = IF transport.state = "playing" THEN Longer(playedFor) ELSE playedFor
  /\ <<last, playedFor>>' # <<last, playedFor>>
  /\ UNCHANGED transport

\* Clock::tick: playback time since the last tick, NoTick if there is none to apply.
Ticked == IF last \in 1 .. MaxStep THEN last ELSE NoTick

\* A frame; one that was on its way when playback paused still arrives.
Tick ==
  /\ last' = 0
  /\ transport' = IF Ticked = NoTick THEN transport ELSE Advance(transport, Ticked)
  /\ UNCHANGED playedFor

PlaybackUser ==
  \/ PlayPressed \/ StopPressed \/ TogglePressed \/ PausePressed
  \/ SeekFraction \/ CanvasSeek
  \/ RateChanged \/ LoopModeChanged
  \/ LoopStartPressed \/ LoopEndPressed \/ Retime

PlaybackNext == PlaybackUser \/ Elapse \/ Tick

\* Frames come, and some in time: redraws are requested as long as the transport plays.
PlaybackFairness == /\ WF_playbackVars(Elapse) /\ WF_playbackVars(Tick)
                    /\ SF_playbackVars(Tick /\ Ticked # NoTick)

PlaybackSpec == PlaybackInit /\ [][PlaybackNext]_playbackVars /\ PlaybackFairness

-----------------------------------------------------------------------------
TransportType == [state : States, playhead : Int, rate : Int, mode : LoopModes,
                  range : [start : Int, end : Int], direction : {-1, 1}]

\* Every variable holds a value of its type, and the rate is never zero nor out of bounds.
PlaybackTypeOK ==
  /\ transport \in TransportType
  /\ transport.rate \in MinRate .. MaxRate \/ -transport.rate \in MinRate .. MaxRate
  /\ last \in Ages \cup {NoTick}
  /\ playedFor \in Ages

\* However far a tick carries and whichever way the range, rate or mode changed
\* since the last one, the playhead stays inside the playable span, and nothing
\* plays over an empty one (Transport::advance, set_range).
InRange ==
  /\ transport.range.start <= transport.playhead /\ transport.playhead <= transport.range.end
  /\ transport.state = "playing" => ~IsEmpty(transport.range)

\* Two transports that play on alike: the ends of a loop are one place, and at an
\* end ping-pong travels inward whichever way it was headed.
Alike(t, u) ==
  LET ends == {t.range.start, t.range.end} IN
  /\ t.range = u.range /\ t.rate = u.rate /\ t.mode = u.mode
  /\ t.state = u.state
  /\ \/ t.playhead = u.playhead /\ (t.direction = u.direction \/ t.playhead \in ends)
     \/ t.mode = "loop" /\ {t.playhead, u.playhead} = ends

\* A dropped frame costs smoothness and never position (clock.rs): the time of one
\* long tick, dealt out over two short ones, ends in the same place.  Once it has
\* run into its end a transport has paused, with or without the second tick.
FrameRateIndependent ==
  \A a, b \in 1 .. MaxStep :
     LET two == Advance(Advance(transport, a), b)
         one == Advance(transport, a + b) IN
     Alike(two, one)

\* Only time that was played is applied: the gap the next tick would measure never
\* reaches back before the last play, stop or seek (Clock::reset).
GapWasPlayed == last # NoTick /\ transport.state = "playing" => last <= playedFor

\* Left alone, playback in Once mode reaches an end and pauses (DESIGN 11.2).
OnceEnds ==
  (<>[][~PlaybackUser]_playbackVars)
     => <>[](transport.mode = "once" => transport.state # "playing")
=============================================================================
