---------------------------- MODULE ScopeGesture ----------------------------
(* What the canvas of the scope makes of the mouse and the keyboard          *)
(* (sp-app/src/widgets/scope.rs, Scope::update over an Interaction) and what *)
(* the screen does with it (screens/scope.rs, on_canvas). The first event    *)
(* after the canvas changed its width is answered by Resized and by nothing  *)
(* else, whatever the event was.                                             *)
EXTENDS Integers, Sequences

CONSTANTS Columns,        \* where the cursor may be over the canvas, in pixels
          Widths,         \* how wide the canvas may be
          DragThreshold,  \* DRAG_THRESHOLD_PX
          DoubleClick,    \* DOUBLE_CLICK_MS, in steps of the clock
          DoubleReach,    \* how far apart the clicks of a double click may be
          MaxClock

VARIABLES cursor,     \* {}: not over the canvas, or {its column}
          held,       \* the left button is down
          shift,      \* the modifier key is down
          bounds,     \* how wide the canvas is drawn
          clock,      \* the time
          modifiers, dragFrom, dragTo, lastClick,   \* Interaction
          width,      \* the width the viewport holds
          emitted,    \* the action the last event gave
          spent,      \* what the press made last has given so far
          swallowed   \* an event was answered by Resized since the last press
hand == <<cursor, held, shift, bounds, clock>>
interaction == <<modifiers, dragFrom, dragTo, lastClick>>
gestureVars == <<cursor, held, shift, bounds, clock, modifiers, dragFrom, dragTo, lastClick,
                 width, emitted, spent, swallowed>>

Ignored == <<>>
Hover(x) == <<"hover", x>>
Gesture(a) == a # Ignored /\ a[1] \in {"fit", "seek", "zoom"}
Apart(a, b) == IF a > b THEN a - b ELSE b - a
Low(a, b) == IF a < b THEN a ELSE b
High(a, b) == IF a < b THEN b ELSE a

-----------------------------------------------------------------------------
GestureInit ==
  /\ cursor = {} /\ held = FALSE /\ shift = FALSE /\ bounds \in Widths /\ clock = 0
  /\ modifiers = FALSE /\ dragFrom = {} /\ dragTo = {} /\ lastClick = {}
  /\ width = 0 /\ emitted = Ignored /\ spent = <<>> /\ swallowed = FALSE

\* The screen takes an action: of the viewport only its width is kept here.
OnCanvas(a) ==
  /\ emitted' = a
  /\ width' = IF a # Ignored /\ a[1] = "resized" THEN a[2] ELSE width
  /\ spent' = IF Gesture(a) THEN Append(spent, a) ELSE spent

\* The guard every event meets first: Resized is all it gives.
Swallow ==
  /\ bounds # width
  /\ OnCanvas(<<"resized", bounds>>)
  /\ swallowed' = TRUE
  /\ UNCHANGED interaction
Heard(a) == bounds = width /\ OnCanvas(a) /\ UNCHANGED swallowed

MoveTo(x) ==
  /\ cursor' = {x} /\ UNCHANGED <<held, shift, bounds, clock>>
  /\ \/ Swallow
     \/ /\ Heard(Hover({x}))
        /\ dragTo' = IF dragFrom # {} THEN {x} ELSE dragTo
        /\ UNCHANGED <<modifiers, dragFrom, lastClick>>
\* The cursor moves on, over another widget: the drag stays where it was.
MoveOff ==
  /\ cursor' = {} /\ UNCHANGED <<held, shift, bounds, clock>>
  /\ (Swallow \/ (Heard(Hover({})) /\ UNCHANGED interaction))
\* The cursor leaves the window.
CursorLeft ==
  /\ cursor' = {} /\ UNCHANGED <<held, shift, bounds, clock>>
  /\ \/ Swallow
     \/ Heard(Hover({})) /\ dragFrom' = {} /\ dragTo' = {} /\ UNCHANGED <<modifiers, lastClick>>

Modify ==
  /\ shift' = ~shift /\ UNCHANGED <<cursor, held, bounds, clock>>
  /\ (Swallow \/ (Heard(Ignored) /\ modifiers' = shift' /\ UNCHANGED <<dragFrom, dragTo, lastClick>>))

Wheel ==
  /\ UNCHANGED hand
  /\ \/ Swallow
     \/ /\ UNCHANGED interaction
        /\ Heard(IF cursor = {} THEN Ignored ELSE IF modifiers THEN <<"pan", cursor>> ELSE <<"scale", cursor>>)

Cleared == {}
IsDouble(x) == \E c \in lastClick : clock - c.at < DoubleClick /\ Apart(c.x, x) < DoubleReach
Press ==
  /\ ~held /\ held' = TRUE /\ UNCHANGED <<cursor, shift, bounds, clock, modifiers>>
  /\ swallowed' = (bounds # width)
  /\ \/ /\ bounds # width /\ spent' = <<>> /\ width' = bounds /\ emitted' = <<"resized", bounds>>
        /\ UNCHANGED <<dragFrom, dragTo, lastClick>>
     \/ /\ bounds = width /\ UNCHANGED width
        /\ \/ /\ cursor = {} /\ emitted' = Ignored /\ spent' = <<>>
              /\ UNCHANGED <<dragFrom, dragTo, lastClick>>
           \/ \E x \in cursor :
                /\ lastClick' = {[at |-> clock, x |-> x]}
                /\ IF IsDouble(x)
                   THEN /\ dragFrom' = Cleared /\ dragTo' = {}
                        /\ emitted' = <<"fit">> /\ spent' = <<<<"fit">>>>
                   ELSE /\ dragFrom' = {x} /\ dragTo' = {x} /\ emitted' = Ignored /\ spent' = <<>>

\* What a release makes of the drag: a click where it barely moved.
Ends(from, to) == IF Apart(from, to) < DragThreshold THEN <<"seek", to>>
                  ELSE <<"zoom", Low(from, to), High(from, to)>>
Taken == {}
Release ==
  /\ held /\ held' = FALSE /\ UNCHANGED <<cursor, shift, bounds, clock>>
  /\ \/ Swallow
     \/ LET to == IF dragTo # {} THEN dragTo ELSE cursor IN
        /\ dragFrom' = Taken /\ dragTo' = {} /\ UNCHANGED <<modifiers, lastClick>>
        /\ Heard(IF dragFrom = {} \/ to = {} THEN Ignored
                 ELSE Ends(CHOOSE a \in dragFrom : TRUE, CHOOSE b \in to : TRUE))

\* The layout gives the canvas another width.
Resize == \E w \in Widths :
  /\ w # bounds /\ bounds' = w
  /\ UNCHANGED <<cursor, held, shift, clock, modifiers, dragFrom, dragTo, lastClick,
                 width, emitted, spent, swallowed>>
Tick ==
  /\ clock < MaxClock /\ clock' = clock + 1
  /\ UNCHANGED <<cursor, held, shift, bounds, modifiers, dragFrom, dragTo, lastClick,
                 width, emitted, spent, swallowed>>

GestureNext ==
  \/ \E x \in Columns : MoveTo(x)
  \/ MoveOff \/ CursorLeft \/ Modify \/ Wheel \/ Press \/ Release \/ Resize \/ Tick

-----------------------------------------------------------------------------
\* A press gives at most one of a fit, a seek and a zoom, however the canvas is
\* resized between the press and its release (widgets/scope.rs, update).
OneGesturePerPress == Len(spent) <= 1

\* A drag, and the band drawn of it, is on its way only while the button is
\* down, unless a resize ate the event that ended it; and it has both ends.
DragIsHeld ==
  /\ dragFrom # {} => held \/ swallowed
  /\ dragTo # {} <=> dragFrom # {}

=============================================================================
