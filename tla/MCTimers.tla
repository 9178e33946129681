------------------------------- MODULE MCTimers -------------------------------
(* What timers drive: the watched folder with the import queue it feeds, and   *)
(* the playback of the scope.  A behaviour is of one of the two; one of the    *)
(* first is either of a folder that is written to under a library that stays   *)
(* open, or of a library that is opened and closed over files that are there.  *)
EXTENDS Imports, Playback

CONSTANT Parts

VARIABLE part      \* the component a behaviour is of

\* Files 1 and 2 may be written to the watched folder, and 2 is also dropped
\* or picked by hand.
ByHand == {<<2>>}

\* What is on the scope: an instant, and two spans; a rate may be negative or zero.
Spans == {TimeRange(0, 0), TimeRange(0, 3), TimeRange(1, 4)}
Asked == {-4, -1, 0, 1, 2}

TimersInit ==
  /\ part \in Parts
  /\ Init /\ PlaybackInit
  /\ part = "watching" => LibraryOpen
  /\ part = "playback" => folder = [f \in Watched |-> 0] /\ ~LibraryOpen

TimersVars == <<part, vars, playbackVars>>

TimersNext ==
  /\ UNCHANGED part
  /\ IF part \in {"watching", "closing"} THEN Next ELSE UNCHANGED vars
  /\ part = "watching" => library' = library
  /\ part = "closing" => writes' = writes
  /\ IF part = "playback" THEN PlaybackNext ELSE UNCHANGED playbackVars

\* The writer thread answers every import; frames keep coming while the scope plays.
TimersSpec ==
  /\ TimersInit /\ [][TimersNext]_TimersVars
  /\ WF_vars(Imported)
  /\ WF_playbackVars(part = "playback" /\ Elapse)
  /\ WF_playbackVars(part = "playback" /\ Tick)
  /\ SF_playbackVars(part = "playback" /\ Tick /\ Ticked # NoTick)
=============================================================================
