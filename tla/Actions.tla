------------------------------ MODULE Actions ------------------------------
(* The catalogue of everything the application can be told to do            *)
(* (crates/sp-app/src/actions.rs): each action's screen, the key it ships   *)
(* with and the message it sends.  An action is the pair of the screen it   *)
(* acts on ("Global" for none) and its name on that screen.                 *)
EXTENDS Naturals, Sequences, SequencesExt

\* Screen::ALL, in the order of the rail.
AllScreens == <<"Library", "Inspector", "Properties", "Import", "Generate",
                "Pipeline", "Results", "Runs", "Scope", "Settings">>

ScreenNames == ToSet(AllScreens)

\* Screen::shortcut: the digit a screen's default key uses.
Digit == [s \in ScreenNames |-> CHOOSE i \in 1..10 : AllScreens[i] = s]

\* What each screen can be told to do, in the order of Action::ALL.
Verbs == [Library    |-> <<"Refresh", "Search", "ClearSearch">>,
          Inspector  |-> <<"Refresh", "SaveProperties">>,
          Properties |-> <<"Declare">>,
          Import     |-> <<"Browse", "Start", "Cancel", "ClearQueue", "SweepWatched">>,
          Generate   |-> <<"Start", "Cancel", "RandomiseSeed", "LoadPreset", "SavePreset">>,
          Pipeline   |-> <<"Run", "Cancel", "Save", "AddAssertion", "AllGroups", "NoGroups">>,
          Results    |-> <<"Refresh", "Toggle", "Stop", "StepBack", "StepForward", "ToStart", "ToEnd",
                           "FitAll", "Unpin", "Promote", "ClearComparison">>,
          Runs       |-> <<"Refresh", "FailuresOnly", "EveryRun", "ClearAgainst">>,
          Scope      |-> <<"Refresh", "Toggle", "Stop", "ToStart", "ToEnd", "LoopStart", "LoopEnd",
                           "ClearLoop", "FitAll", "FitAmplitude">>,
          Settings   |-> <<"Refresh", "ReclaimBlobs", "ClearCache", "ChooseLibrary", "UseDefaultLibrary",
                           "AddExternalLibrary", "ChooseWatchFolder", "StopWatching", "ResetKeymap">>]

OpenPalette == <<"Global", "OpenPalette">>
ToggleTheme == <<"Global", "ToggleTheme">>

Navigate(s) == <<"Global", s>>

\* Action::ALL: the global ones, then screen by screen.
ActionsOf(s) == [i \in 1..Len(Verbs[s]) |-> <<s, Verbs[s][i]>>]
AllActions ==
  <<OpenPalette, ToggleTheme>> \o [i \in 1..10 |-> Navigate(AllScreens[i])]
  \o ActionsOf("Library") \o ActionsOf("Inspector") \o ActionsOf("Properties") \o ActionsOf("Import")
  \o ActionsOf("Generate") \o ActionsOf("Pipeline") \o ActionsOf("Results") \o ActionsOf("Runs")
  \o ActionsOf("Scope") \o ActionsOf("Settings")

ActionSet == ToSet(AllActions)

\* Action::screen.
ScreenOf(a) == a[1]

\* A chord is a key and the modifiers held with it.
Plain(key) == [key |-> key, held |-> {}]
Ctrl(key)  == [key |-> key, held |-> {"ctrl"}]

Unbound == [key |-> "none", held |-> {}]

\* Action::default_chord.
DefaultChord(a) ==
  CASE a = OpenPalette -> Ctrl("k")
    [] a = ToggleTheme -> Ctrl("t")
    [] ScreenOf(a) = "Global" /\ a[2] \in ScreenNames -> Ctrl(ToString(Digit[a[2]] % 10))
    [] a \in {<<"Scope", "Toggle">>, <<"Results", "Toggle">>}   -> Plain("space")
    [] a \in {<<"Scope", "ToStart">>, <<"Results", "ToStart">>} -> Plain("home")
    [] a \in {<<"Scope", "ToEnd">>, <<"Results", "ToEnd">>}     -> Plain("end")
    [] a = <<"Scope", "LoopStart">> -> Plain("[")
    [] a = <<"Scope", "LoopEnd">>   -> Plain("]")
    [] a = <<"Results", "StepBack">>    -> Plain("left")
    [] a = <<"Results", "StepForward">> -> Plain("right")
    [] OTHER -> Unbound

ShippedKeys == [a \in ActionSet |-> DefaultChord(a)]

\* Action::message: who gets the message.  A sweep of the watched folder is the
\* root's to do although the action is the Import screen's.
Receiver(a) == IF ScreenOf(a) = "Global" \/ a = <<"Import", "SweepWatched">> THEN "root" ELSE ScreenOf(a)
=============================================================================
