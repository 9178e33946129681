------------------------------- MODULE Keymap -------------------------------
(* The map from actions to keys (crates/sp-app/src/keymap.rs).  Only what   *)
(* differs from the defaults is kept, as the text settings.json holds; a    *)
(* text is modelled as the parts it splits into at every '+'.               *)
EXTENDS Actions, FiniteSets

CONSTANTS Pressable,   \* the chords a keyboard can send, as Chord::from_iced reads them
          Bindable     \* the actions the user rebinds (a bound on the model)

VARIABLE overrides     \* [actions with an override -> the parts of its text]
keymapVars == <<overrides>>

Modifiers == {"ctrl", "alt", "shift"}

NamedKeys == {"space", "enter", "escape", "tab", "backspace", "delete", "insert", "home", "end",
              "pageup", "pagedown", "left", "right", "up", "down", "f1"}

\* Chord::is_typeable.
IsTypeable(c) == c.held \cap {"ctrl", "alt"} = {} /\ c.key \notin NamedKeys

\* Display for Chord, split at '+': the key '+' leaves two empty parts.
Held(c, m) == IF m \in c.held THEN <<m>> ELSE <<>>
Written(c) == Held(c, "ctrl") \o Held(c, "alt") \o Held(c, "shift")
              \o (IF c.key = "+" THEN <<"", "">> ELSE <<c.key>>)

\* Chord::parse: the last part that is not a modifier is the key.
KeyPlaces(parts) == {i \in DOMAIN parts : parts[i] # "" /\ parts[i] \notin Modifiers}
Parse(parts) ==
  IF KeyPlaces(parts) = {} THEN Unbound
  ELSE LET last == CHOOSE i \in KeyPlaces(parts) : \A j \in KeyPlaces(parts) : j <= i
       IN  [key |-> parts[last], held |-> ToSet(parts) \cap Modifiers]

ChordIn(a, o) == IF a \in DOMAIN o THEN Parse(o[a]) ELSE ShippedKeys[a]

Without(a, o) == [b \in DOMAIN o \ {a} |-> o[b]]
With(a, parts, o) == [b \in DOMAIN o \cup {a} |-> IF b = a THEN parts ELSE o[b]]

Bound(a, c, o) == IF c = ShippedKeys[a] THEN Without(a, o)
                  ELSE With(a, IF c = Unbound THEN <<"">> ELSE Written(c), o)

NoAction == <<"none", "none">>

\* The action of the set that the catalogue lists first.
FirstAt(at) == IF at = {} THEN NoAction ELSE AllActions[CHOOSE i \in at : \A j \in at : i <= j]
FirstOf(S) == FirstAt({i \in DOMAIN AllActions : AllActions[i] \in S})

Answering(c, at, o) == FirstOf({a \in ActionSet : ScreenOf(a) = at /\ ChordIn(a, o) = c})
OrElse(a, b) == IF a # NoAction THEN a ELSE b
ActionFor(c, s, o) == OrElse(Answering(c, s, o), Answering(c, "Global", o))

Place(a) == CHOOSE i \in DOMAIN AllActions : AllActions[i] = a

\* Keymap::conflicts, as <<kept, shadowed>> pairs.
Shadows(k, a, o) == /\ k # a
                    /\ ChordIn(k, o) = ChordIn(a, o)
                    /\ \/ ScreenOf(k) = ScreenOf(a) /\ Place(k) < Place(a)
                       \/ ScreenOf(k) # "Global" /\ ScreenOf(a) = "Global"
SlipConflicts(o) == {p \in ActionSet \X ActionSet :
                      /\ ChordIn(p[2], o) # Unbound /\ ScreenOf(p[1]) = ScreenOf(p[2])
                      /\ p[1] = FirstOf({k \in ActionSet : Shadows(k, p[2], o)})}
Conflicts(o) == {<<FirstOf({k \in ActionSet : Shadows(k, a, o)}), a>> :
                  a \in {b \in ActionSet : /\ ChordIn(b, o) # Unbound
                                           /\ \E k \in ActionSet : Shadows(k, b, o)}}

\* A press is a key with the modifiers held, and no key has the name of one; it is
\* an action that is rebound.
KeymapAssumption == /\ \A c \in Pressable : /\ c \in [key : STRING, held : SUBSET Modifiers]
                                            /\ c.key # "" /\ c.key \notin Modifiers
                    /\ Bindable \subseteq ActionSet

KeymapInit == overrides = <<>>

\* Message::BindCaptured, Message::Unbind and Message::ResetKeymap.
Bind(a, c) == overrides' = Bound(a, c, overrides)
Unbind(a)  == ChordIn(a, overrides) # Unbound /\ overrides' = Bound(a, Unbound, overrides)
ResetKeymap == overrides' = <<>>

KeymapNext == \/ \E a \in Bindable : Unbind(a) \/ \E c \in Pressable : c.key # "escape" /\ Bind(a, c)
              \/ ResetKeymap

InScope(a) == IF ScreenOf(a) = "Global" THEN ScreenNames ELSE {ScreenOf(a)}

\* Every action with a key is either what that key runs on each screen it
\* belongs to, or named as shadowed: no key silently reaches another action
\* (keymap.rs action_for against conflicts).
ShadowsAreNamed ==
  LET named == {p[2] : p \in Conflicts(overrides)}
  IN  \A a \in ActionSet \ named :
        LET c == ChordIn(a, overrides)
        IN  c # Unbound => \A s \in InScope(a) : ActionFor(c, s, overrides) = a

\* A shadowed action really loses its key on some screen, and the action that
\* is said to have it runs there (keymap.rs conflicts).
NamedAreShadowed ==
  \A p \in Conflicts(overrides) :
    \E s \in InScope(p[2]) : ActionFor(ChordIn(p[2], overrides), s, overrides) \notin {p[2], NoAction}

\* The key the user presses for an action is the key the action then has:
\* what bind writes, chord reads back, and a cleared key stays cleared; all but
\* '+', which is also what the parts are split at (keymap.rs bind and chord).
PressedIsBound ==
  \A a \in Bindable, c \in Pressable \cup {Unbound} :
    Bind(a, c) /\ c.key # "+" => ChordIn(a, overrides') = c
=============================================================================
