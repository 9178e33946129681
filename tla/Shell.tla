------------------------------- MODULE Shell -------------------------------
(* The root application (crates/sp-app/src/state.rs): which screen is       *)
(* showing, who gets a key, and what one screen hands to another.  Keys go  *)
(* to a binding being captured, then to the command palette, then to the    *)
(* keymap of the screen that is showing.                                    *)
EXTENDS Keymap, Integers

CONSTANTS VISIBLE,          \* the rows of the palette drawn at once
          Libraries,        \* the libraries opened one after another, 1..n
          SignalsOf(_),     \* the signals a library lists, as palette entries
          Commands,         \* the palette's entries for actions
          Stages,           \* the palette's entries for stages
          Queries,          \* what is typed into the palette
          MaxHover          \* the files one drag carries

-----------------------------------------------------------------------------
(* How the palette finds and ranks what it can run (palette.rs).  A text is *)
(* a sequence of characters; an entry has the label it is scored by and, as *)
(* a fallback, an alternate.                                                *)

AT_START == 18
AT_WORD == 12
ADJACENT == 8
NoScore == -1000

Boundaries == {" ", ".", "_", "-", "/", "(", "'"}

\* The first place from `from` on where a text has a character, or 0.
Next1(text, from, c) ==
  LET at == {i \in from..Len(text) : text[i] = c}
  IN  IF at = {} THEN 0 ELSE CHOOSE i \in at : \A j \in at : i <= j

\* What one matched character is worth.
Worth(text, found, previous) ==
  IF found = 1 THEN AT_START
  ELSE IF text[found - 1] \in Boundaries THEN AT_WORD
  ELSE IF previous = found - 1 THEN ADJACENT ELSE 0

Matched(acc, text, found) ==
  IF found = 0 THEN [acc EXCEPT !.score = NoScore]
  ELSE [score |-> acc.score + Worth(text, found, acc.previous) - (found - acc.cursor),
        cursor |-> found + 1, previous |-> found]
Scan(acc, text, c) ==
  IF acc.score = NoScore THEN acc ELSE Matched(acc, text, Next1(text, acc.cursor, c))
Score(query, text) ==
  FoldLeft(LAMBDA acc, c : Scan(acc, text, c), [score |-> 0, cursor |-> 1, previous |-> 0],
           SelectSeq(query, LAMBDA c : c # " ")).score

\* Entry::keys: the better of the label's score and the alternate's less 6.
Better(x, y) == IF x >= y THEN x ELSE y
Fallback(score) == IF score = NoScore THEN NoScore ELSE score - 6
Rank(query, e) ==
  Better(Score(query, e.label), IF e.alt = <<>> THEN NoScore ELSE Fallback(Score(query, e.alt)))

\* State::matches: the best first, then the shorter label, then catalogue order.
Precedes(a, b) == \/ a.rank > b.rank
                  \/ a.rank = b.rank /\ a.long < b.long
                  \/ a.rank = b.rank /\ a.long = b.long /\ a.at < b.at
Standing(query, entries, i) ==
  [rank |-> Rank(query, entries[i]), long |-> Len(entries[i].label), at |-> i]

\* The matches, as places in the snapshot.
Matches(query, entries) ==
  SetToSortSeq({i \in DOMAIN entries : Rank(query, entries[i]) > NoScore},
               LAMBDA i, j : Precedes(Standing(query, entries, i), Standing(query, entries, j)))

Least(x, y) == IF x <= y THEN x ELSE y

\* State::open, State::close and the messages of the palette.
Closed == [open |-> FALSE, query |-> <<>>, selected |-> 0, entries |-> <<>>]
Opened(entries) == [open |-> TRUE, query |-> <<>>, selected |-> 0, entries |-> entries]

Typed(p, q) == [p EXCEPT !.query = q, !.selected = 0]

AtLeast0(n) == IF n < 0 THEN 0 ELSE n
Moved(p, delta) ==
  [p EXCEPT !.selected = Least(AtLeast0(@ + delta), AtLeast0(Len(Matches(p.query, p.entries)) - 1))]

Nothing == [kind |-> "none", id |-> <<"none", "none">>, label |-> <<>>, alt |-> <<>>]

\* What Activate and Pick choose: the entry of a row, if the row is there.
EntryIn(p, rows, row) == IF row < Len(rows) THEN p.entries[rows[row + 1]] ELSE Nothing
EntryAt(p, row) == EntryIn(p, Matches(p.query, p.entries), row)

\* The rows State::view draws, counted from 0.
Rows(p) == 0..(Least(Len(Matches(p.query, p.entries)), VISIBLE) - 1)

-----------------------------------------------------------------------------
VARIABLES screen,     \* the screen showing
          palette,    \* the palette: open, query, selected, entries
          rebinding,  \* the action whose key is being captured
          typing,     \* the scope's filter has the keyboard
          hovering,   \* files counted over the window
          drag,       \* files that really are over the window
          library,    \* the library that is open
          listed,     \* the library whose signals the scope lists
          ran,        \* the last command given by a key or by the palette
          target      \* what the Inspector shows: <<library it was named in, signal>>

shellVars == <<screen, palette, rebinding, typing, hovering, drag, library, listed, ran, target, overrides>>

Idle == <<"idle", "idle">>
NoTarget == <<"none", "none">>

ShellInit == /\ KeymapInit
             /\ screen = "Library" /\ palette = Closed /\ rebinding = NoAction /\ typing = FALSE
             /\ hovering = 0 /\ drag = 0 /\ library = 1 /\ listed = 1 /\ ran = Idle /\ target = NoTarget

\* What State::matches may list: the snapshot taken when the palette was opened.
Snapshot == Commands \o SignalsOf(listed) \o Stages

Toggled == IF palette.open THEN Closed ELSE Opened(Snapshot)

\* Any message to the scope but a background one ends the typing.
Typing(a) == IF Receiver(a) = "Scope" THEN FALSE ELSE typing

\* Message::Run: the action's screen first, then its message.
Went(a) == IF ScreenOf(a) # "Global" THEN ScreenOf(a)
           ELSE IF a[2] \in ScreenNames THEN a[2] ELSE screen
Run(a) == /\ screen' = Went(a)
          /\ palette' = IF a = OpenPalette THEN Toggled ELSE palette
          /\ typing' = Typing(a)
          /\ overrides' = IF a = <<"Settings", "ResetKeymap">> THEN <<>> ELSE overrides
          /\ rebinding' = IF a = <<"Settings", "ResetKeymap">> THEN NoAction ELSE rebinding
          /\ ran' = a /\ UNCHANGED target

Resets(e) == e.kind = "command" /\ e.id = <<"Settings", "ResetKeymap">>

\* App::update on Message::Palette: what was chosen is taken once and run on a
\* palette that is shut.
Chosen(p, e) ==
  /\ palette' = IF e = Nothing THEN p ELSE IF e.id = OpenPalette THEN Opened(Snapshot) ELSE Closed
  /\ screen' = CASE e = Nothing -> screen
                 [] e.kind = "command" -> Went(e.id)
                 [] e.kind = "signal" -> "Inspector"
                 [] OTHER -> "Pipeline"
  /\ typing' = IF e.kind = "command" THEN Typing(e.id) ELSE typing
  /\ target' = IF e.kind = "signal" THEN e.id ELSE target
  /\ ran' = IF e.kind = "command" THEN e.id ELSE Idle
  /\ overrides' = IF Resets(e) THEN <<>> ELSE overrides
  /\ rebinding' = IF Resets(e) THEN NoAction ELSE rebinding

Still == UNCHANGED <<screen, palette, rebinding, typing, target, overrides>> /\ ran' = Idle

Captured(c) ==
  /\ rebinding' = NoAction
  /\ overrides' = IF c.key = "escape" THEN overrides ELSE Bound(rebinding, c, overrides)
  /\ UNCHANGED <<screen, palette, typing, target>> /\ ran' = Idle

\* While the palette is open it owns the keyboard; its own field takes what can
\* be typed, so only the other keys arrive.
PaletteKey(c) ==
  CASE c.key = "escape" -> Chosen(Closed, Nothing)
    [] c.key = "up"     -> Chosen(Moved(palette, -1), Nothing)
    [] c.key = "down"   -> Chosen(Moved(palette, 1), Nothing)
    [] c.key = "enter"  -> Chosen(palette, EntryAt(palette, palette.selected))
    [] OTHER -> IF ActionFor(c, screen, overrides) = OpenPalette THEN Run(OpenPalette) ELSE Still

AcceptsTypeable == screen # "Scope" \/ ~typing

RunIf(test, a) == IF test /\ a # NoAction THEN Run(a) ELSE Still
SlipMapped(c) == RunIf(TRUE, ActionFor(c, screen, overrides))
Mapped(c) == RunIf(IsTypeable(c) => AcceptsTypeable, ActionFor(c, screen, overrides))

OnKey(c) == IF screen = "Settings" /\ rebinding # NoAction THEN Captured(c)
            ELSE IF palette.open THEN PaletteKey(c) ELSE Mapped(c)

Away == UNCHANGED <<hovering, drag, library, listed>>

Press(c) == (palette.open => ~IsTypeable(c)) /\ OnKey(c) /\ Away

\* The header's and the rail's buttons, which the open palette covers.
Button(a) == ~palette.open /\ Run(a) /\ Away

\* The palette's own field, rows and scrim.
PaletteType(q) == palette.open /\ Chosen(Typed(palette, q), Nothing) /\ Away
PalettePick(row) == /\ palette.open /\ row \in Rows(palette)
                    /\ Chosen([palette EXCEPT !.selected = row], EntryAt(palette, row)) /\ Away

\* The Settings screen's keyboard section.
Rebind(a) == /\ screen = "Settings" /\ ~palette.open /\ rebinding' = a /\ ran' = Idle
             /\ UNCHANGED <<screen, palette, typing, target, overrides>> /\ Away
Clear(a) == /\ screen = "Settings" /\ ~palette.open /\ Unbind(a) /\ rebinding' = NoAction /\ ran' = Idle
            /\ UNCHANGED <<screen, palette, typing, target>> /\ Away

\* The scope's filter, and its background messages, which are not the user.
FilterTyped == /\ screen = "Scope" /\ ~palette.open /\ typing' = TRUE /\ ran' = Idle
               /\ UNCHANGED <<screen, palette, rebinding, target, overrides>> /\ Away
Listed == /\ listed' = library /\ listed # library /\ ran' = Idle
          /\ UNCHANGED <<screen, palette, rebinding, typing, target, overrides, hovering, drag, library>>

Dropped == 0
FileHovered == /\ hovering' = hovering + 1 /\ drag' = drag + 1 /\ drag < MaxHover /\ ran' = Idle
               /\ UNCHANGED <<screen, palette, rebinding, typing, target, overrides, library, listed>>
FileDropped == /\ drag > 0 /\ hovering' = Dropped /\ drag' = drag - 1
               /\ screen' = "Import" /\ ran' = Idle
               /\ UNCHANGED <<palette, rebinding, typing, target, overrides, library, listed>>
FilesHoveredLeft == /\ drag > 0 /\ drag' = 0 /\ hovering' = 0 /\ ran' = Idle
                    /\ UNCHANGED <<screen, palette, rebinding, typing, target, overrides, library, listed>>

\* App::open, when the file dialog answers: the Inspector and the scope are reset.
OpenLibrary == /\ library + 1 \in Libraries /\ library' = library + 1 /\ listed' = 0
               /\ target' = NoTarget /\ typing' = FALSE /\ ran' = Idle
               /\ UNCHANGED <<screen, palette, rebinding, overrides, hovering, drag>>

\* Requests a screen leaves for the root: a row of the Library screen shown in
\* the Inspector, a row of the Runs screen opened on the Results screen.
Inspect == /\ screen = "Library" /\ ~palette.open /\ ran' = Idle
           /\ screen' = "Inspector" /\ target' = <<ToString(library), "row">>
           /\ UNCHANGED <<palette, rebinding, typing, overrides>> /\ Away
OpenRun == /\ screen = "Runs" /\ ~palette.open /\ ran' = Idle /\ screen' = "Results"
           /\ UNCHANGED <<palette, rebinding, typing, target, overrides>> /\ Away

ShellNext == \/ \E c \in Pressable : Press(c)
             \/ \E s \in ScreenNames : Button(Navigate(s))
             \/ Button(OpenPalette) \/ Button(ToggleTheme)
             \/ \E q \in Queries : PaletteType(q)
             \/ \E row \in 0..(VISIBLE - 1) : PalettePick(row)
             \/ \E a \in Bindable : Rebind(a) \/ Clear(a)
             \/ FilterTyped \/ Listed \/ FileHovered \/ FileDropped \/ FilesHoveredLeft
             \/ OpenLibrary \/ Inspect \/ OpenRun

\* The same in three slices: keys and bindings, the palette, files over the window.
Around == \/ \E s \in {"Library", "Runs", "Scope", "Settings"} : Button(Navigate(s))
          \/ Button(OpenPalette)
KeysNext == \/ Around \/ FilterTyped \/ \E c \in Pressable : Press(c)
            \/ \E a \in Bindable : Rebind(a) \/ Clear(a)
PaletteNext == \/ Button(OpenPalette) \/ Listed \/ OpenLibrary
               \/ \E c \in Pressable : palette.open /\ Press(c)
               \/ \E q \in Queries : PaletteType(q)
               \/ \E row \in 0..(VISIBLE - 1) : PalettePick(row)
DragNext == \/ Around \/ Button(ToggleTheme) \/ FileHovered \/ FileDropped \/ FilesHoveredLeft \/ Inspect \/ OpenRun
            \/ \E s \in ScreenNames : Button(Navigate(s))

----------------------------------------------------------------------------
\* The shell is well formed: one screen shows, the palette has a row selected, and only actions
\* that exist have a key of their own (state.rs App).
ShellTypeOK == /\ screen \in ScreenNames
               /\ palette.open \in BOOLEAN /\ palette.selected \in Nat
               /\ rebinding \in ActionSet \cup {NoAction}
               /\ typing \in BOOLEAN /\ hovering \in 0..(2 * MaxHover) /\ drag \in 0..MaxHover
               /\ DOMAIN overrides \subseteq ActionSet

\* The row the palette would run is one of its matches, whatever was typed or
\* picked before, and a palette that is shut holds nothing (palette.rs
\* QueryChanged and Move; close).
SelectedIsListed ==
  IF palette.open
  THEN palette.selected = 0 \/ palette.selected < Len(Matches(palette.query, palette.entries))
  ELSE palette = Closed

\* With no drag over the window the drop hint counts nothing (state.rs
\* FileDropped and FilesHoveredLeft).
HintSettles == drag = 0 => hovering = 0

\* A key that runs a command runs one of the screen that is showing or a global
\* one; it never reaches into another screen, and never runs anything while it
\* is being captured or while the scope's filter would take it as text
\* (state.rs on_key).
KeysBelong ==
  \A c \in Pressable :
    ran' # Idle /\ ~palette.open /\ Press(c) =>
      /\ ScreenOf(ran') \in {screen, "Global"}
      /\ ~(screen = "Settings" /\ rebinding # NoAction)
      /\ ~(screen = "Scope" /\ typing /\ IsTypeable(c))

\* A binding changes only on the Settings screen or by the reset command: a key
\* pressed anywhere else is not taken for a rebinding left waiting there
\* (state.rs on_key; screens/settings.rs rebinding).
BindingsStayPut ==
  overrides' # overrides => screen = "Settings" \/ ran' = <<"Settings", "ResetKeymap">>

Embeds(q, t) == \E f \in [1..Len(q) -> 1..Len(t)] :
                  /\ \A i \in 1..Len(q) : t[f[i]] = q[i]
                  /\ \A i, j \in 1..Len(q) : i < j => f[i] < f[j]

\* What is found is found exactly when its letters are there in order
\* (palette.rs score).
FoundIsSubsequence ==
  palette.open =>
    LET q == SelectSeq(palette.query, LAMBDA c : c # " ")
        rows == ToSet(Matches(palette.query, palette.entries))
    IN  \A i \in DOMAIN palette.entries :
          (i \in rows) = (Embeds(q, palette.entries[i].label) \/ (palette.entries[i].alt # <<>> /\ Embeds(q, palette.entries[i].alt)))

=============================================================================
