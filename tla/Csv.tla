-------------------------------- MODULE Csv --------------------------------
(***************************************************************************)
(* A pulse file read into the library and written back out (crates/sp-csv: *)
(* framer.rs, ingest.rs, export.rs, parse.rs).  The framer alternates      *)
(* between a group row and as many pulse rows as it declares, never looks  *)
(* ahead, and hands back a row that cannot be a pulse.  Everything it      *)
(* yields is inserted in one transaction.                                  *)
(*                                                                         *)
(* A line is its cells and whether it stands bare, i.e. its first cell is  *)
(* not quoted: only a bare line is skipped as a comment or as blank.  The  *)
(* first pass reads any file, chosen line by line; the second reads what   *)
(* export_dataset wrote of the first.                                      *)
(***************************************************************************)
EXTENDS Integers, Sequences

CONSTANTS Cells,      \* cells a file may have; Hash begins with the comment prefix
          Empty, Hash,
          NumberOf,   \* [Cells -> Int]: parse_number, Missing (NaN) or Unreadable
          Canonical,  \* [Cells -> Cells]: format_cell of what is stored of the cell
          GroupArity, Arities,   \* fields of the group header, and of the pulse header
          Unknown,    \* u32::MAX, which stands for "no count", and what greater counts become
          MaxLines    \* bound on the lines of a file

Missing == -1
Unreadable == -2
CountIndex == GroupArity
TimeIndex == 1
Lines == [cells : UNION {[1 .. k -> Cells] : k \in {GroupArity} \cup Arities}, bare : BOOLEAN]
NoLine == [cells |-> <<>>, bare |-> FALSE]
NoBlock == [values |-> <<>>, declared |-> 0, rows |-> <<>>, sound |-> TRUE]
Modes == {"strict", "tolerant"}

\* What is written of a cell reads as the cell did, a missing value is written as the empty
\* cell, and every number of pulses that a file can hold can be written and read again.
CsvAssumption ==
  /\ GroupArity \in Nat \ {0} /\ Arities \subseteq Nat \ {0}
  /\ Unknown \in Nat /\ MaxLines \in 0 .. Unknown
  /\ NumberOf \in [Cells -> Int] /\ Canonical \in [Cells -> Cells]
  /\ Empty \in Cells /\ NumberOf[Empty] = Missing /\ Canonical[Empty] = Empty
  /\ \A c \in Cells : NumberOf[Canonical[c]] = NumberOf[c] /\ Canonical[Canonical[c]] = Canonical[c]
  /\ \A n \in 0 .. MaxLines - 1 : \E c \in Cells : NumberOf[c] = n /\ Canonical[c] = c

VARIABLES mode, arity,   \* the profile's count mode, the fields of the pulse header
          pass, file,    \* which pass, and the lines still to be read in the second
          pending, block, phase,
          groups,        \* rows inserted in the open transaction
          store,         \* committed groups
          first,         \* what the first pass committed
          read           \* the lines this pass has read, in order
csvVars == <<mode, arity, pass, file, pending, block, phase, groups, store, first, read>>

CsvInit ==
  /\ mode \in Modes /\ arity \in Arities
  /\ pass = 1 /\ file = <<>> /\ pending = NoLine /\ block = NoBlock
  /\ phase = "group" /\ groups = <<>> /\ store = <<>> /\ first = <<>> /\ read = <<>>

\* next_data_line skips blank lines and comments.
Skipped(l) == l.bare /\ (l.cells[1] = Hash \/ l.cells = <<Empty>>)
\* The line handed back, the next line of the file, or its end.  In the first pass a line that
\* is not skipped may as well be quoted, and those that are skipped change nothing.
AtEnd == pending = NoLine /\ (pass = 1 \/ file = <<>>)
Quoted == {l \in Lines : ~l.bare}
Upcoming ==
  IF pending # NoLine THEN {pending}
  ELSE IF pass = 1 THEN {l \in Quoted : Len(read) < MaxLines}
  ELSE IF file = <<>> THEN {} ELSE {Head(file)}
\* A line is read once: when it is taken from the file, not when it is taken up after being
\* handed back.
FromFile(l) ==
  /\ file' = IF pending = NoLine /\ file # <<>> THEN Tail(file) ELSE file
  /\ read' = IF pending = NoLine THEN Append(read, l) ELSE read
Taken(l) == FromFile(l) /\ pending' = NoLine
SkipLine ==
  /\ phase \in {"group", "rows"} /\ pending = NoLine /\ file # <<>> /\ Skipped(Head(file))
  /\ file' = Tail(file)
  /\ UNCHANGED <<mode, arity, pass, pending, block, phase, groups, store, first, read>>

Raised(wrong) == wrong /\ mode = "strict"

\* group_values.resize: a short row is padded, a long one cut.
Padded(cells) == [i \in 1 .. GroupArity |-> IF i \in DOMAIN cells THEN cells[i] ELSE Empty]
Declared(cell) ==
  IF NumberOf[cell] >= 0 /\ NumberOf[cell] < Unknown THEN NumberOf[cell] ELSE Unknown
Held(l) == l
ReadGroupRow == \E l \in Upcoming :
  /\ phase = "group" /\ ~Skipped(l) /\ Taken(l)
  /\ LET values == Padded(l.cells)
         count == values[CountIndex]
         sound == Len(l.cells) = GroupArity /\ NumberOf[count] >= 0
     IN IF Raised(~sound)
        THEN phase' = "failed" /\ UNCHANGED block
        ELSE /\ block' = [values |-> values, declared |-> Declared(count), rows |-> <<>>,
                          sound |-> sound]
             /\ phase' = "rows"
  /\ UNCHANGED <<mode, arity, pass, groups, store, first>>

Known == block.declared # Unknown
Wanting == Len(block.rows) < block.declared \/ ~Known
\* What the columns keep of a pulse row.
Stored(c) == IF NumberOf[c] = Unreadable THEN Empty ELSE Canonical[c]
ReadPulse == \E l \in Upcoming :
  /\ phase = "rows" /\ Wanting /\ ~Skipped(l) /\ Len(l.cells) = arity /\ Taken(l)
  /\ IF Raised(NumberOf[l.cells[TimeIndex]] = Unreadable)
     THEN phase' = "failed" /\ UNCHANGED block
     ELSE /\ block' = [block EXCEPT !.rows = Append(@, [i \in 1 .. arity |-> Stored(l.cells[i])])]
          /\ UNCHANGED phase
  /\ UNCHANGED <<mode, arity, pass, groups, store, first>>

\* A row of another arity is handed back to be the next group row.
HandBack == \E l \in Upcoming :
  /\ phase = "rows" /\ Wanting /\ ~Skipped(l) /\ Len(l.cells) # arity
  /\ FromFile(l) /\ pending' = Held(l)
  /\ phase' = IF Raised(Known) THEN "failed" ELSE "close"
  /\ UNCHANGED <<mode, arity, pass, block, groups, store, first>>
EndOfFile ==
  /\ phase = "rows" /\ Wanting /\ AtEnd
  /\ phase' = IF Raised(Known) THEN "failed" ELSE "close"
  /\ UNCHANGED <<mode, arity, pass, file, pending, block, groups, store, first, read>>
Enough ==
  /\ phase = "rows" /\ ~Wanting /\ phase' = "close"
  /\ UNCHANGED <<mode, arity, pass, file, pending, block, groups, store, first, read>>

\* The block is complete: build_group and insert_pulse_group.
CloseBlock ==
  /\ phase = "close"
  /\ IF Raised(Known /\ block.declared # Len(block.rows))
     THEN phase' = "failed" /\ UNCHANGED <<block, groups>>
     ELSE /\ groups' = Append(groups, [values |-> [i \in 1 .. GroupArity - 1 |->
                                                    Canonical[block.values[i]]],
                declared |-> IF Known THEN block.declared ELSE Len(block.rows),
                rows |-> block.rows, sound |-> block.sound])
          /\ phase' = "group" /\ block' = NoBlock
  /\ UNCHANGED <<mode, arity, pass, file, pending, store, first, read>>

RolledBack == store
Cancel ==
  /\ phase \in {"group", "rows"}
  /\ phase' = "cancelled" /\ store' = RolledBack
  /\ UNCHANGED <<mode, arity, pass, file, pending, block, groups, first, read>>
Commit ==
  /\ phase = "group" /\ AtEnd
  /\ store' = store \o groups /\ phase' = "done"
  /\ UNCHANGED <<mode, arity, pass, file, pending, block, groups, first, read>>

\* quote_field quotes for a delimiter, a quote or blanks around it, which no cell here has;
\* not for being empty, and not for the prefix of a comment.
NeedsQuoting(cell) == FALSE
JoinRow(cells) == [cells |-> cells, bare |-> ~NeedsQuoting(cells[1])]
\* export_dataset: the count is what was read.
CellFor(n) == CHOOSE c \in Cells : NumberOf[c] = n /\ Canonical[c] = c
SlipGroupLine(g) == JoinRow(Append(g.values, CellFor(g.declared)))
GroupLine(g) == JoinRow(Append(g.values, CellFor(Len(g.rows))))
PulseLine(r) == JoinRow(r)
WriteGroup(g) == <<GroupLine(g)>> \o [i \in DOMAIN g.rows |-> PulseLine(g.rows[i])]
Export ==
  LET upTo[n \in 0 .. Len(store)] ==
        IF n = 0 THEN <<>> ELSE upTo[n - 1] \o WriteGroup(store[n])
  IN upTo[Len(store)]
ImportAgain ==
  /\ phase = "done" /\ pass = 1
  /\ pass' = 2 /\ file' = Export /\ first' = store
  /\ store' = <<>> /\ groups' = <<>> /\ read' = <<>> /\ pending' = NoLine
  /\ block' = NoBlock /\ phase' = "group"
  /\ UNCHANGED <<mode, arity>>

CsvNext == \/ SkipLine \/ ReadGroupRow \/ ReadPulse \/ HandBack \/ EndOfFile \/ Enough
           \/ CloseBlock \/ Cancel \/ Commit \/ ImportAgain
CsvSpec == CsvInit /\ [][CsvNext]_csvVars

----------------------------------------------------------------------------
\* Types; a block never holds more rows than it declared.
CsvTypeOK ==
  /\ mode \in Modes /\ pass \in 1 .. 2
  /\ phase \in {"group", "rows", "close", "done", "failed", "cancelled"}
  /\ pending \in Lines \cup {NoLine}
  /\ \A i \in DOMAIN block.rows : block.rows[i] \in [1 .. arity -> Cells]
  /\ block.declared \in 0 .. Unknown /\ (Known => Len(block.rows) <= block.declared)

\* An import that is cancelled, or that strict mode refuses, leaves nothing behind; one that
\* succeeds leaves every group it framed.
AllOrNothing == store = IF phase = "done" THEN groups ELSE <<>>

RowsBefore(n) ==
  LET f[k \in 0 .. Len(groups)] == IF k = 0 THEN 0 ELSE f[k - 1] + 1 + Len(groups[k].rows)
  IN f[n]

\* Every line read is in exactly one place, in order: a group row, a pulse of the group before
\* it, or the line handed back, which is neither lost nor read twice.
LinesOnce ==
  phase \in {"group", "done"} =>
    /\ RowsBefore(Len(groups)) + (IF pending = NoLine THEN 0 ELSE 1) = Len(read)
    /\ \A n \in DOMAIN groups : \A k \in 1 .. Len(groups[n].rows), i \in 1 .. arity :
         groups[n].rows[k][i] = Stored(read[RowsBefore(n - 1) + 1 + k].cells[i])

\* What strict mode lets through is exact: rows of the right arity, every count met.
StrictExact ==
  (mode = "strict" /\ phase = "done") =>
     \A n \in DOMAIN groups : groups[n].sound /\
        (groups[n].declared = Len(groups[n].rows))

Writable(g) == \A l \in {WriteGroup(g)[i] : i \in DOMAIN WriteGroup(g)} : ~Skipped(l)
Data(gs) == [n \in DOMAIN gs |-> [values |-> gs[n].values, rows |-> gs[n].rows]]
Returned == pass = 2 /\ phase \in {"done", "failed"}

\* Exporting and importing again gives the same groups (goal G1), provided no exported row
\* begins with the comment prefix and none is a single empty cell.
RoundTrip == (Returned /\ \A n \in DOMAIN first : Writable(first[n]))
                => phase = "done" /\ Data(store) = Data(first)
============================================================================
