------------------------------- MODULE Terminal -------------------------------
(***************************************************************************)
(* What a screen of Rows lines of Cols cells should show of a text: the    *)
(* last lines of the text as a terminal lays it out.  A line ends at a     *)
(* newline or when it is full, and the next one is begun only when there   *)
(* is something to put on it.                                              *)
(*                                                                         *)
(* This is the reference that Console is compared with.                    *)
(***************************************************************************)
EXTENDS Integers, Sequences, SequencesExt

CONSTANTS
  Rows, Cols,  \* rowCount and colCount
  NL,          \* the newline
  Blank        \* what an empty cell shows

ASSUME ScreenAssumption == Rows \in Nat \ {0} /\ Cols \in Nat \ {0}

Size == Rows * Cols

\* The layout of a text: its lines, and whether the last one may grow.
Empty == [lines |-> << >>, open |-> FALSE]

Put(lay, c) ==
  LET lines == IF lay.open THEN lay.lines ELSE Append(lay.lines, << >>)
      last  == lines[Len(lines)]
      front == SubSeq(lines, 1, Len(lines) - 1)
  IN
  IF c = NL
  THEN [lines |-> lines, open |-> FALSE]
  ELSE [lines |-> Append(front, Append(last, c)), open |-> Len(last) + 1 < Cols]

Layout(text) == FoldLeft(Put, Empty, text)

\* The lines that scrolled out of sight.
Above(lay) == IF Len(lay.lines) > Rows THEN Len(lay.lines) - Rows ELSE 0

\* The line shown in row r, and the length of it.
LineAt(lay, r) ==
  IF Above(lay) + r + 1 <= Len(lay.lines)
  THEN lay.lines[Above(lay) + r + 1] ELSE << >>

\* The contents of the screen, cell by cell.
View(lay) ==
  [k \in 0 .. (Size - 1) |->
     LET line == LineAt(lay, k \div Cols) IN
     IF k % Cols < Len(line) THEN line[(k % Cols) + 1] ELSE Blank]

\* The cells that show a character of the text.
Inked(lay) ==
  {k \in 0 .. (Size - 1) : k % Cols < Len(LineAt(lay, k \div Cols))}

\* Where the next character goes; Size when the screen has to scroll first.
CursorOf(lay) ==
  LET shown == Len(lay.lines) - Above(lay) IN
  IF lay.open
  THEN (shown - 1) * Cols + Len(lay.lines[Len(lay.lines)])
  ELSE shown * Cols
=============================================================================
