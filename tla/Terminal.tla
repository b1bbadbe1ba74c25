------------------------------ MODULE Terminal ------------------------------
(***************************************************************************)
(* What the console promises (kernel/drivers/console.h): a text terminal.  *)
(* A window of Rows lines of characters and a cursor in it; writing past   *)
(* the last line drops the first one.                                      *)
(***************************************************************************)
EXTENDS Integers

CONSTANTS
  Cols, Rows,  \* the size of the window
  TabStop,     \* the distance of tab stops
  Glyphs       \* the characters that show

VARIABLES
  window,      \* row -> column -> character
  col, row     \* the cursor

termVars == <<window, col, row>>

BlankLine == [x \in 0 .. Cols - 1 |-> "blank"]
Scrolled(w) == [r \in 0 .. Rows - 1 |-> IF r < Rows - 1 THEN w[r + 1] ELSE BlankLine]

TermInit ==
  /\ window = [r \in 0 .. Rows - 1 |-> BlankLine]
  /\ col = 0 /\ row = 0

\* The cursor moves to the line below w's current one.
LineBelow(w) ==
  /\ col' = 0
  /\ \/ /\ row + 1 < Rows
        /\ row' = row + 1
        /\ window' = w
     \/ /\ row + 1 = Rows
        /\ row' = row
        /\ window' = Scrolled(w)

\* The cursor moves right to column x of w, or to the next line.
MoveTo(x, w) ==
  \/ x < Cols /\ col' = x /\ row' = row /\ window' = w
  \/ x >= Cols /\ LineBelow(w)

Put(ch) == MoveTo(col + 1, [window EXCEPT ![row][col] = ch])

LineFeed == LineBelow(window)

CarriageReturn == col' = 0 /\ UNCHANGED <<window, row>>

\* The cell before the cursor in reading order; the first cell has none.
Back ==
  /\ col' = IF col > 0 THEN col - 1 ELSE IF row > 0 THEN Cols - 1 ELSE 0
  /\ row' = IF col = 0 /\ row > 0 THEN row - 1 ELSE row
  /\ window' = [window EXCEPT ![row'][col'] = "blank"]

Tabulate ==
  LET stop == (col \div TabStop + 1) * TabStop IN
  MoveTo(stop, [window EXCEPT ![row] =
                  [x \in 0 .. Cols - 1 |-> IF x \in col .. stop - 1 THEN "blank" ELSE @[x]]])

\* What each character does; what has no ink is blank, other control bytes do nothing.
Type(c) ==
  \/ c \in Glyphs /\ Put(c)
  \/ c = "space" /\ Put("blank")
  \/ c = "LF" /\ LineFeed
  \/ c = "CR" /\ CarriageReturn
  \/ c = "BS" /\ Back
  \/ c = "TAB" /\ Tabulate
  \/ c = "NUL" /\ UNCHANGED termVars

TermNext == \E c \in Glyphs \cup {"space", "LF", "CR", "BS", "TAB"} : Type(c)

TermSpec == TermInit /\ [][TermNext]_termVars

=============================================================================
