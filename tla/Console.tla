------------------------------- MODULE Console ------------------------------
(***************************************************************************)
(* The framebuffer text console (kernel/drivers/console.c).                *)
(*                                                                         *)
(* The framebuffer is a picture of scan lines; along a line pixels are     *)
(* told apart by the text column they are in, down the screen one by one,  *)
(* so that the cursor (the bottom line of a cell), the lines that scroll   *)
(* moves and the strip below the last whole text row are real.  The pixels *)
(* of a glyph's line r in one cell are the pair of the glyph and r.        *)
(***************************************************************************)
EXTENDS Integers, FiniteSets

CONSTANTS
  FB_WIDTH, FB_HEIGHT,  \* the framebuffer, in pixels
  GLYPH_W, GLYPH_H,     \* the font's cell
  TAB_STOP,             \* 8 in the code
  Glyphs,               \* printable characters the font has ink for
  Chars                 \* what callers write

cols == FB_WIDTH \div GLYPH_W
rows == FB_HEIGHT \div GLYPH_H

\* "space" stands for the printable characters that draw a blank cell: the space
\* and those beyond glyph_count.  "NUL" stands for the ignored control bytes.
Printable == Glyphs \cup {"space"}
Controls == {"LF", "CR", "BS", "TAB", "NUL"}

ASSUME ConsoleAssumption ==
  /\ FB_WIDTH \in Nat /\ FB_HEIGHT \in Nat /\ TAB_STOP \in Nat \ {0}
  /\ GLYPH_W \in 1 .. FB_WIDTH /\ GLYPH_H \in 2 .. FB_HEIGHT
  /\ Glyphs \cap ({"space", "blank", "bg", "fg", "junk"} \cup Controls) = {}
  /\ Chars \subseteq Printable \cup Controls

VARIABLES
  fb,                \* scan line -> text column -> pixels
  cur_col, cur_row,  \* the cursor, in cells
  ready,             \* a valid font has been parsed
  called,            \* history: console_init has been called
  returned           \* history: a carriage return has been written

conVars == <<fb, cur_col, cur_row, ready, called, returned>>

bg == <<"bg", 0>>
fg == <<"fg", 0>>
Junk == <<"junk", 0>>
ScanLines == 0 .. FB_HEIGHT - 1
Columns == 0 .. cols - 1

\* Line r of character ch.
GlyphLine(ch, r) == IF ch \in Glyphs THEN <<ch, r>> ELSE bg

-----------------------------------------------------------------------------
\* Drawing into picture f

draw_cell(f, ch, col, row) ==
  [y \in ScanLines |-> [x \in Columns |->
     IF x = col /\ y \div GLYPH_H = row THEN GlyphLine(ch, y % GLYPH_H) ELSE f[y][x]]]

\* Cells col .. last - 1 of a row.
clear_cells(f, col, last, row) ==
  [y \in ScanLines |-> [x \in Columns |->
     IF x \in col .. last - 1 /\ y \div GLYPH_H = row THEN bg ELSE f[y][x]]]

paint_cursor(f, colour, col, row) ==
  [y \in ScanLines |-> [x \in Columns |->
     IF x = col /\ y = row * GLYPH_H + (GLYPH_H - 1) THEN colour ELSE f[y][x]]]

\* Fault: the copy runs down from the end whatever the direction of the move.
memmove_down(f, d, s, n) ==
  LET copied[i \in 0 .. n] ==
        IF i = 0 THEN f ELSE [copied[i - 1] EXCEPT ![d + n - i] = copied[i - 1][s + n - i]]
  IN  copied[n]

\* n lines from line s to line d, which may overlap: up from the start, or down from
\* the end when the target is behind the source.  Each line is read when it is written.
memmove(f, d, s, n) ==
  LET Line(i) == IF d < s THEN i - 1 ELSE n - i
      copied[i \in 0 .. n] ==
        IF i = 0 THEN f
        ELSE [copied[i - 1] EXCEPT ![d + Line(i)] = copied[i - 1][s + Line(i)]]
  IN  copied[n]

\* All scan lines but the first GLYPH_H move up; then the bottom text row and the
\* strip below it in bg.
scroll(f) ==
  LET moved == memmove(f, 0, GLYPH_H, FB_HEIGHT - GLYPH_H)
  IN  [y \in ScanLines |->
         IF y >= (rows - 1) * GLYPH_H THEN [x \in Columns |-> bg] ELSE moved[y]]

-----------------------------------------------------------------------------
\* One character.  s is the picture and the cursor in it.

At(f, col, row) == [fb |-> f, col |-> col, row |-> row]

newline(f, row) ==
  IF row + 1 >= rows THEN At(scroll(f), 0, rows - 1) ELSE At(f, 0, row + 1)

\* Up to column x, or on to the next line.
Forward(f, x, row) == IF x >= cols THEN newline(f, row) ELSE At(f, x, row)

Backspace(f, col, row) ==
  LET c == IF col > 0 THEN col - 1 ELSE IF row > 0 THEN cols - 1 ELSE col
      r == IF col = 0 /\ row > 0 THEN row - 1 ELSE row
  IN  At(draw_cell(f, "space", c, r), c, r)

\* Fault: the distance is added without rounding down to a tab stop.
TabTarget_unaligned(col) == col + TAB_STOP

TabTarget(col) == (col \div TAB_STOP) * TAB_STOP + TAB_STOP

\* The loop blanks cells up to the tab stop, or to the end of the line.
Tab(f, col, row) ==
  Forward(clear_cells(f, col, TabTarget(col), row), TabTarget(col), row)

\* What the switch of console_putc does with c.
Interpret(f, c, col, row) ==
  CASE c = "LF" -> newline(f, row)
    [] c = "CR" -> At(f, 0, row)
    [] c = "BS" -> Backspace(f, col, row)
    [] c = "TAB" -> Tab(f, col, row)
    [] c = "NUL" -> At(f, col, row)
    [] OTHER -> Forward(draw_cell(f, c, col, row), col + 1, row)

\* Fault: the cursor is not taken down first.
Putc_kept(c) ==
  LET s == Interpret(fb, c, cur_col, cur_row)
  IN  [s EXCEPT !.fb = paint_cursor(@, fg, s.col, s.row)]

\* The whole call: the cursor down, the character, the cursor up.
Putc(c) ==
  LET s == Interpret(paint_cursor(fb, bg, cur_col, cur_row), c, cur_col, cur_row)
  IN  [s EXCEPT !.fb = paint_cursor(@, fg, s.col, s.row)]

-----------------------------------------------------------------------------
\* The machine

ConsoleInit ==
  /\ fb = [y \in ScanLines |-> [x \in Columns |-> Junk]]
  /\ cur_col = 0 /\ cur_row = 0
  /\ ready = FALSE /\ called = FALSE /\ returned = FALSE

console_init ==
  /\ ~called
  /\ fb' = paint_cursor([y \in ScanLines |-> [x \in Columns |-> bg]], fg, 0, 0)
  /\ cur_col' = 0 /\ cur_row' = 0
  /\ ready' = TRUE /\ called' = TRUE
  /\ UNCHANGED returned

\* Wrong magic or geometry: the console stays off.
console_init_bad_font ==
  /\ ~called
  /\ ready' = FALSE /\ called' = TRUE
  /\ UNCHANGED <<fb, cur_col, cur_row, returned>>

console_putc(c) ==
  /\ ready
  /\ fb' = Putc(c).fb /\ cur_col' = Putc(c).col /\ cur_row' = Putc(c).row
  /\ returned' = (returned \/ c = "CR")
  /\ UNCHANGED <<ready, called>>

console_putc_off == ~ready /\ UNCHANGED conVars

ConsoleNext ==
  \/ console_init \/ console_init_bad_font \/ console_putc_off
  \/ \E c \in Chars : console_putc(c)

ConsoleSpec == ConsoleInit /\ [][ConsoleNext]_conVars

-----------------------------------------------------------------------------
\* Properties

\* The cursor is a cell of the grid after any text: "we scroll instead of running
\* off the bottom" (the next call draws there, and a cell off the grid is not in
\* the framebuffer).
CursorOnGrid == cur_col \in Columns /\ cur_row \in 0 .. rows - 1

\* Wrapping, scrolling and erasing keep the cursor on the grid and leave none behind: the only underlined
\* cell is the one the next character goes to, and the strip of scan lines below
\* the last text row, which scroll moves along, is never painted on.
OneCursor ==
  ready =>
    /\ CursorOnGrid
    /\ \A y \in ScanLines, x \in Columns :
         /\ fb[y][x] = fg <=> x = cur_col /\ y = cur_row * GLYPH_H + GLYPH_H - 1
         /\ y >= rows * GLYPH_H => fb[y][x] = bg

\* The character cell <<row, col>> shows.
Shown(row, col) == LET top == fb[row * GLYPH_H][col] IN IF top = bg THEN "blank" ELSE top[1]

\* Cell <<row, col>> shows every line of its character.
Whole(row, col) ==
  \A r \in 0 .. GLYPH_H - 1 : fb[row * GLYPH_H + r][col] = GlyphLine(Shown(row, col), r)

\* <<row, col>> is the cursor's cell or comes after it in reading order.
Ahead(row, col) == row > cur_row \/ (row = cur_row /\ col >= cur_col)

\* The comment on paint_cursor says "the cursor cell is normally empty", so the cursor
\* "never eats a real glyph": however text was wrapped, scrolled, tabbed over and erased
\* across lines, nothing is ahead of the cursor, and every cell behind it shows all lines
\* of one character.  True of what the kernel writes; a carriage return, which no caller
\* writes, puts the cursor on a glyph.
GlyphsWhole ==
  ready /\ ~returned => \A row \in 0 .. rows - 1, col \in Columns :
    IF Ahead(row, col) THEN Shown(row, col) = "blank" ELSE Whole(row, col)

\* The pictures are those of a text terminal: every call of console_putc does to the
\* visible characters what its character does to the terminal's window, memmove, strip
\* and cursor included, and nothing else changes them.
Term == INSTANCE Terminal WITH
  Cols <- cols, Rows <- rows, TabStop <- TAB_STOP, col <- cur_col, row <- cur_row,
  window <- [r \in 0 .. rows - 1 |-> [x \in Columns |->
               IF ready THEN Shown(r, x) ELSE "blank"]]
RefinesTerminal ==
  /\ Term!TermSpec
  /\ [][\A c \in Chars : console_putc(c) => Term!Type(c)]_conVars

=============================================================================
