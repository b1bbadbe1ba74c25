---------------------------- MODULE ConsoleProofs ---------------------------
(***************************************************************************)
(* The console's invariants, its refinement of the terminal and the cursor *)
(* under interrupts, for framebuffers, fonts and texts of any size.        *)
(***************************************************************************)
EXTENDS ConsoleIrq, NatLemmas

-----------------------------------------------------------------------------
\* Scan lines and cells

TextRows == 0 .. rows - 1
GlyphLines == 0 .. GLYPH_H - 1

LEMMA Geometry ==
  /\ cols \in Nat \ {0} /\ rows \in Nat \ {0} /\ GLYPH_H \in Nat /\ GLYPH_H >= 2
  /\ FB_HEIGHT \in Nat /\ GLYPH_H <= FB_HEIGHT
  /\ rows * GLYPH_H <= FB_HEIGHT
  /\ TAB_STOP \in Nat \ {0}
<1>1. ASSUME NEW a \in Nat, NEW b \in 1 .. a
      PROVE  a \div b \in Nat \ {0} /\ (a \div b) * b <= a
  <2>1. a \div b \in Nat /\ (a \div b) * b <= a /\ a < (a \div b + 1) * b
    BY SMTT(30)
  <2> QED BY <2>1
<1>2. FB_WIDTH \in Nat /\ GLYPH_W \in 1 .. FB_WIDTH /\ FB_HEIGHT \in Nat /\ GLYPH_H \in 1 .. FB_HEIGHT
      /\ GLYPH_H >= 2 /\ TAB_STOP \in Nat \ {0}
  BY ConsoleAssumption
<1> QED BY <1>1, <1>2 DEF cols, rows

\* Line i of text row k.
LEMMA CellLine ==
  ASSUME NEW k \in TextRows, NEW i \in GlyphLines
  PROVE  /\ k * GLYPH_H + i \in ScanLines
         /\ (k * GLYPH_H + i) \div GLYPH_H = k
         /\ (k * GLYPH_H + i) % GLYPH_H = i
         /\ k * GLYPH_H + i < rows * GLYPH_H
         /\ k < rows - 1 => /\ k * GLYPH_H + i < (rows - 1) * GLYPH_H
                            /\ k * GLYPH_H + i + GLYPH_H = (k + 1) * GLYPH_H + i
         /\ k = rows - 1 => k * GLYPH_H + i >= (rows - 1) * GLYPH_H
<1> DEFINE H == GLYPH_H
           R == rows
<1>1. H \in Nat /\ H >= 2 /\ R \in Nat \ {0} /\ R * H <= FB_HEIGHT /\ FB_HEIGHT \in Nat
  BY Geometry
<1>2. k \in Nat /\ k <= R - 1 /\ i \in Nat /\ i <= H - 1
  BY <1>1 DEF TextRows, GlyphLines
<1> HIDE DEF H, R
<1>3. k * H + i < (k + 1) * H /\ k * H + i \in Nat /\ k * H \in Nat
  BY <1>1, <1>2
<1>4. ASSUME NEW a \in Nat, NEW b \in Nat, a <= b PROVE a * H <= b * H
  BY <1>1, <1>4
<1>5. (k + 1) * H <= R * H
  BY <1>1, <1>2, <1>4
<1>6. k < R - 1 => (k + 1) * H <= (R - 1) * H
  BY <1>1, <1>2, <1>4
<1>7. (k * H + i) \div H = k /\ (k * H + i) % H = i
  BY <1>1, <1>2, SMTT(30)
<1>8. (k + 1) * H = k * H + H
  BY <1>1, <1>2
<1>9. R * H \in Nat /\ (R - 1) * H \in Nat
  BY <1>1
<1> DEFINE a == k * H + i
           b == (k + 1) * H
           e == R * H
           d == (R - 1) * H
<1>10. /\ a < e /\ a < FB_HEIGHT
       /\ k < R - 1 => a < d
       /\ a + H = b + i
  <2>1. /\ a \in Nat /\ e \in Nat /\ d \in Nat /\ b \in Nat /\ a < b /\ b <= e /\ e <= FB_HEIGHT
        /\ k < R - 1 => b <= d
    BY <1>1, <1>3, <1>5, <1>6, <1>8, <1>9
  <2>2. a + H = b + i
    BY <1>1, <1>2, <1>3, <1>8
  <2> HIDE DEF a, b, e, d
  <2> QED BY <1>1, <2>1, <2>2
<1>11. k = R - 1 => a >= (R - 1) * H
  BY <1>2, <1>3
<1> QED BY <1>1, <1>3, <1>7, <1>10, <1>11 DEF H, R, ScanLines

\* Every scan line is a line of a text row or of the strip below them.
LEMMA LineCell ==
  ASSUME NEW y \in ScanLines
  PROVE  /\ y \in Nat /\ y \div GLYPH_H \in Nat /\ y % GLYPH_H \in GlyphLines
         /\ y = (y \div GLYPH_H) * GLYPH_H + (y % GLYPH_H)
         /\ y < rows * GLYPH_H <=> y \div GLYPH_H \in TextRows
<1> DEFINE H == GLYPH_H
           R == rows
           q == y \div H
           r == y % H
<1>1. H \in Nat /\ H >= 2 /\ R \in Nat \ {0} /\ y \in Nat
  BY Geometry DEF ScanLines
<1> HIDE DEF H, R
<1>2. q \in Nat /\ r \in 0 .. H - 1 /\ y = q * H + r
  BY <1>1
<1> HIDE DEF q, r
<1>3. ASSUME NEW a \in Nat, NEW b \in Nat, a <= b PROVE a * H <= b * H
  BY <1>1, <1>3
<1>4. q < R => y < R * H
  <2>1. q < R => (q + 1) * H <= R * H
    BY <1>1, <1>2, <1>3
  <2>2. y < (q + 1) * H
    BY <1>1, <1>2
  <2>3. R * H \in Nat /\ (q + 1) * H \in Nat
    BY <1>1, <1>2
  <2> DEFINE a == R * H
             b == (q + 1) * H
  <2> HIDE DEF a, b
  <2>4. q < R => b <= a
    BY <2>1 DEF a, b
  <2>5. y < b /\ a \in Nat /\ b \in Nat
    BY <2>2, <2>3 DEF a, b
  <2>6. q < R => y < a
    BY <1>1, <2>4, <2>5
  <2> QED BY <2>6 DEF a
<1>5. R <= q => R * H <= y
  <2>1. R <= q => R * H <= q * H
    BY <1>1, <1>2, <1>3
  <2>2. q * H <= y /\ q * H \in Nat /\ R * H \in Nat
    BY <1>1, <1>2
  <2> DEFINE a == R * H
             b == q * H
  <2>3. (R <= q => a <= b) /\ b <= y /\ a \in Nat /\ b \in Nat
    BY <2>1, <2>2
  <2> HIDE DEF a, b
  <2>4. R <= q => a <= y
    BY <1>1, <2>3
  <2> QED BY <2>4 DEF a
<1>6. R * H \in Nat
  BY <1>1
<1>7. y < R * H <=> q \in 0 .. R - 1
  <2> DEFINE a == R * H
  <2>1. a \in Nat /\ (q < R => y < a) /\ (R <= q => a <= y)
    BY <1>4, <1>5, <1>6
  <2> HIDE DEF a
  <2>2. y < a <=> q \in 0 .. R - 1
    BY <1>1, <1>2, <2>1
  <2> QED BY <2>2 DEF a
<1> QED BY <1>1, <1>2, <1>7 DEF H, R, q, r, TextRows, GlyphLines

-----------------------------------------------------------------------------
\* Pictures

\* The pixels of line i of cell <<k, x>>.
Cell(f, k, x, i) == f[k * GLYPH_H + i][x]

\* No cursor is showing.
Dark(f) == \A y \in ScanLines, x \in Columns : f[y][x] # fg

\* The strip below the text is empty.
StripClear(f) == \A y \in ScanLines, x \in Columns : y >= rows * GLYPH_H => f[y][x] = bg

Picture(f) == f = [y \in ScanLines |-> f[y]] /\ Dark(f) /\ StripClear(f)

\* <<k, x>> is cell <<r, c>> or comes after it.
Beyond(k, x, c, r) == k > r \/ (k = r /\ x >= c)

\* Every cell shows all lines of one character, and there is none from <<r, c>> on.
Text(f, c, r) ==
  \A k \in TextRows, x \in Columns :
    /\ \E ch \in Printable : \A i \in GlyphLines : Cell(f, k, x, i) = GlyphLine(ch, i)
    /\ Beyond(k, x, c, r) => \A i \in GlyphLines : Cell(f, k, x, i) = bg

LEMMA Ink ==
  /\ \A ch, i : GlyphLine(ch, i) # fg
  /\ \A ch, i : GlyphLine(ch, i) = bg <=> ch \notin Glyphs
  /\ \A i : GlyphLine("space", i) = bg
  /\ bg # fg /\ "space" \in Printable
<1>1. "fg" \notin Glyphs /\ "bg" \notin Glyphs /\ "space" \notin Glyphs
  BY ConsoleAssumption
<1>2. \A a, b, c, d : <<a, b>> = <<c, d>> <=> a = c /\ b = d
  OBVIOUS
<1> QED BY <1>1, <1>2 DEF GlyphLine, bg, fg, Printable

LEMMA DrawCell ==
  ASSUME NEW f, NEW ch, NEW c \in Columns, NEW r \in TextRows
  PROVE  LET g == draw_cell(f, ch, c, r) IN
         /\ \A k \in TextRows, x \in Columns, i \in GlyphLines :
              Cell(g, k, x, i) = IF k = r /\ x = c THEN GlyphLine(ch, i) ELSE Cell(f, k, x, i)
         /\ Picture(f) => Picture(g)
<1> DEFINE g == draw_cell(f, ch, c, r)
<1>1. \A y \in ScanLines, x \in Columns :
        g[y][x] = IF x = c /\ y \div GLYPH_H = r THEN GlyphLine(ch, y % GLYPH_H) ELSE f[y][x]
  BY DEF draw_cell
<1>2. g = [y \in ScanLines |-> g[y]]
  BY DEF draw_cell
<1> HIDE DEF g
<1>3. ASSUME NEW k \in TextRows, NEW x \in Columns, NEW i \in GlyphLines
      PROVE  Cell(g, k, x, i) = IF k = r /\ x = c THEN GlyphLine(ch, i) ELSE Cell(f, k, x, i)
  BY <1>1, CellLine DEF Cell
<1>4. ASSUME Picture(f) PROVE Dark(g) /\ StripClear(g)
  <2>1. Dark(g)
    BY <1>1, <1>4, Ink DEF Picture, Dark
  <2>2. ASSUME NEW y \in ScanLines, NEW x \in Columns, y >= rows * GLYPH_H PROVE g[y][x] = bg
    <3>1. ~(y < rows * GLYPH_H)
      BY <2>2, LineCell, Geometry
    <3> QED BY <1>1, <1>4, <2>2, <3>1, LineCell DEF Picture, StripClear
  <2> QED BY <2>1, <2>2 DEF StripClear
<1> QED BY <1>2, <1>3, <1>4 DEF g, Picture

LEMMA ClearCells ==
  ASSUME NEW f, NEW a, NEW b, NEW r \in TextRows
  PROVE  LET g == clear_cells(f, a, b, r) IN
         /\ \A k \in TextRows, x \in Columns, i \in GlyphLines :
              Cell(g, k, x, i) = IF k = r /\ x \in a .. b - 1 THEN bg ELSE Cell(f, k, x, i)
         /\ Picture(f) => Picture(g)
<1> DEFINE g == clear_cells(f, a, b, r)
<1>1. \A y \in ScanLines, x \in Columns :
        g[y][x] = IF x \in a .. b - 1 /\ y \div GLYPH_H = r THEN bg ELSE f[y][x]
  BY DEF clear_cells
<1>2. g = [y \in ScanLines |-> g[y]]
  BY DEF clear_cells
<1> HIDE DEF g
<1>3. ASSUME NEW k \in TextRows, NEW x \in Columns, NEW i \in GlyphLines
      PROVE  Cell(g, k, x, i) = IF k = r /\ x \in a .. b - 1 THEN bg ELSE Cell(f, k, x, i)
  BY <1>1, CellLine DEF Cell
<1>4. ASSUME Picture(f) PROVE Dark(g) /\ StripClear(g)
  BY <1>1, <1>4, Ink DEF Picture, Dark, StripClear
<1> QED BY <1>2, <1>3, <1>4 DEF g, Picture

\* g is f with the bottom line of one cell painted over.
Painted(g, f, colour, c, r) ==
  /\ \A k \in TextRows, x \in Columns, i \in GlyphLines :
       Cell(g, k, x, i) = IF k = r /\ x = c /\ i = GLYPH_H - 1 THEN colour ELSE Cell(f, k, x, i)
  /\ \A y \in ScanLines, x \in Columns :
       g[y][x] = IF x = c /\ y = r * GLYPH_H + (GLYPH_H - 1) THEN colour ELSE f[y][x]
  /\ g = [y \in ScanLines |-> g[y]]
  /\ StripClear(f) => StripClear(g)

LEMMA PaintCursor ==
  ASSUME NEW f, NEW colour, NEW c \in Columns, NEW r \in TextRows
  PROVE  Painted(paint_cursor(f, colour, c, r), f, colour, c, r)
<1> DEFINE g == paint_cursor(f, colour, c, r)
           z == r * GLYPH_H + (GLYPH_H - 1)
<1>1. \A y \in ScanLines, x \in Columns : g[y][x] = IF x = c /\ y = z THEN colour ELSE f[y][x]
  BY DEF paint_cursor
<1>2. g = [y \in ScanLines |-> g[y]]
  BY DEF paint_cursor
<1>3. GLYPH_H - 1 \in GlyphLines
  BY Geometry DEF GlyphLines
<1>4. ASSUME NEW k \in TextRows, NEW i \in GlyphLines
      PROVE  k * GLYPH_H + i \in ScanLines /\ (k * GLYPH_H + i = z <=> k = r /\ i = GLYPH_H - 1)
  BY <1>3, CellLine
<1>5. z < rows * GLYPH_H /\ z \in Nat /\ rows * GLYPH_H \in Nat
  BY <1>3, CellLine, Geometry DEF ScanLines
<1> HIDE DEF g, z
<1>6. ASSUME NEW k \in TextRows, NEW x \in Columns, NEW i \in GlyphLines
      PROVE  Cell(g, k, x, i) = IF k = r /\ x = c /\ i = GLYPH_H - 1 THEN colour ELSE Cell(f, k, x, i)
  BY <1>1, <1>4 DEF Cell
<1>7. ASSUME StripClear(f), NEW y \in ScanLines, NEW x \in Columns, y >= rows * GLYPH_H PROVE g[y][x] = bg
  <2>1. y # z
    BY <1>5, <1>7
  <2> QED BY <1>1, <1>7, <2>1 DEF StripClear
<1> QED BY <1>1, <1>2, <1>6, <1>7 DEF g, z, StripClear, Painted

-----------------------------------------------------------------------------
\* scroll

\* A move up reads no line that it has already written.
LEMMA MoveUp ==
  ASSUME NEW f, f = [y \in ScanLines |-> f[y]], NEW s \in Nat \ {0}, NEW n \in Nat, s + n <= FB_HEIGHT
  PROVE  \A y \in 0 .. n - 1 : memmove(f, 0, s, n)[y] = f[y + s]
<1> DEFINE Line(i) == IF 0 < s THEN i - 1 ELSE n - i
           Step(h) == [i \in 0 .. n |-> IF i = 0 THEN f
                                        ELSE [h[i - 1] EXCEPT ![0 + Line(i)] = h[i - 1][s + Line(i)]]]
           Up(i) == [y \in ScanLines |-> IF y < i THEN f[y + s] ELSE f[y]]
           C == CHOOSE h : h = Step(h)
<1>1. memmove(f, 0, s, n) = C[n]
  BY DEF memmove
<1>2. ASSUME NEW i \in 1 .. n
      PROVE  [Up(i - 1) EXCEPT ![0 + Line(i)] = Up(i - 1)[s + Line(i)]] = Up(i)
  <2>1. 0 + Line(i) = i - 1 /\ s + Line(i) = (i - 1) + s /\ i - 1 \in Nat /\ i \in Nat
    OBVIOUS
  <2>2. i - 1 \in ScanLines /\ (i - 1) + s \in ScanLines /\ ~((i - 1) + s < i - 1)
    <3>1. i <= n /\ FB_HEIGHT \in Nat
      BY Geometry
    <3> HIDE DEF Line, Step, Up, C
    <3> QED BY <2>1, <3>1, SMTT(30) DEF ScanLines
  <2>3. Up(i - 1)[(i - 1) + s] = f[(i - 1) + s]
    BY <2>2
  <2> DEFINE w == [Up(i - 1) EXCEPT ![i - 1] = f[(i - 1) + s]]
  <2>4. ASSUME NEW y \in ScanLines PROVE w[y] = IF y < i THEN f[y + s] ELSE f[y]
    <3>1. y \in Nat
      BY DEF ScanLines
    <3>2. CASE y = i - 1
      BY <2>1, <2>2, <3>1, <3>2
    <3>3. CASE y # i - 1
      <4>1. w[y] = Up(i - 1)[y]
        BY <3>3
      <4>2. y < i - 1 <=> y < i
        BY <2>1, <3>1, <3>3
      <4> QED BY <4>1, <4>2
    <3> QED BY <3>2, <3>3
  <2>5. w = [y \in ScanLines |-> w[y]]
    OBVIOUS
  <2>6. w = Up(i)
    <3> HIDE DEF w
    <3> QED BY <2>4, <2>5
  <2> QED BY <2>1, <2>3, <2>6
<1>3. Up(0) = f
  <2>1. \A y \in ScanLines : ~(y < 0)
    BY DEF ScanLines
  <2> QED BY <2>1
<1> DEFINE G == [i \in 0 .. n |-> Up(i)]
<1> HIDE DEF Up, Line
<1>4. G = Step(G)
  <2>1. ASSUME NEW i \in 0 .. n
        PROVE  G[i] = IF i = 0 THEN f ELSE [G[i - 1] EXCEPT ![0 + Line(i)] = G[i - 1][s + Line(i)]]
    <3>1. CASE i = 0
      BY <1>3, <3>1
    <3>2. CASE i # 0
      <4>1. i \in 1 .. n /\ i - 1 \in 0 .. n
        BY <3>2
      <4>2. G[i - 1] = Up(i - 1) /\ G[i] = Up(i)
        BY <4>1
      <4> HIDE DEF G
      <4> QED BY <1>2, <3>2, <4>1, <4>2
    <3> QED BY <3>1, <3>2
  <2> QED BY <2>1
<1>5. C = Step(C)
  <2> HIDE DEF G
  <2> QED BY <1>4
<1> HIDE DEF C, G
<1>6. \A i \in 0 .. n : C[i] = IF i = 0 THEN f ELSE [C[i - 1] EXCEPT ![0 + Line(i)] = C[i - 1][s + Line(i)]]
  BY <1>5
<1>7. C[n] = Up(n)
  <2> DEFINE B == {i \in 0 .. n : C[i] # Up(i)}
  <2> SUFFICES ASSUME B # {} PROVE FALSE
    OBVIOUS
  <2>1. B \in SUBSET Nat
    OBVIOUS
  <2>2. PICK i \in B : \A j \in B : i <= j
    <3> HIDE DEF B
    <3> QED BY <2>1, LeastNat
  <2>3. i \in 0 .. n /\ C[i] # Up(i)
    BY <2>2
  <2>4. i # 0
    BY <1>3, <1>6, <2>3
  <2>5. i \in 1 .. n /\ i - 1 \in 0 .. n /\ ~(i <= i - 1)
    BY <2>3, <2>4
  <2>6. C[i - 1] = Up(i - 1)
    BY <2>2, <2>5
  <2>7. C[i] = [C[i - 1] EXCEPT ![0 + Line(i)] = C[i - 1][s + Line(i)]]
    BY <1>6, <2>3, <2>4
  <2> QED BY <1>2, <2>3, <2>5, <2>6, <2>7
<1>8. ASSUME NEW y \in 0 .. n - 1 PROVE Up(n)[y] = f[y + s]
  <2>1. y \in ScanLines /\ y < n
    BY Geometry DEF ScanLines
  <2> QED BY <2>1 DEF Up
<1> QED BY <1>1, <1>7, <1>8

LEMMA Scroll ==
  ASSUME NEW f, Picture(f)
  PROVE  /\ \A k \in TextRows, x \in Columns, i \in GlyphLines :
              Cell(scroll(f), k, x, i) = IF k < rows - 1 THEN Cell(f, k + 1, x, i) ELSE bg
         /\ Picture(scroll(f))
<1> DEFINE g == scroll(f)
           m == memmove(f, 0, GLYPH_H, FB_HEIGHT - GLYPH_H)
           b == (rows - 1) * GLYPH_H
<1>1. g = [y \in ScanLines |-> IF y >= b THEN [x \in Columns |-> bg] ELSE m[y]]
  BY DEF scroll
<1>2. \A y \in 0 .. (FB_HEIGHT - GLYPH_H) - 1 : m[y] = f[y + GLYPH_H]
  <2>1. /\ GLYPH_H \in Nat \ {0} /\ FB_HEIGHT - GLYPH_H \in Nat
        /\ GLYPH_H + (FB_HEIGHT - GLYPH_H) <= FB_HEIGHT
    BY Geometry
  <2> HIDE DEF m
  <2> QED BY <2>1, MoveUp DEF Picture, m
<1>3. b \in Nat /\ b + GLYPH_H <= FB_HEIGHT /\ b <= rows * GLYPH_H
  <2>1. b = rows * GLYPH_H - GLYPH_H /\ b \in Nat /\ rows * GLYPH_H \in Nat
    BY Geometry
  <2> QED BY <2>1, Geometry
<1> HIDE DEF g, m, b
<1>4. ASSUME NEW y \in ScanLines, NEW x \in Columns
      PROVE  /\ y >= b => g[y][x] = bg
             /\ ~(y >= b) => g[y][x] = f[y + GLYPH_H][x] /\ y + GLYPH_H \in ScanLines
  <2>1. ~(y >= b) => y \in 0 .. (FB_HEIGHT - GLYPH_H) - 1 /\ y + GLYPH_H \in ScanLines
    BY <1>3, Geometry DEF ScanLines
  <2> QED BY <1>1, <1>2, <2>1
<1>5. ASSUME NEW k \in TextRows, NEW x \in Columns, NEW i \in GlyphLines
      PROVE  Cell(g, k, x, i) = IF k < rows - 1 THEN Cell(f, k + 1, x, i) ELSE bg
  <2>1. k * GLYPH_H + i \in ScanLines /\ k * GLYPH_H + i \in Int /\ k \in Nat /\ k <= rows - 1 /\ rows \in Nat
    <3>1. k * GLYPH_H + i \in ScanLines
      BY CellLine
    <3>2. ScanLines \subseteq Int
      BY Geometry DEF ScanLines
    <3>3. k \in Nat /\ k <= rows - 1 /\ rows \in Nat
      BY Geometry DEF TextRows
    <3> QED BY <3>1, <3>2, <3>3
  <2>2. CASE k < rows - 1
    <3>1. k * GLYPH_H + i < b /\ k * GLYPH_H + i + GLYPH_H = (k + 1) * GLYPH_H + i
      BY <2>2, CellLine DEF b
    <3>2. ~(k * GLYPH_H + i >= b)
      BY <1>3, <2>1, <3>1
    <3> QED BY <1>4, <2>1, <2>2, <3>1, <3>2 DEF Cell
  <2>3. CASE ~(k < rows - 1)
    <3>1. k * GLYPH_H + i >= b
      BY <2>1, <2>3, CellLine DEF b
    <3> QED BY <1>4, <2>1, <2>3, <3>1 DEF Cell
  <2> QED BY <2>2, <2>3
<1>6. Dark(g)
  BY <1>4, Ink DEF Picture, Dark
<1>7. StripClear(g)
  <2> SUFFICES ASSUME NEW y \in ScanLines, NEW x \in Columns, y >= rows * GLYPH_H PROVE y >= b
    BY <1>4 DEF StripClear
  <2>1. y \in Int /\ rows * GLYPH_H \in Int
    BY Geometry DEF ScanLines
  <2> QED BY <1>3, <2>1
<1>8. g = [y \in ScanLines |-> g[y]]
  BY <1>1
<1> QED BY <1>5, <1>6, <1>7, <1>8 DEF g, Picture

-----------------------------------------------------------------------------
\* What one character does to the picture and to the text

\* A cell that the operation leaves alone, fills or blanks shows one character.
OneChar(f, k, x) == \E ch \in Printable : \A i \in GlyphLines : Cell(f, k, x, i) = GlyphLine(ch, i)
Blank(f, k, x) == \A i \in GlyphLines : Cell(f, k, x, i) = bg

LEMMA TextCells ==
  ASSUME NEW f, NEW c, NEW r
  PROVE  Text(f, c, r) <=> \A k \in TextRows, x \in Columns :
                             OneChar(f, k, x) /\ (Beyond(k, x, c, r) => Blank(f, k, x))
BY DEF Text, OneChar, Blank

LEMMA BlankIsChar ==
  ASSUME NEW f, NEW k, NEW x, Blank(f, k, x)
  PROVE  OneChar(f, k, x)
BY Ink DEF OneChar, Blank

\* Same pixels, same character.
LEMMA SameCell ==
  ASSUME NEW f, NEW g, NEW k, NEW x, NEW m, NEW y,
         \A i \in GlyphLines : Cell(g, k, x, i) = Cell(f, m, y, i)
  PROVE  (OneChar(f, m, y) => OneChar(g, k, x)) /\ (Blank(f, m, y) => Blank(g, k, x))
BY DEF OneChar, Blank

\* What is known of a picture with the cursor at <<r, c>>.
Good(s) == s.col \in Columns /\ s.row \in TextRows /\ Picture(s.fb)

LEMMA Newline ==
  ASSUME NEW f, Picture(f), NEW r \in TextRows
  PROVE  LET s == newline(f, r) IN
         /\ Good(s)
         /\ (\E c \in Nat : Text(f, c, r)) => Text(s.fb, s.col, s.row)
<1> DEFINE s == newline(f, r)
<1>1. cols \in Nat \ {0} /\ rows \in Nat \ {0} /\ r \in Nat /\ r <= rows - 1
  BY Geometry DEF TextRows
<1>2. 0 \in Columns /\ rows - 1 \in TextRows
  BY <1>1 DEF Columns, TextRows
<1>3. CASE r + 1 >= rows
  <2>1. s.fb = scroll(f) /\ s.col = 0 /\ s.row = rows - 1
    BY <1>3 DEF newline, At
  <2>2. Good(s)
    BY <1>2, <2>1, Scroll DEF Good
  <2>3. ASSUME NEW c \in Nat, Text(f, c, r), NEW k \in TextRows, NEW x \in Columns
        PROVE  OneChar(s.fb, k, x) /\ (Beyond(k, x, s.col, s.row) => Blank(s.fb, k, x))
    <3>1. k \in Nat /\ k <= rows - 1 /\ x \in Nat
      BY <1>1 DEF TextRows, Columns
    <3>2. CASE k < rows - 1
      <4>1. k + 1 \in TextRows /\ ~Beyond(k, x, s.col, s.row)
        BY <1>1, <2>1, <3>1, <3>2 DEF TextRows, Beyond
      <4>2. \A i \in GlyphLines : Cell(s.fb, k, x, i) = Cell(f, k + 1, x, i)
        BY <2>1, <3>2, Scroll
      <4>3. OneChar(f, k + 1, x)
        BY <2>3, <4>1, TextCells
      <4> QED BY <4>1, <4>2, <4>3, SameCell
    <3>3. CASE ~(k < rows - 1)
      <4>1. Blank(s.fb, k, x)
        BY <2>1, <3>3, Scroll DEF Blank
      <4> QED BY <4>1, BlankIsChar
    <3> QED BY <3>2, <3>3
  <2>4. (\E c \in Nat : Text(f, c, r)) => Text(s.fb, s.col, s.row)
    <3> HIDE DEF s
    <3> QED BY <2>3, TextCells
  <2> QED BY <2>2, <2>4
<1>4. CASE ~(r + 1 >= rows)
  <2>1. s.fb = f /\ s.col = 0 /\ s.row = r + 1
    BY <1>4 DEF newline, At
  <2>2. Good(s)
    BY <1>1, <1>2, <1>4, <2>1 DEF Good, TextRows
  <2>3. ASSUME NEW c \in Nat, Text(f, c, r), NEW k \in TextRows, NEW x \in Columns
        PROVE  OneChar(s.fb, k, x) /\ (Beyond(k, x, s.col, s.row) => Blank(s.fb, k, x))
    <3>1. k \in Nat /\ x \in Nat
      BY <1>1 DEF TextRows, Columns
    <3>2. Beyond(k, x, s.col, s.row) => Beyond(k, x, c, r)
      BY <1>1, <2>1, <3>1 DEF Beyond
    <3> QED BY <2>1, <2>3, <3>2, TextCells
  <2>4. (\E c \in Nat : Text(f, c, r)) => Text(s.fb, s.col, s.row)
    <3> HIDE DEF s
    <3> QED BY <2>3, TextCells
  <2> QED BY <2>2, <2>4
<1> QED BY <1>3, <1>4

\* The cells from <<r, c>> to <<r, z - 1>> have been written.
LEMMA ForwardKeeps ==
  ASSUME NEW f, Picture(f), NEW r \in TextRows, NEW z \in Nat \ {0}
  PROVE  LET s == Forward(f, z, r) IN
         /\ Good(s)
         /\ Text(f, z, r) => Text(s.fb, s.col, s.row)
<1>1. CASE z >= cols
  BY <1>1, Newline DEF Forward
<1>2. CASE ~(z >= cols)
  <2>1. z \in Columns
    BY <1>2, Geometry DEF Columns
  <2> QED BY <1>2, <2>1 DEF Forward, At, Good
<1> QED BY <1>1, <1>2

LEMMA PrintKeeps ==
  ASSUME NEW f, Picture(f), NEW ch \in Printable, NEW c \in Columns, NEW r \in TextRows
  PROVE  LET s == Forward(draw_cell(f, ch, c, r), c + 1, r) IN
         /\ Good(s)
         /\ Text(f, c, r) => Text(s.fb, s.col, s.row)
<1> DEFINE g == draw_cell(f, ch, c, r)
<1>1. /\ \A k \in TextRows, x \in Columns, i \in GlyphLines :
           Cell(g, k, x, i) = IF k = r /\ x = c THEN GlyphLine(ch, i) ELSE Cell(f, k, x, i)
      /\ Picture(g)
  BY DrawCell
<1>2. c \in Nat /\ r \in Nat
  BY Geometry DEF Columns, TextRows
<1> HIDE DEF g
<1>3. ASSUME Text(f, c, r), NEW k \in TextRows, NEW x \in Columns
      PROVE  OneChar(g, k, x) /\ (Beyond(k, x, c + 1, r) => Blank(g, k, x))
  <2>1. k \in Nat /\ x \in Nat
    BY Geometry DEF Columns, TextRows
  <2>2. CASE k = r /\ x = c
    <3>1. OneChar(g, k, x)
      BY <1>1, <2>2 DEF OneChar
    <3>2. ~Beyond(k, x, c + 1, r)
      BY <1>2, <2>2 DEF Beyond
    <3> QED BY <3>1, <3>2
  <2>3. CASE ~(k = r /\ x = c)
    <3>1. \A i \in GlyphLines : Cell(g, k, x, i) = Cell(f, k, x, i)
      BY <1>1, <2>3
    <3>2. Beyond(k, x, c + 1, r) => Beyond(k, x, c, r)
      BY <1>2, <2>1 DEF Beyond
    <3> QED BY <1>3, <3>1, <3>2, SameCell, TextCells
  <2> QED BY <2>2, <2>3
<1>4. Text(f, c, r) => Text(g, c + 1, r)
  BY <1>3, TextCells
<1>5. c + 1 \in Nat \ {0}
  BY <1>2
<1>6. LET s == Forward(g, c + 1, r) IN Good(s) /\ (Text(g, c + 1, r) => Text(s.fb, s.col, s.row))
  BY <1>1, <1>5, ForwardKeeps
<1> QED BY <1>4, <1>6 DEF g

\* TabTarget is ahead of the cursor.
LEMMA TabForward ==
  ASSUME NEW c \in Nat
  PROVE  TabTarget(c) \in Nat \ {0} /\ c < TabTarget(c)
<1>1. TAB_STOP \in Nat \ {0}
  BY Geometry
<1>2. c < (c \div TAB_STOP) * TAB_STOP + TAB_STOP /\ c \div TAB_STOP \in Nat
  BY <1>1, SMTT(30)
<1>3. (c \div TAB_STOP) * TAB_STOP + TAB_STOP \in Nat
  BY <1>1, <1>2
<1> DEFINE t == (c \div TAB_STOP) * TAB_STOP + TAB_STOP
<1>4. c < t /\ t \in Nat
  BY <1>2, <1>3
<1> HIDE DEF t
<1>5. t \in Nat \ {0} /\ c < t
  BY <1>4
<1> QED BY <1>5 DEF TabTarget, t

LEMMA TabKeeps ==
  ASSUME NEW f, Picture(f), NEW c \in Columns, NEW r \in TextRows
  PROVE  LET s == Tab(f, c, r) IN
         /\ Good(s)
         /\ Text(f, c, r) => Text(s.fb, s.col, s.row)
<1> DEFINE t == TabTarget(c)
           g == clear_cells(f, c, t, r)
<1>1. /\ \A k \in TextRows, x \in Columns, i \in GlyphLines :
           Cell(g, k, x, i) = IF k = r /\ x \in c .. t - 1 THEN bg ELSE Cell(f, k, x, i)
      /\ Picture(g)
  BY ClearCells
<1>2. c \in Nat /\ r \in Nat
  BY Geometry DEF Columns, TextRows
<1>3. t \in Nat \ {0} /\ c < t
  BY <1>2, TabForward
<1> HIDE DEF g, t
<1>4. ASSUME Text(f, c, r), NEW k \in TextRows, NEW x \in Columns
      PROVE  OneChar(g, k, x) /\ (Beyond(k, x, t, r) => Blank(g, k, x))
  <2>1. k \in Nat /\ x \in Nat
    BY Geometry DEF Columns, TextRows
  <2>2. CASE k = r /\ x \in c .. t - 1
    <3>1. Blank(g, k, x)
      BY <1>1, <2>2 DEF Blank
    <3> QED BY <3>1, BlankIsChar
  <2>3. CASE ~(k = r /\ x \in c .. t - 1)
    <3>1. \A i \in GlyphLines : Cell(g, k, x, i) = Cell(f, k, x, i)
      BY <1>1, <2>3
    <3>2. Beyond(k, x, t, r) => Beyond(k, x, c, r)
      BY <1>2, <1>3, <2>1 DEF Beyond
    <3> QED BY <1>4, <3>1, <3>2, SameCell, TextCells
  <2> QED BY <2>2, <2>3
<1>5. Text(f, c, r) => Text(g, t, r)
  BY <1>4, TextCells
<1>6. LET s == Forward(g, t, r) IN Good(s) /\ (Text(g, t, r) => Text(s.fb, s.col, s.row))
  BY <1>1, <1>3, ForwardKeeps
<1> QED BY <1>5, <1>6 DEF g, t, Tab

LEMMA BackspaceKeeps ==
  ASSUME NEW f, Picture(f), NEW c \in Columns, NEW r \in TextRows
  PROVE  LET s == Backspace(f, c, r) IN
         /\ Good(s)
         /\ Text(f, c, r) => Text(s.fb, s.col, s.row)
<1> DEFINE a == IF c > 0 THEN c - 1 ELSE IF r > 0 THEN cols - 1 ELSE c
           b == IF c = 0 /\ r > 0 THEN r - 1 ELSE r
           g == draw_cell(f, "space", a, b)
           s == Backspace(f, c, r)
<1>1. s.fb = g /\ s.col = a /\ s.row = b
  BY DEF Backspace, At
<1>2. c \in Nat /\ c <= cols - 1 /\ r \in Nat /\ r <= rows - 1 /\ cols \in Nat \ {0} /\ rows \in Nat
  BY Geometry DEF Columns, TextRows
<1>3. a \in Columns /\ b \in TextRows
  BY <1>2 DEF Columns, TextRows
<1>4. \/ b = r /\ a = c - 1
      \/ b = r - 1 /\ c = 0 /\ a = cols - 1
      \/ b = r /\ a = c
  BY <1>2
<1> HIDE DEF a, b
<1>5. /\ \A k \in TextRows, x \in Columns, i \in GlyphLines :
           Cell(g, k, x, i) = IF k = b /\ x = a THEN GlyphLine("space", i) ELSE Cell(f, k, x, i)
      /\ Picture(g)
  BY <1>3, DrawCell
<1> HIDE DEF g, s
<1>6. ASSUME Text(f, c, r), NEW k \in TextRows, NEW x \in Columns
      PROVE  OneChar(g, k, x) /\ (Beyond(k, x, a, b) => Blank(g, k, x))
  <2>1. k \in Nat /\ x \in Nat /\ x <= cols - 1
    BY Geometry DEF Columns, TextRows
  <2>2. CASE k = b /\ x = a
    <3>1. Blank(g, k, x)
      BY <1>5, <2>2, Ink DEF Blank
    <3> QED BY <3>1, BlankIsChar
  <2>3. CASE ~(k = b /\ x = a)
    <3>1. \A i \in GlyphLines : Cell(g, k, x, i) = Cell(f, k, x, i)
      BY <1>5, <2>3
    <3>2. Beyond(k, x, a, b) => Beyond(k, x, c, r)
      BY <1>2, <1>4, <2>1, <2>3 DEF Beyond
    <3> QED BY <1>6, <3>1, <3>2, SameCell, TextCells
  <2> QED BY <2>2, <2>3
<1>7. Text(f, c, r) => Text(g, a, b)
  BY <1>6, TextCells
<1>8. Good(s) /\ (Text(f, c, r) => Text(s.fb, s.col, s.row))
  BY <1>1, <1>3, <1>5, <1>7 DEF Good
<1> QED BY <1>8 DEF s

LEMMA Characters ==
  /\ \A ch \in Printable : ch \notin Controls
  /\ \A ch \in Glyphs : ch # "space" /\ ch # "blank"
  /\ Chars \subseteq Printable \cup Controls
BY ConsoleAssumption DEF Printable, Controls

LEMMA InterpretKeeps ==
  ASSUME NEW f, Picture(f), NEW ch \in Chars, NEW c \in Columns, NEW r \in TextRows
  PROVE  LET s == Interpret(f, ch, c, r) IN
         /\ Good(s)
         /\ Text(f, c, r) /\ ch # "CR" => Text(s.fb, s.col, s.row)
<1>1. c \in Nat /\ 0 \in Columns
  BY Geometry DEF Columns
<1>2. CASE ch = "LF"
  <2>1. Interpret(f, ch, c, r) = newline(f, r)
    BY <1>2 DEF Interpret
  <2> QED BY <1>1, <2>1, Newline
<1>3. CASE ch = "CR"
  <2>1. Interpret(f, ch, c, r) = At(f, 0, r)
    BY <1>3 DEF Interpret
  <2> QED BY <1>1, <1>3, <2>1 DEF At, Good
<1>4. CASE ch = "BS"
  <2>1. Interpret(f, ch, c, r) = Backspace(f, c, r)
    BY <1>4 DEF Interpret
  <2> QED BY <2>1, BackspaceKeeps
<1>5. CASE ch = "TAB"
  <2>1. Interpret(f, ch, c, r) = Tab(f, c, r)
    BY <1>5 DEF Interpret
  <2> QED BY <2>1, TabKeeps
<1>6. CASE ch = "NUL"
  <2>1. Interpret(f, ch, c, r) = At(f, c, r)
    BY <1>6 DEF Interpret
  <2> QED BY <2>1 DEF At, Good
<1>7. CASE ch \in Printable
  <2>1. Interpret(f, ch, c, r) = Forward(draw_cell(f, ch, c, r), c + 1, r)
    BY <1>7, Characters DEF Interpret, Controls
  <2> QED BY <1>7, <2>1, PrintKeeps
<1> QED BY <1>2, <1>3, <1>4, <1>5, <1>6, <1>7, Characters DEF Controls

-----------------------------------------------------------------------------
\* The console

\* The cursor up and down again.
LEMMA CursorUpDown ==
  ASSUME NEW f, Picture(f), NEW c \in Columns, NEW r \in TextRows
  PROVE  LET g == paint_cursor(f, fg, c, r)
             h == paint_cursor(g, bg, c, r)
         IN  /\ Picture(h) /\ Cell(g, r, c, GLYPH_H - 1) = fg
             /\ Text(f, c, r) => Text(h, c, r)
<1> DEFINE g == paint_cursor(f, fg, c, r)
           h == paint_cursor(g, bg, c, r)
           z == r * GLYPH_H + (GLYPH_H - 1)
<1>1. /\ \A k \in TextRows, x \in Columns, i \in GlyphLines :
           Cell(g, k, x, i) = IF k = r /\ x = c /\ i = GLYPH_H - 1 THEN fg ELSE Cell(f, k, x, i)
      /\ \A y \in ScanLines, x \in Columns : g[y][x] = IF x = c /\ y = z THEN fg ELSE f[y][x]
      /\ StripClear(g)
  <2>1. Painted(g, f, fg, c, r)
    BY PaintCursor
  <2> HIDE DEF g
  <2> QED BY <2>1, Zenon DEF Picture, Painted
<1> HIDE DEF g, z
<1>2. /\ \A k \in TextRows, x \in Columns, i \in GlyphLines :
           Cell(h, k, x, i) = IF k = r /\ x = c /\ i = GLYPH_H - 1 THEN bg ELSE Cell(g, k, x, i)
      /\ \A y \in ScanLines, x \in Columns : h[y][x] = IF x = c /\ y = z THEN bg ELSE g[y][x]
      /\ StripClear(h) /\ h = [y \in ScanLines |-> h[y]]
  <2>1. Painted(h, g, bg, c, r)
    BY PaintCursor
  <2> HIDE DEF h
  <2> QED BY <1>1, <2>1, Zenon DEF Painted, z
<1> HIDE DEF h
<1>3. Picture(h)
  BY <1>1, <1>2, Ink DEF Picture, Dark
<1>4. GLYPH_H - 1 \in GlyphLines
  BY Geometry DEF GlyphLines
<1>5. ASSUME Text(f, c, r), NEW k \in TextRows, NEW x \in Columns
      PROVE  OneChar(h, k, x) /\ (Beyond(k, x, c, r) => Blank(h, k, x))
  <2>1. CASE k = r /\ x = c
    <3>1. c \in Nat
      BY Geometry DEF Columns
    <3>2. Blank(f, k, x)
      BY <1>5, <2>1, <3>1, TextCells DEF Beyond
    <3>3. Blank(h, k, x)
      BY <1>1, <1>2, <2>1, <3>2 DEF Blank
    <3> QED BY <3>3, BlankIsChar
  <2>2. CASE ~(k = r /\ x = c)
    <3>1. \A i \in GlyphLines : Cell(h, k, x, i) = Cell(f, k, x, i)
      BY <1>1, <1>2, <2>2
    <3> QED BY <1>5, <3>1, SameCell, TextCells
  <2> QED BY <2>1, <2>2
<1>6. Text(f, c, r) => Text(h, c, r)
  BY <1>5, TextCells
<1> QED BY <1>1, <1>3, <1>4, <1>6 DEF g, h

\* The picture once the cursor is down.
Plain == paint_cursor(fb, bg, cur_col, cur_row)

ConsoleInv ==
  /\ ~called => ~ready
  /\ ~ready => cur_col = 0 /\ cur_row = 0
  /\ cur_col \in Columns /\ cur_row \in TextRows
  /\ ready => Picture(Plain) /\ Cell(fb, cur_row, cur_col, GLYPH_H - 1) = fg
  /\ ready /\ ~returned => Text(Plain, cur_col, cur_row)

\* A call of console_putc works on a picture without a cursor.
LEMMA PutcSteps ==
  ASSUME ConsoleInv, ready, NEW ch \in Chars
  PROVE  LET s == Interpret(Plain, ch, cur_col, cur_row) IN
         /\ Putc(ch).fb = paint_cursor(s.fb, fg, s.col, s.row)
         /\ Putc(ch).col = s.col /\ Putc(ch).row = s.row
         /\ Good(s)
         /\ Text(Plain, cur_col, cur_row) /\ ch # "CR" => Text(s.fb, s.col, s.row)
<1> DEFINE s == Interpret(Plain, ch, cur_col, cur_row)
<1>1. \E f, c, r : s = At(f, c, r)
  BY DEF Interpret, newline, Tab, Forward, Backspace
<1>2. Putc(ch) = [s EXCEPT !.fb = paint_cursor(@, fg, s.col, s.row)]
  BY DEF Putc, Plain
<1>3. Good(s) /\ (Text(Plain, cur_col, cur_row) /\ ch # "CR" => Text(s.fb, s.col, s.row))
  <2>1. cur_col \in Columns /\ cur_row \in TextRows /\ Picture(Plain)
    BY DEF ConsoleInv
  <2> HIDE DEF s
  <2> QED BY <2>1, InterpretKeeps DEF s
<1> HIDE DEF s
<1>4. /\ Putc(ch).fb = paint_cursor(s.fb, fg, s.col, s.row)
      /\ Putc(ch).col = s.col /\ Putc(ch).row = s.row
  BY <1>1, <1>2 DEF At
<1> QED BY <1>3, <1>4 DEF s

LEMMA PutcInv ==
  ASSUME ConsoleInv, NEW ch \in Chars, console_putc(ch)
  PROVE  ConsoleInv'
<1> DEFINE s == Interpret(Plain, ch, cur_col, cur_row)
<1>1. /\ ready /\ fb' = Putc(ch).fb /\ cur_col' = Putc(ch).col /\ cur_row' = Putc(ch).row
      /\ ready' = ready /\ called' = called
  BY DEF console_putc
<1>2. ~returned' => ~returned /\ ch # "CR"
  BY Zenon DEF console_putc
<1>3. /\ fb' = paint_cursor(s.fb, fg, s.col, s.row) /\ cur_col' = s.col /\ cur_row' = s.row
      /\ Good(s)
      /\ Text(Plain, cur_col, cur_row) /\ ch # "CR" => Text(s.fb, s.col, s.row)
  BY <1>1, PutcSteps
<1> HIDE DEF s
<1>4. s.col \in Columns /\ s.row \in TextRows /\ Picture(s.fb)
  BY <1>3 DEF Good
<1>5. Plain' = paint_cursor(paint_cursor(s.fb, fg, s.col, s.row), bg, s.col, s.row)
  BY <1>3 DEF Plain
<1>6. /\ Picture(Plain') /\ Cell(fb', cur_row', cur_col', GLYPH_H - 1) = fg
      /\ Text(s.fb, s.col, s.row) => Text(Plain', cur_col', cur_row')
  BY <1>3, <1>4, <1>5, CursorUpDown
<1>7. ~returned' => Text(Plain', cur_col', cur_row')
  BY <1>1, <1>2, <1>3, <1>6 DEF ConsoleInv
<1>8. called'
  BY <1>1 DEF ConsoleInv
<1> QED BY <1>1, <1>3, <1>4, <1>6, <1>7, <1>8 DEF ConsoleInv

LEMMA InitInv ==
  ASSUME ConsoleInv, console_init
  PROVE  ConsoleInv'
<1> DEFINE f == [y \in ScanLines |-> [x \in Columns |-> bg]]
<1>1. /\ fb' = paint_cursor(f, fg, 0, 0) /\ cur_col' = 0 /\ cur_row' = 0 /\ ready' /\ called'
  BY DEF console_init
<1>2. \A y \in ScanLines, x \in Columns : f[y][x] = bg
  OBVIOUS
<1>3. f = [y \in ScanLines |-> f[y]]
  OBVIOUS
<1> HIDE DEF f
<1>4. Picture(f)
  BY <1>2, <1>3, Ink DEF Picture, Dark, StripClear
<1>5. 0 \in Columns /\ 0 \in TextRows
  BY Geometry DEF Columns, TextRows
<1>6. Text(f, 0, 0)
  <2>1. ASSUME NEW k \in TextRows, NEW x \in Columns PROVE Blank(f, k, x)
    BY <1>2, CellLine DEF Blank, Cell
  <2> QED BY <2>1, BlankIsChar, TextCells
<1>7. Plain' = paint_cursor(paint_cursor(f, fg, 0, 0), bg, 0, 0)
  BY <1>1 DEF Plain
<1>8. /\ Picture(Plain') /\ Cell(fb', cur_row', cur_col', GLYPH_H - 1) = fg
      /\ Text(Plain', cur_col', cur_row')
  BY <1>1, <1>4, <1>5, <1>6, <1>7, CursorUpDown
<1> QED BY <1>1, <1>5, <1>8 DEF ConsoleInv

LEMMA NextConsoleInv == ConsoleInv /\ [ConsoleNext]_conVars => ConsoleInv'
<1> SUFFICES ASSUME ConsoleInv, [ConsoleNext]_conVars PROVE ConsoleInv'
  OBVIOUS
<1>1. CASE console_init
  BY <1>1, InitInv
<1>2. CASE console_init_bad_font
  BY <1>2 DEF console_init_bad_font, ConsoleInv, Plain
<1>3. CASE \E ch \in Chars : console_putc(ch)
  BY <1>3, PutcInv
<1>4. CASE UNCHANGED conVars
  BY <1>4 DEF conVars, ConsoleInv, Plain
<1> QED BY <1>1, <1>2, <1>3, <1>4 DEF ConsoleNext, console_putc_off

\* The console's inductive invariant: with the cursor down, the picture has no cursor
\* and an empty strip, and as long as no carriage return has been written it is a text
\* that ends before the cursor.
THEOREM ConsoleInvariant == ConsoleSpec => []ConsoleInv
<1>1. ConsoleInit => ConsoleInv
  BY Geometry DEF ConsoleInit, ConsoleInv, Columns, TextRows
<1> QED BY <1>1, NextConsoleInv, PTL DEF ConsoleSpec

\* Exactly one cursor is showing, where the next character goes, and nothing is painted
\* below the last text row.
THEOREM CursorIsOne == ConsoleSpec => []OneCursor
<1>1. ASSUME ConsoleInv PROVE OneCursor
  <2> DEFINE z == cur_row * GLYPH_H + (GLYPH_H - 1)
  <2>1. SUFFICES ASSUME ready
                 PROVE  /\ CursorOnGrid
                        /\ \A y \in ScanLines, x \in Columns :
                             /\ fb[y][x] = fg <=> x = cur_col /\ y = z
                             /\ y >= rows * GLYPH_H => fb[y][x] = bg
    <3>1. cur_row * GLYPH_H + GLYPH_H - 1 = z
      OBVIOUS
    <3> QED BY <3>1, Zenon DEF OneCursor
  <2>2. /\ cur_col \in Columns /\ cur_row \in TextRows
        /\ Picture(Plain) /\ fb[z][cur_col] = fg
    BY <1>1, <2>1 DEF ConsoleInv, Cell
  <2>3. CursorOnGrid
    BY <2>2 DEF CursorOnGrid, TextRows
  <2>4. \A y \in ScanLines, x \in Columns :
          Plain[y][x] = IF x = cur_col /\ y = z THEN bg ELSE fb[y][x]
    <3>1. Painted(Plain, fb, bg, cur_col, cur_row)
      BY <2>2, PaintCursor DEF Plain
    <3> QED BY <3>1 DEF Painted
  <2>5. z < rows * GLYPH_H /\ z \in Int /\ rows * GLYPH_H \in Int
    <3>1. GLYPH_H - 1 \in GlyphLines /\ rows * GLYPH_H \in Int
      BY Geometry DEF GlyphLines
    <3>2. z < rows * GLYPH_H /\ z \in ScanLines
      BY <2>2, <3>1, CellLine
    <3> QED BY <3>1, <3>2 DEF ScanLines
  <2> HIDE DEF z
  <2>6. \A y \in ScanLines, x \in Columns : fb[y][x] = fg <=> x = cur_col /\ y = z
    BY <2>2, <2>4 DEF Picture, Dark
  <2>7. ASSUME NEW y \in ScanLines, NEW x \in Columns, y >= rows * GLYPH_H PROVE fb[y][x] = bg
    <3>1. y # z
      BY <2>5, <2>7
    <3> QED BY <2>2, <2>4, <2>7, <3>1 DEF Picture, StripClear
  <2> QED BY <2>3, <2>6, <2>7
<1> QED BY <1>1, ConsoleInvariant, PTL

-----------------------------------------------------------------------------
\* The characters that show

\* Shown, in picture f.
SeenIn(f, k, x) == LET top == f[k * GLYPH_H][x] IN IF top = bg THEN "blank" ELSE top[1]

LEMMA SeenTop ==
  ASSUME NEW f, NEW k \in TextRows, NEW x
  PROVE  /\ f[k * GLYPH_H][x] = Cell(f, k, x, 0)
         /\ \A ch : Cell(f, k, x, 0) = GlyphLine(ch, 0)
                      => SeenIn(f, k, x) = IF ch \in Glyphs THEN ch ELSE "blank"
         /\ \A g, m, y : Cell(f, k, x, 0) = g[m * GLYPH_H][y] => SeenIn(f, k, x) = SeenIn(g, m, y)
<1>1. k * GLYPH_H + 0 = k * GLYPH_H
  BY Geometry DEF TextRows
<1>2. f[k * GLYPH_H][x] = Cell(f, k, x, 0)
  BY <1>1 DEF Cell
<1>3. ASSUME NEW ch, Cell(f, k, x, 0) = GlyphLine(ch, 0)
      PROVE  SeenIn(f, k, x) = IF ch \in Glyphs THEN ch ELSE "blank"
  <2>1. CASE ch \in Glyphs
    <3>1. GlyphLine(ch, 0) # bg /\ GlyphLine(ch, 0)[1] = ch
      BY <2>1, Ink DEF GlyphLine
    <3> QED BY <1>2, <1>3, <2>1, <3>1 DEF SeenIn
  <2>2. CASE ch \notin Glyphs
    BY <1>2, <1>3, <2>2, Ink DEF SeenIn
  <2> QED BY <2>1, <2>2
<1>4. ASSUME NEW g, NEW m, NEW y, Cell(f, k, x, 0) = g[m * GLYPH_H][y]
      PROVE  SeenIn(f, k, x) = SeenIn(g, m, y)
  BY <1>2, <1>4 DEF SeenIn
<1> QED BY <1>2, <1>3, <1>4

LEMMA TopLine == 0 \in GlyphLines /\ 0 # GLYPH_H - 1
BY Geometry DEF GlyphLines

\* Nothing is ahead of the cursor and every cell behind it shows one whole character,
\* as long as no carriage return is written.
THEOREM TextIsWhole == ConsoleSpec => []GlyphsWhole
<1>1. ASSUME ConsoleInv PROVE GlyphsWhole
  <2> SUFFICES ASSUME ready, ~returned, NEW k \in TextRows, NEW x \in Columns
               PROVE  IF Ahead(k, x) THEN Shown(k, x) = "blank" ELSE Whole(k, x)
    BY DEF GlyphsWhole, TextRows
  <2>1. cur_col \in Columns /\ cur_row \in TextRows /\ Text(Plain, cur_col, cur_row)
    BY <1>1 DEF ConsoleInv
  <2>2. Painted(Plain, fb, bg, cur_col, cur_row)
    BY <2>1, PaintCursor DEF Plain
  <2>3. Shown(k, x) = SeenIn(fb, k, x) /\ (Ahead(k, x) <=> Beyond(k, x, cur_col, cur_row))
    BY DEF Shown, SeenIn, Ahead, Beyond
  <2>4. OneChar(Plain, k, x) /\ (Beyond(k, x, cur_col, cur_row) => Blank(Plain, k, x))
    BY <2>1, TextCells
  <2>5. CASE Ahead(k, x)
    <3>1. Cell(Plain, k, x, 0) = bg /\ Cell(Plain, k, x, 0) = Cell(fb, k, x, 0)
      BY <2>2, <2>3, <2>4, <2>5, TopLine DEF Painted, Blank
    <3>2. SeenIn(fb, k, x) = "blank"
      BY <3>1, SeenTop DEF SeenIn
    <3> QED BY <2>3, <2>5, <3>2
  <2>6. CASE ~Ahead(k, x)
    <3>1. ~(k = cur_row /\ x = cur_col)
      BY <2>1, <2>3, <2>6, Geometry DEF Beyond, Columns
    <3>2. \A i \in GlyphLines : Cell(fb, k, x, i) = Cell(Plain, k, x, i)
      BY <2>2, <3>1 DEF Painted
    <3>3. PICK ch \in Printable : \A i \in GlyphLines : Cell(fb, k, x, i) = GlyphLine(ch, i)
      BY <2>4, <3>2 DEF OneChar
    <3>4. Shown(k, x) = IF ch \in Glyphs THEN ch ELSE "blank"
      BY <2>3, <3>3, SeenTop, TopLine
    <3>5. \A i : GlyphLine(Shown(k, x), i) = GlyphLine(ch, i)
      BY <3>4, Characters, Ink
    <3>6. Whole(k, x)
      BY <3>3, <3>5 DEF Whole, Cell, GlyphLines
    <3> QED BY <2>6, <3>6
  <2> QED BY <2>5, <2>6
<1> QED BY <1>1, ConsoleInvariant, PTL

-----------------------------------------------------------------------------
\* The terminal

Window(f) == [k \in TextRows |-> [x \in Columns |-> SeenIn(f, k, x)]]

\* Windows are equal cell by cell.
LEMMA SameWindow ==
  ASSUME NEW v, NEW f, v = [k \in TextRows |-> [x \in Columns |-> v[k][x]]],
         \A k \in TextRows, x \in Columns : SeenIn(f, k, x) = v[k][x]
  PROVE  Window(f) = v
BY DEF Window

LEMMA WindowPainted ==
  ASSUME NEW f, NEW colour, NEW c \in Columns, NEW r \in TextRows
  PROVE  Window(paint_cursor(f, colour, c, r)) = Window(f)
<1> DEFINE g == paint_cursor(f, colour, c, r)
<1>1. Painted(g, f, colour, c, r)
  BY PaintCursor
<1> HIDE DEF g
<1>2. ASSUME NEW k \in TextRows, NEW x \in Columns PROVE SeenIn(g, k, x) = SeenIn(f, k, x)
  <2>1. Cell(g, k, x, 0) = Cell(f, k, x, 0)
    BY <1>1, TopLine DEF Painted
  <2> QED BY <2>1, SeenTop
<1>3. Window(g) = Window(f)
  BY <1>2 DEF Window
<1> QED BY <1>3 DEF g

LEMMA WindowDrawn ==
  ASSUME NEW f, NEW ch, NEW c \in Columns, NEW r \in TextRows,
         NEW d, d = IF ch \in Glyphs THEN ch ELSE "blank"
  PROVE  Window(draw_cell(f, ch, c, r)) = [Window(f) EXCEPT ![r][c] = d]
<1> DEFINE g == draw_cell(f, ch, c, r)
           v == [Window(f) EXCEPT ![r][c] = d]
<1>1. \A k \in TextRows, x \in Columns, i \in GlyphLines :
        Cell(g, k, x, i) = IF k = r /\ x = c THEN GlyphLine(ch, i) ELSE Cell(f, k, x, i)
  BY DrawCell
<1> HIDE DEF g
<1>2. ASSUME NEW k \in TextRows, NEW x \in Columns
      PROVE  SeenIn(g, k, x) = IF k = r /\ x = c THEN d ELSE SeenIn(f, k, x)
  <2>1. Cell(g, k, x, 0) = IF k = r /\ x = c THEN GlyphLine(ch, 0) ELSE Cell(f, k, x, 0)
    BY <1>1, TopLine
  <2> QED BY <2>1, SeenTop
<1>3. /\ v = [k \in TextRows |-> [x \in Columns |-> v[k][x]]]
      /\ \A k \in TextRows, x \in Columns :
           v[k][x] = IF k = r /\ x = c THEN d ELSE SeenIn(f, k, x)
  BY DEF Window
<1> HIDE DEF v
<1>4. Window(g) = v
  BY <1>2, <1>3, SameWindow
<1> QED BY <1>4 DEF g, v

LEMMA WindowCleared ==
  ASSUME NEW f, NEW a, NEW b, NEW r \in TextRows
  PROVE  Window(clear_cells(f, a, b, r))
           = [Window(f) EXCEPT ![r] =
                [x \in Columns |-> IF x \in a .. b - 1 THEN "blank" ELSE @[x]]]
<1> DEFINE g == clear_cells(f, a, b, r)
           v == [Window(f) EXCEPT ![r] =
                   [x \in Columns |-> IF x \in a .. b - 1 THEN "blank" ELSE @[x]]]
<1>1. \A k \in TextRows, x \in Columns, i \in GlyphLines :
        Cell(g, k, x, i) = IF k = r /\ x \in a .. b - 1 THEN bg ELSE Cell(f, k, x, i)
  BY ClearCells
<1> HIDE DEF g
<1>2. ASSUME NEW k \in TextRows, NEW x \in Columns
      PROVE  SeenIn(g, k, x) = IF k = r /\ x \in a .. b - 1 THEN "blank" ELSE SeenIn(f, k, x)
  <2>1. CASE k = r /\ x \in a .. b - 1
    <3>1. g[k * GLYPH_H][x] = bg
      BY <1>1, <2>1, TopLine, SeenTop
    <3> QED BY <2>1, <3>1 DEF SeenIn
  <2>2. CASE ~(k = r /\ x \in a .. b - 1)
    <3>1. Cell(g, k, x, 0) = Cell(f, k, x, 0)
      BY <1>1, <2>2, TopLine
    <3> QED BY <2>2, <3>1, SeenTop
  <2> QED BY <2>1, <2>2
<1>3. /\ v = [k \in TextRows |-> [x \in Columns |-> v[k][x]]]
      /\ \A k \in TextRows, x \in Columns :
           v[k][x] = IF k = r /\ x \in a .. b - 1 THEN "blank" ELSE SeenIn(f, k, x)
  BY DEF Window
<1> HIDE DEF v
<1>4. Window(g) = v
  BY <1>2, <1>3, SameWindow
<1> QED BY <1>4 DEF g, v

LEMMA WindowScrolled ==
  ASSUME NEW f, Picture(f)
  PROVE  Window(scroll(f)) = Term!Scrolled(Window(f))
<1> DEFINE g == scroll(f)
           v == Term!Scrolled(Window(f))
<1>1. \A k \in TextRows, x \in Columns, i \in GlyphLines :
        Cell(g, k, x, i) = IF k < rows - 1 THEN Cell(f, k + 1, x, i) ELSE bg
  BY Scroll
<1> HIDE DEF g
<1>2. ASSUME NEW k \in TextRows PROVE k < rows - 1 => k + 1 \in TextRows
  BY Geometry DEF TextRows
<1>3. ASSUME NEW k \in TextRows, NEW x \in Columns
      PROVE  SeenIn(g, k, x) = IF k < rows - 1 THEN SeenIn(f, k + 1, x) ELSE "blank"
  <2>1. CASE k < rows - 1
    <3>1. Cell(g, k, x, 0) = Cell(f, k + 1, x, 0)
      BY <1>1, <2>1, TopLine
    <3>2. Cell(f, k + 1, x, 0) = f[(k + 1) * GLYPH_H][x]
      BY <1>2, <2>1, SeenTop
    <3> QED BY <2>1, <3>1, <3>2, SeenTop
  <2>2. CASE ~(k < rows - 1)
    <3>1. g[k * GLYPH_H][x] = bg
      BY <1>1, <2>2, TopLine, SeenTop
    <3> QED BY <2>2, <3>1 DEF SeenIn
  <2> QED BY <2>1, <2>2
<1>4. v = [k \in TextRows |-> IF k < rows - 1 THEN Window(f)[k + 1] ELSE [x \in Columns |-> "blank"]]
  BY DEF Term!Scrolled, Term!BlankLine, TextRows, Columns
<1>5. \A k \in TextRows :
        v[k] = IF k < rows - 1 THEN [x \in Columns |-> SeenIn(f, k + 1, x)] ELSE [x \in Columns |-> "blank"]
  BY <1>2, <1>4 DEF Window
<1> HIDE DEF v
<1>6. \A k \in TextRows, x \in Columns :
        v[k][x] = IF k < rows - 1 THEN SeenIn(f, k + 1, x) ELSE "blank"
  BY <1>5
<1>7. v = [k \in TextRows |-> [x \in Columns |-> v[k][x]]]
  <2>1. \A k \in TextRows : v[k] = [x \in Columns |-> v[k][x]]
    BY <1>5
  <2>2. v = [k \in TextRows |-> v[k]]
    BY <1>4
  <2> QED BY <2>1, <2>2
<1>8. Window(g) = v
  BY <1>3, <1>6, <1>7, SameWindow
<1> QED BY <1>8 DEF g, v

\* The window of the refinement.
TermWindow == [r \in 0 .. rows - 1 |-> [x \in Columns |-> IF ready THEN Shown(r, x) ELSE "blank"]]

LEMMA WindowIs == ready => TermWindow = Window(fb)
BY DEF TermWindow, Window, Shown, SeenIn, TextRows

LEMMA WindowIsNext == (ready => TermWindow = Window(fb))'
BY WindowIs, PTL

\* The terminal moves as the console does.
LEMMA TypeLineBelow ==
  ASSUME NEW f, Picture(f), cur_row \in TextRows, TermWindow' = Window(newline(f, cur_row).fb),
         cur_col' = newline(f, cur_row).col, cur_row' = newline(f, cur_row).row
  PROVE  Term!LineBelow(Window(f))
<1>1. cur_row \in Nat /\ cur_row <= rows - 1 /\ rows \in Nat
  BY Geometry DEF TextRows
<1>2. CASE cur_row + 1 >= rows
  <2>1. cur_col' = 0 /\ cur_row' = rows - 1 /\ TermWindow' = Term!Scrolled(Window(f))
    BY <1>2, WindowScrolled DEF newline, At
  <2>2. cur_row + 1 = rows /\ cur_row' = cur_row
    BY <1>1, <1>2, <2>1
  <2> QED BY <2>1, <2>2 DEF Term!LineBelow, TermWindow
<1>3. CASE ~(cur_row + 1 >= rows)
  <2>1. cur_col' = 0 /\ cur_row' = cur_row + 1 /\ TermWindow' = Window(f)
    BY <1>3 DEF newline, At
  <2>2. cur_row + 1 < rows
    BY <1>1, <1>3
  <2> QED BY <2>1, <2>2 DEF Term!LineBelow, TermWindow
<1> QED BY <1>2, <1>3

LEMMA TypeMoveTo ==
  ASSUME NEW f, Picture(f), cur_row \in TextRows, NEW z \in Nat,
         TermWindow' = Window(Forward(f, z, cur_row).fb),
         cur_col' = Forward(f, z, cur_row).col, cur_row' = Forward(f, z, cur_row).row
  PROVE  Term!MoveTo(z, Window(f))
<1>1. CASE z >= cols
  <2>1. Term!LineBelow(Window(f))
    BY <1>1, TypeLineBelow DEF Forward
  <2> QED BY <1>1, <2>1 DEF Term!MoveTo
<1>2. CASE ~(z >= cols)
  <2>1. cur_col' = z /\ cur_row' = cur_row /\ TermWindow' = Window(f)
    BY <1>2 DEF Forward, At
  <2>2. z < cols
    BY <1>2, Geometry
  <2> QED BY <2>1, <2>2 DEF Term!MoveTo, TermWindow
<1> QED BY <1>1, <1>2

LEMMA PutcTypes ==
  ASSUME ConsoleInv, NEW ch \in Chars, console_putc(ch)
  PROVE  Term!Type(ch)
<1> DEFINE f == Plain
           s == Interpret(f, ch, cur_col, cur_row)
<1>1. /\ ready /\ ready' /\ fb' = Putc(ch).fb /\ cur_col' = Putc(ch).col /\ cur_row' = Putc(ch).row
      /\ cur_col \in Columns /\ cur_row \in TextRows /\ Picture(f)
  BY DEF console_putc, ConsoleInv
<1>2. fb' = paint_cursor(s.fb, fg, s.col, s.row) /\ cur_col' = s.col /\ cur_row' = s.row /\ Good(s)
  BY <1>1, PutcSteps
<1>3. TermWindow = Window(f)
  BY <1>1, WindowIs, WindowPainted DEF Plain
<1>4. TermWindow' = Window(s.fb)
  <2> HIDE DEF s
  <2>1. TermWindow' = Window(fb')
    BY <1>1, WindowIsNext DEF Window, SeenIn
  <2>2. Window(fb') = Window(s.fb)
    BY <1>2, WindowPainted DEF Good
  <2> QED BY <2>1, <2>2
<1>5. cur_col \in Nat /\ cur_row \in Nat
  BY <1>1, Geometry DEF Columns, TextRows
<1> HIDE DEF f
<1>6. CASE ch = "LF"
  <2>1. s = newline(f, cur_row)
    BY <1>6 DEF Interpret
  <2> HIDE DEF s
  <2>2. Term!LineBelow(TermWindow)
    BY <1>1, <1>2, <1>3, <1>4, <2>1, TypeLineBelow
  <2> QED BY <1>6, <2>2 DEF Term!Type, Term!LineFeed, TermWindow
<1>7. CASE ch = "CR"
  <2>1. s = At(f, 0, cur_row)
    BY <1>7 DEF Interpret
  <2>2. cur_col' = 0 /\ cur_row' = cur_row /\ TermWindow' = TermWindow
    BY <1>2, <1>3, <1>4, <2>1 DEF At
  <2> QED BY <1>7, <2>2 DEF Term!Type, Term!CarriageReturn, TermWindow
<1>8. CASE ch = "BS"
  <2> DEFINE a == IF cur_col > 0 THEN cur_col - 1 ELSE IF cur_row > 0 THEN cols - 1 ELSE cur_col
             b == IF cur_col = 0 /\ cur_row > 0 THEN cur_row - 1 ELSE cur_row
  <2>1. s = At(draw_cell(f, "space", a, b), a, b)
    BY <1>8 DEF Interpret, Backspace
  <2>2. cur_col' = a /\ cur_row' = b /\ TermWindow' = Window(draw_cell(f, "space", a, b))
    BY <1>2, <1>4, <2>1 DEF At
  <2>3. a \in Columns /\ b \in TextRows
    BY <1>2, <2>1 DEF At, Good
  <2>4. /\ cur_col' = IF cur_col > 0 THEN cur_col - 1 ELSE IF cur_row > 0 THEN cols - 1 ELSE 0
        /\ cur_row' = IF cur_col = 0 /\ cur_row > 0 THEN cur_row - 1 ELSE cur_row
    BY <1>5, <2>2
  <2> HIDE DEF a, b
  <2>5. TermWindow' = [TermWindow EXCEPT ![cur_row'][cur_col'] = "blank"]
    BY <1>3, <2>2, <2>3, WindowDrawn, Characters
  <2> QED BY <1>8, <2>4, <2>5 DEF Term!Type, Term!Back, TermWindow
<1>9. CASE ch = "TAB"
  <2> DEFINE t == TabTarget(cur_col)
             g == clear_cells(f, cur_col, t, cur_row)
  <2>1. s = Forward(g, t, cur_row)
    BY <1>9 DEF Interpret, Tab
  <2>2. t \in Nat /\ Picture(g)
    BY <1>1, <1>5, TabForward, ClearCells
  <2>3. Window(g) = [Window(f) EXCEPT ![cur_row] =
                       [x \in Columns |-> IF x \in cur_col .. t - 1 THEN "blank" ELSE @[x]]]
    BY <1>1, WindowCleared
  <2> HIDE DEF g, s, t
  <2>4. Term!MoveTo(t, Window(g))
    BY <1>1, <1>2, <1>4, <2>1, <2>2, TypeMoveTo
  <2>5. t = (cur_col \div TAB_STOP + 1) * TAB_STOP
    <3>1. cur_col \div TAB_STOP \in Nat /\ TAB_STOP \in Nat
      BY <1>5, Geometry
    <3> DEFINE q == cur_col \div TAB_STOP
    <3>2. q \in Nat
      BY <3>1
    <3> HIDE DEF q
    <3>3. q * TAB_STOP + TAB_STOP = (q + 1) * TAB_STOP
      BY <3>1, <3>2
    <3> QED BY <3>3 DEF q, t, TabTarget
  <2> DEFINE v == [TermWindow EXCEPT ![cur_row] =
                     [x \in 0 .. cols - 1 |-> IF x \in cur_col .. t - 1 THEN "blank" ELSE @[x]]]
  <2>6. Window(g) = v
    BY <1>3, <2>3 DEF Columns
  <2>7. Term!MoveTo(t, v)
    BY <2>4, <2>6
  <2>8. Term!Tabulate
    BY <2>5, <2>7 DEF Term!Tabulate, TermWindow
  <2> QED BY <1>9, <2>8 DEF Term!Type
<1>10. CASE ch = "NUL"
  <2>1. s = At(f, cur_col, cur_row)
    BY <1>10 DEF Interpret
  <2>2. cur_col' = cur_col /\ cur_row' = cur_row /\ TermWindow' = TermWindow
    BY <1>2, <1>3, <1>4, <2>1 DEF At
  <2> QED BY <1>10, <2>2 DEF Term!Type, Term!termVars, TermWindow
<1>11. CASE ch \in Printable
  <2> DEFINE g == draw_cell(f, ch, cur_col, cur_row)
             d == IF ch \in Glyphs THEN ch ELSE "blank"
  <2>1. s = Forward(g, cur_col + 1, cur_row)
    BY <1>11, Characters DEF Interpret, Controls
  <2>2. Picture(g) /\ cur_col + 1 \in Nat
    BY <1>1, <1>5, DrawCell
  <2>3. Window(g) = [TermWindow EXCEPT ![cur_row][cur_col] = d]
    <3>1. Window(g) = [Window(f) EXCEPT ![cur_row][cur_col] = d]
      <4>1. d = IF ch \in Glyphs THEN ch ELSE "blank"
        OBVIOUS
      <4> HIDE DEF d
      <4> QED BY <1>1, <4>1, WindowDrawn
    <3> HIDE DEF g, d
    <3> QED BY <1>3, <3>1
  <2> HIDE DEF g, s
  <2>4. Term!MoveTo(cur_col + 1, Window(g))
    BY <1>1, <1>2, <1>4, <2>1, <2>2, TypeMoveTo
  <2>5. Term!Put(d)
    BY <2>3, <2>4 DEF Term!Put, TermWindow
  <2>6. CASE ch \in Glyphs
    BY <2>5, <2>6 DEF Term!Type
  <2>7. CASE ch = "space"
    BY <2>5, <2>7, Characters DEF Term!Type
  <2> QED BY <1>11, <2>6, <2>7 DEF Printable
<1> QED BY <1>6, <1>7, <1>8, <1>9, <1>10, <1>11, Characters DEF Controls

\* The console implements the terminal: what each character does to the picture is what
\* it does to the terminal's window.
THEOREM ImplementsTerminal == ConsoleSpec => RefinesTerminal
<1>1. ConsoleInit => Term!TermInit
  BY DEF ConsoleInit, Term!TermInit, Term!BlankLine, Columns
<1>2. ConsoleInv /\ [ConsoleNext]_conVars => [Term!TermNext]_(Term!termVars)
  <2> SUFFICES ASSUME ConsoleInv, [ConsoleNext]_conVars
               PROVE  Term!TermNext \/ UNCHANGED Term!termVars
    OBVIOUS
  <2>1. CASE console_init
    <3> DEFINE f == [y \in ScanLines |-> [x \in Columns |-> bg]]
    <3>1. /\ ~ready /\ ready' /\ cur_col = 0 /\ cur_row = 0 /\ cur_col' = 0 /\ cur_row' = 0
          /\ fb' = paint_cursor(f, fg, 0, 0)
      BY <2>1 DEF console_init, ConsoleInv
    <3>2. Window(fb') = Window(f)
      <4>1. 0 \in Columns /\ 0 \in TextRows
        BY Geometry DEF Columns, TextRows
      <4> QED BY <3>1, <4>1, WindowPainted
    <3>3. ASSUME NEW k \in TextRows, NEW x \in Columns PROVE SeenIn(f, k, x) = "blank"
      <4>1. k * GLYPH_H + 0 \in ScanLines
        BY CellLine, TopLine
      <4>2. Cell(f, k, x, 0) = bg
        BY <4>1 DEF Cell
      <4> HIDE DEF f
      <4> QED BY <4>2, SeenTop DEF SeenIn
    <3>4. TermWindow' = Window(fb')
      BY <3>1, WindowIsNext DEF Window, SeenIn
    <3> HIDE DEF f
    <3>5. TermWindow = Window(f)
      BY <3>1, <3>3 DEF Window, TermWindow, TextRows
    <3> QED BY <3>1, <3>2, <3>4, <3>5 DEF Term!termVars, TermWindow
  <2>2. CASE console_init_bad_font
    <3>1. ~ready /\ ~ready' /\ cur_col' = cur_col /\ cur_row' = cur_row
      BY <2>2 DEF console_init_bad_font, ConsoleInv
    <3>2. TermWindow' = TermWindow
      BY <3>1 DEF TermWindow
    <3> QED BY <3>1, <3>2 DEF Term!termVars, TermWindow
  <2>3. ASSUME NEW ch \in Chars, console_putc(ch) PROVE Term!TermNext \/ UNCHANGED Term!termVars
    <3>1. Term!Type(ch)
      BY <2>3, PutcTypes
    <3>2. CASE ch = "NUL"
      BY <3>1, <3>2, Characters DEF Term!Type, Controls, Printable
    <3>3. CASE ch # "NUL"
      BY <3>1, <3>3, Characters DEF Term!TermNext, Controls, Printable
    <3> QED BY <3>2, <3>3
  <2>4. CASE UNCHANGED conVars
    <3>1. TermWindow' = TermWindow /\ cur_col' = cur_col /\ cur_row' = cur_row
      BY <2>4 DEF conVars, TermWindow, Shown
    <3> QED BY <3>1 DEF Term!termVars, TermWindow
  <2> QED BY <2>1, <2>2, <2>3, <2>4 DEF ConsoleNext, console_putc_off
<1>3. ConsoleInv => [\A c \in Chars : console_putc(c) => Term!Type(c)]_conVars
  BY PutcTypes
<1>4. ConsoleSpec => Term!TermSpec
  BY <1>1, <1>2, ConsoleInvariant, PTL DEF ConsoleSpec, Term!TermSpec
<1>5. ConsoleSpec => [][\A c \in Chars : console_putc(c) => Term!Type(c)]_conVars
  BY <1>3, ConsoleInvariant, PTL
<1> QED BY <1>4, <1>5 DEF RefinesTerminal

-----------------------------------------------------------------------------
\* Console and interrupts

\* The cursor leaves the grid only on the way to a new line, and kprint's registers
\* hold cells of the grid where it counts the column up from them.
GridInv ==
  /\ cur_col \in 0 .. cols /\ cur_row \in 0 .. rows
  /\ pc # "newline" => cur_col \in Columns
  /\ pc \notin {"scroll", "clamp"} => cur_row \in TextRows
  /\ pc \in {"drawing", "advance"} => col \in Columns

\* A handler's character moves the cursor from wherever it finds it.
LEMMA InterpretMoves ==
  ASSUME NEW f, NEW ch \in Chars, NEW c \in 0 .. cols, NEW r \in 0 .. rows
  PROVE  LET s == Interpret(f, ch, c, r) IN
         /\ s.col \in 0 .. cols /\ s.row \in 0 .. rows
         /\ c \in Columns => s.col \in Columns
         /\ r \in TextRows => s.row \in TextRows
<1>1. cols \in Nat \ {0} /\ rows \in Nat \ {0} /\ Columns = 0 .. cols - 1 /\ TextRows = 0 .. rows - 1
  BY Geometry DEF Columns, TextRows
<1> DEFINE Moved(s) == /\ s.col \in 0 .. cols /\ s.row \in 0 .. rows
                       /\ c \in Columns => s.col \in Columns
                       /\ r \in TextRows => s.row \in TextRows
<1>2. ASSUME NEW g PROVE Moved(newline(g, r))
  BY <1>1 DEF newline, At
<1>3. ASSUME NEW g, NEW z \in Nat PROVE Moved(Forward(g, z, r))
  <2>1. CASE z >= cols
    <3> HIDE DEF Moved
    <3> QED BY <1>2, <2>1 DEF Forward
  <2>2. CASE ~(z >= cols)
    BY <1>1, <2>2 DEF Forward, At
  <2> QED BY <2>1, <2>2
<1>4. Moved(Backspace(f, c, r))
  BY <1>1 DEF Backspace, At
<1>5. Moved(At(f, c, r)) /\ Moved(At(f, 0, r))
  BY <1>1 DEF At
<1>6. c \in Nat /\ c + 1 \in Nat /\ TabTarget(c) \in Nat
  BY <1>1, TabForward
<1>7. Moved(Tab(f, c, r)) /\ Moved(Forward(draw_cell(f, ch, c, r), c + 1, r))
  <2> HIDE DEF Moved
  <2> QED BY <1>3, <1>6 DEF Tab
<1>8. Moved(Interpret(f, ch, c, r))
  <2> HIDE DEF Moved
  <2> QED BY <1>2, <1>4, <1>5, <1>7 DEF Interpret
<1> QED BY <1>8

LEMMA KeyInv ==
  ASSUME GridInv, NEW k \in Keys, keyboard_irq(k)
  PROVE  GridInv'
<1> DEFINE f == paint_cursor(fb, bg, cur_col, cur_row)
           s == Interpret(f, k, cur_col, cur_row)
<1>1. /\ k \in Chars /\ cur_col' = Putc(k).col /\ cur_row' = Putc(k).row
      /\ pc' = pc /\ col' = col
  BY DEF keyboard_irq, console_putc
<1>2. \E g, c, r : s = At(g, c, r)
  BY DEF Interpret, newline, Tab, Forward, Backspace
<1>3. Putc(k) = [s EXCEPT !.fb = paint_cursor(@, fg, s.col, s.row)]
  BY DEF Putc
<1>4. cur_col \in 0 .. cols /\ cur_row \in 0 .. rows
  BY DEF GridInv
<1>5. /\ s.col \in 0 .. cols /\ s.row \in 0 .. rows
      /\ cur_col \in Columns => s.col \in Columns
      /\ cur_row \in TextRows => s.row \in TextRows
  <2> HIDE DEF f
  <2> QED BY <1>1, <1>4, InterpretMoves
<1> HIDE DEF s
<1>6. Putc(k).col = s.col /\ Putc(k).row = s.row
  BY <1>2, <1>3 DEF At
<1> QED BY <1>1, <1>5, <1>6 DEF GridInv

\* kprint's loads and stores.
LEMMA KprintInv == GridInv /\ kprint => GridInv'
<1> SUFFICES ASSUME GridInv, kprint PROVE GridInv'
  OBVIOUS
<1>1. /\ cols \in Nat \ {0} /\ rows \in Nat \ {0}
      /\ Columns = 0 .. cols - 1 /\ TextRows = 0 .. rows - 1
  BY Geometry DEF Columns, TextRows
<1>2. CASE serial_poll \/ serial_out
  BY <1>2 DEF serial_poll, serial_out, conVars, GridInv
<1>3. CASE load_erase \/ load_draw \/ load_cursor
  BY <1>3 DEF load_erase, load_draw, load_cursor, Load, Goto, conVars, GridInv
<1>4. CASE erase_cursor \/ draw_glyph \/ newline_scroll \/ draw_cursor
  BY <1>4 DEF erase_cursor, draw_glyph, newline_scroll, draw_cursor, Store, Goto, GridInv
<1>5. CASE advance
  <2>1. PICK c \in {col, cur_col} :
          /\ pc = "advance" /\ pc' = (IF c + 1 >= cols THEN "newline" ELSE "cursor")
          /\ cur_col' = c + 1 /\ cur_row' = cur_row
    BY <1>5 DEF advance, Goto
  <2>2. c \in Columns /\ cur_row \in TextRows
    BY <2>1 DEF GridInv
  <2> QED BY <1>1, <2>1, <2>2 DEF GridInv
<1>6. CASE newline_col
  <2>1. pc = "newline" /\ pc' = "count row" /\ cur_col' = 0 /\ cur_row' = cur_row
    BY <1>6 DEF newline_col, Goto
  <2>2. cur_row \in TextRows /\ cur_row \in 0 .. rows
    BY <2>1 DEF GridInv
  <2>3. cur_col' \in 0 .. cols /\ cur_col' \in Columns
    <3>1. 0 \in 0 .. cols /\ 0 \in Columns
      BY Geometry DEF Columns
    <3> QED BY <2>1, <3>1
  <2> QED BY <2>1, <2>2, <2>3 DEF GridInv
<1>7. CASE newline_row
  <2>1. /\ pc = "count row" /\ pc' = (IF cur_row + 1 >= rows THEN "scroll" ELSE "cursor")
        /\ cur_col' = cur_col /\ cur_row' = cur_row + 1
    BY <1>7 DEF newline_row, Goto
  <2>2. cur_row \in TextRows /\ cur_col \in Columns /\ cur_col \in 0 .. cols
    BY <2>1 DEF GridInv
  <2>3. cur_row' \in 0 .. rows /\ (pc' # "scroll" => cur_row' \in TextRows)
    <3>1. cur_row + 1 \in 0 .. rows /\ (~(cur_row + 1 >= rows) => cur_row + 1 \in TextRows)
      BY <2>2, Geometry DEF TextRows
    <3> QED BY <2>1, <3>1
  <2>4. pc' \in {"scroll", "cursor"}
    BY <2>1
  <2> QED BY <2>1, <2>2, <2>3, <2>4 DEF GridInv
<1>8. CASE newline_clamp
  BY <1>1, <1>8 DEF newline_clamp, ClampedRow, Goto, GridInv
<1> QED BY <1>2, <1>3, <1>4, <1>5, <1>6, <1>7, <1>8 DEF kprint

\* Whatever keys come between which of kprint's stores, the cursor is on the grid when
\* kprint is done.
THEOREM BackOnGrid == IrqSpec => []OnGridAtRest
<1>1. IrqInit => GridInv
  BY Geometry DEF IrqInit, GridInv, Columns, TextRows
<1>2. GridInv /\ [IrqNext]_vars => GridInv'
  <2> SUFFICES ASSUME GridInv, [IrqNext]_vars PROVE GridInv'
    OBVIOUS
  <2>1. CASE kprint
    BY <2>1, KprintInv
  <2>2. CASE \E k \in Keys : keyboard_irq(k)
    BY <2>2, KeyInv
  <2>3. CASE keyboard_irq_drops \/ timer_irq \/ uart_sends
    BY <2>3 DEF keyboard_irq_drops, timer_irq, uart_sends, conVars, GridInv
  <2>4. CASE Idle \/ UNCHANGED vars
    BY <2>4 DEF Idle, vars, irqVars, conVars, GridInv
  <2> QED BY <2>1, <2>2, <2>3, <2>4 DEF IrqNext
<1>3. GridInv => OnGridAtRest
  BY DEF GridInv, OnGridAtRest, CursorOnGrid, TextRows
<1> QED BY <1>1, <1>2, <1>3, PTL DEF IrqSpec


-----------------------------------------------------------------------------
\* The serial port and interrupts

Byte == Printable \cup Chars \cup {"CR", "LF", "tick", "seconds"}
TaggedByte == Writers \X Byte

\* COM1 as serial_init leaves it, and a port with what it has sent.
Uarts == [divisor_low : Nat, divisor_high : Nat, ier : Nat, fcr : {199}, lcr : {3}, mcr : Nat,
          fifo : Seq(TaggedByte)]
Ports == [uart : Uarts, wire : [Writers -> Seq(Byte)]]

\* All that writer w has handed to the port s.
Stream(s, w) == s.wire[w] \o Held(s.uart.fifo, w)

\* The bytes of kmain's line still to be written are its last ones, and kmain finds at
\* most a handler's last byte in the transmitter it has seen empty.
Unsent ==
  LET line == CRLF(Message) IN
  /\ rest \in Seq(Byte) /\ Len(rest) \in 1 .. Len(line)
  /\ \A i \in 1 .. Len(rest) : rest[i] = line[Len(line) - Len(rest) + i]

SerialInv ==
  /\ Port \in Ports /\ echoed \in Seq(Chars) /\ beats \in Nat
  /\ pc \in {"poll", "out"} => Unsent
  /\ pc = "out" => Len(uart.fifo) <= 1
  /\ SerialLossless

\* The share of writer w in a byte, and serial_write's bytes for a character.
Share(b, w) == IF b[1] = w THEN <<b[2]>> ELSE << >>
Sent(c) == IF c = "LF" THEN <<"CR", "LF">> ELSE <<c>>

LEMMA HeldOf ==
  ASSUME NEW w \in Writers
  PROVE  /\ Held(<< >>, w) = << >>
         /\ \A q \in Seq(TaggedByte) : Held(q, w) \in Seq(Byte)
         /\ \A q \in Seq(TaggedByte), b \in TaggedByte : Held(Append(q, b), w) = Held(q, w) \o Share(b, w)
         /\ \A q \in Seq(TaggedByte) : q # << >> => Held(q, w) = Share(Head(q), w) \o Held(Tail(q), w)
<1> DEFINE P == [b \in TaggedByte |-> Share(b, w)]
<1>1. Shares(P, TaggedByte, Byte)
  BY DEF Share, Shares, TaggedByte
<1>2. ASSUME NEW q \in Seq(TaggedByte) PROVE Held(q, w) = FlattenSeq(Each(q, P))
  <2>1. \A i \in DOMAIN q : q[i] \in TaggedByte
    OBVIOUS
  <2>2. Each(q, P) = [i \in DOMAIN q |-> IF q[i][1] = w THEN <<q[i][2]>> ELSE << >>]
    BY <2>1 DEF Each, Share
  <2> QED BY <2>2 DEF Held
<1> HIDE DEF P
<1>3. Held(<< >>, w) = << >>
  <2>1. << >> \in Seq(TaggedByte)
    OBVIOUS
  <2> QED BY <1>2, <2>1, EachNone
<1>4. ASSUME NEW q \in Seq(TaggedByte), NEW b \in TaggedByte
      PROVE  Held(q, w) \in Seq(Byte) /\ Held(Append(q, b), w) = Held(q, w) \o Share(b, w)
  <2>1. Append(q, b) \in Seq(TaggedByte) /\ P[b] = Share(b, w)
    BY DEF P
  <2>2. /\ FlattenSeq(Each(q, P)) \in Seq(Byte)
        /\ FlattenSeq(Each(Append(q, b), P)) = FlattenSeq(Each(q, P)) \o P[b]
    BY <1>1, EachAppend, SMT
  <2>3. Held(q, w) = FlattenSeq(Each(q, P)) /\ Held(Append(q, b), w) = FlattenSeq(Each(Append(q, b), P))
    BY <1>2, <2>1
  <2> QED BY <2>1, <2>2, <2>3
<1>5. ASSUME NEW q \in Seq(TaggedByte), q # << >>
      PROVE  Held(q, w) = Share(Head(q), w) \o Held(Tail(q), w)
  <2>1. Tail(q) \in Seq(TaggedByte) /\ P[Head(q)] = Share(Head(q), w)
    BY <1>5 DEF P
  <2> QED BY <1>1, <1>2, <1>5, <2>1, EachHead, Zenon
<1>6. \A q \in Seq(TaggedByte) : Held(q, w) \in Seq(Byte)
  <2>1. <<w, "LF">> \in TaggedByte
    BY DEF TaggedByte, Byte
  <2> QED BY <1>4, <2>1
<1> QED BY <1>3, <1>4, <1>5, <1>6

LEMMA SentOf ==
  /\ CRLF(<< >>) = << >>
  /\ \A s \in Seq(Byte) : CRLF(s) \in Seq(Byte)
  /\ \A s \in Seq(Byte), c \in Byte : CRLF(Append(s, c)) = CRLF(s) \o Sent(c)
<1> DEFINE P == [c \in Byte |-> Sent(c)]
<1>1. Shares(P, Byte, Byte)
  <2> SUFFICES ASSUME NEW c \in Byte PROVE Sent(c) \in Seq(Byte)
    BY DEF Shares
  <2>1. "CR" \in Byte /\ "LF" \in Byte
    BY DEF Byte
  <2> QED BY <2>1 DEF Sent
<1>2. ASSUME NEW s \in Seq(Byte) PROVE CRLF(s) = FlattenSeq(Each(s, P))
  <2>1. \A i \in DOMAIN s : s[i] \in Byte
    OBVIOUS
  <2>2. Each(s, P) = [i \in DOMAIN s |-> IF s[i] = "LF" THEN <<"CR", "LF">> ELSE <<s[i]>>]
    BY <2>1 DEF Each, Sent
  <2> QED BY <2>2 DEF CRLF
<1> HIDE DEF P
<1>3. CRLF(<< >>) = << >>
  <2>1. << >> \in Seq(Byte)
    OBVIOUS
  <2> QED BY <1>2, <2>1, EachNone
<1>4. ASSUME NEW s \in Seq(Byte), NEW c \in Byte
      PROVE  CRLF(s) \in Seq(Byte) /\ CRLF(Append(s, c)) = CRLF(s) \o Sent(c)
  <2>1. Append(s, c) \in Seq(Byte) /\ P[c] = Sent(c)
    BY DEF P
  <2>2. /\ FlattenSeq(Each(s, P)) \in Seq(Byte)
        /\ FlattenSeq(Each(Append(s, c), P)) = FlattenSeq(Each(s, P)) \o P[c]
    BY <1>1, EachAppend, SMT
  <2>3. CRLF(s) = FlattenSeq(Each(s, P)) /\ CRLF(Append(s, c)) = FlattenSeq(Each(Append(s, c), P))
    BY <1>2, <2>1
  <2> QED BY <2>1, <2>2, <2>3
<1>5. \A s \in Seq(Byte) : CRLF(s) \in Seq(Byte)
  BY <1>4 DEF Byte
<1> QED BY <1>3, <1>4, <1>5

\* The registers one by one.
LEMMA Registers ==
  ASSUME NEW u, NEW v
  PROVE  /\ outb(u, 0, v) = IF DLAB(u) THEN [u EXCEPT !.divisor_low = v]
                            ELSE [u EXCEPT !.fifo = Queued(u, v)]
         /\ outb(u, 2, v) = [u EXCEPT !.fcr = v, !.fifo = IF (v \div 4) % 2 = 1 THEN << >> ELSE @]
<1> DEFINE a == [u EXCEPT !.divisor_low = v]
           b == [u EXCEPT !.fifo = Queued(u, v)]
           c == [u EXCEPT !.divisor_high = v]
           d == [u EXCEPT !.ier = v]
           e == [u EXCEPT !.fcr = v, !.fifo = IF (v \div 4) % 2 = 1 THEN << >> ELSE @]
           f == [u EXCEPT !.lcr = v]
           h == [u EXCEPT !.mcr = v]
<1>1. ASSUME NEW reg
      PROVE  outb(u, reg, v) = CASE reg = 0 -> IF DLAB(u) THEN a ELSE b
                                 [] reg = 1 -> IF DLAB(u) THEN c ELSE d
                                 [] reg = 2 -> e [] reg = 3 -> f [] reg = 4 -> h
  BY DEF outb
<1> HIDE DEF a, b, c, d, e, f, h
<1>2. outb(u, 0, v) = (IF DLAB(u) THEN a ELSE b) /\ outb(u, 2, v) = e
  BY <1>1
<1> QED BY <1>2 DEF a, b, e

\* What serial_init leaves.
LEMMA SerialInit == serial_init(PowerOn) \in Uarts /\ serial_init(PowerOn).fifo = << >>
<1> DEFINE I == 0 .. Len(Setup)
           step(g) == [i \in I |-> IF i = 0 THEN PowerOn ELSE outb(g[i - 1], Setup[i][1], Setup[i][2])]
           g == CHOOSE f : f = step(f)
           r(dl, dh, fcr, lcr, mcr) == [divisor_low |-> dl, divisor_high |-> dh, ier |-> 0, fcr |-> fcr,
                                        lcr |-> lcr, mcr |-> mcr, fifo |-> << >>]
           w == [i \in I |-> IF i = 0 THEN r(12, 0, 0, 3, 0) ELSE IF i = 1 THEN r(12, 0, 0, 3, 0)
                             ELSE IF i = 2 THEN r(12, 0, 0, 128, 0) ELSE IF i = 3 THEN r(1, 0, 0, 128, 0)
                             ELSE IF i = 4 THEN r(1, 0, 0, 128, 0) ELSE IF i = 5 THEN r(1, 0, 0, 3, 0)
                             ELSE IF i = 6 THEN r(1, 0, 199, 3, 0) ELSE r(1, 0, 199, 3, 11)]
<1>1. I = 0 .. 7 /\ Len(Setup) = 7
  BY DEF Setup
<1>2. /\ Setup[1][1] = 1 /\ Setup[1][2] = 0 /\ Setup[2][1] = 3 /\ Setup[2][2] = 128
      /\ Setup[3][1] = 0 /\ Setup[3][2] = 1 /\ Setup[4][1] = 1 /\ Setup[4][2] = 0
      /\ Setup[5][1] = 3 /\ Setup[5][2] = 3 /\ Setup[6][1] = 2 /\ Setup[6][2] = 199
      /\ Setup[7][1] = 4 /\ Setup[7][2] = 11
  BY DEF Setup
<1>3. /\ w[0] = PowerOn
      /\ w[1] = outb(w[0], 1, 0) /\ w[2] = outb(w[1], 3, 128) /\ w[3] = outb(w[2], 0, 1)
      /\ w[4] = outb(w[3], 1, 0) /\ w[5] = outb(w[4], 3, 3) /\ w[6] = outb(w[5], 2, 199)
      /\ w[7] = outb(w[6], 4, 11)
  <2>0. /\ w[0] = r(12, 0, 0, 3, 0) /\ w[1] = r(12, 0, 0, 3, 0) /\ w[2] = r(12, 0, 0, 128, 0)
        /\ w[3] = r(1, 0, 0, 128, 0) /\ w[4] = r(1, 0, 0, 128, 0) /\ w[5] = r(1, 0, 0, 3, 0)
        /\ w[6] = r(1, 0, 199, 3, 0) /\ w[7] = r(1, 0, 199, 3, 11)
    <3> HIDE DEF r
    <3> QED BY <1>1
  <2> HIDE DEF w
  <2>1. w[0] = PowerOn
    BY <2>0 DEF PowerOn
  <2>2. w[1] = outb(w[0], 1, 0)
    BY <2>0 DEF outb, DLAB
  <2>3. w[2] = outb(w[1], 3, 128)
    BY <2>0 DEF outb
  <2>4. w[3] = outb(w[2], 0, 1)
    <3>1. DLAB(w[2])
      BY <2>0 DEF DLAB
    <3>2. outb(w[2], 0, 1) = [w[2] EXCEPT !.divisor_low = 1]
      BY <3>1, Registers, Zenon
    <3> QED BY <2>0, <3>2
  <2>5. w[4] = outb(w[3], 1, 0)
    BY <2>0 DEF outb, DLAB
  <2>6. w[5] = outb(w[4], 3, 3)
    BY <2>0 DEF outb
  <2>7. w[6] = outb(w[5], 2, 199)
    <3>1. (199 \div 4) % 2 = 1
      OBVIOUS
    <3>2. outb(w[5], 2, 199) = [w[5] EXCEPT !.fcr = 199, !.fifo = IF (199 \div 4) % 2 = 1 THEN << >> ELSE @]
      BY Registers, Zenon
    <3>3. outb(w[5], 2, 199) = [w[5] EXCEPT !.fcr = 199, !.fifo = << >>]
      BY <3>1, <3>2
    <3>4. w[5] = r(1, 0, 0, 3, 0) /\ w[6] = r(1, 0, 199, 3, 0)
      BY <2>0, Zenon
    <3>5. r(1, 0, 199, 3, 0) = [r(1, 0, 0, 3, 0) EXCEPT !.fcr = 199, !.fifo = << >>]
      <4>1. r(1, 0, 199, 3, 0) = [r(1, 0, 0, 3, 0) EXCEPT !.fcr = 199]
        OBVIOUS
      <4>2. r(1, 0, 199, 3, 0) = [r(1, 0, 199, 3, 0) EXCEPT !.fifo = << >>]
        OBVIOUS
      <4> HIDE DEF r
      <4> QED BY <4>1, <4>2
    <3> QED BY <3>3, <3>4, <3>5, Zenon
  <2>8. w[7] = outb(w[6], 4, 11)
    BY <2>0 DEF outb
  <2> QED BY <2>1, <2>2, <2>3, <2>4, <2>5, <2>6, <2>7, <2>8
<1>4. w[7] \in Uarts /\ w[7].fifo = << >>
  BY <1>1 DEF Uarts
<1>5. w = step(w)
  <2>1. w = [i \in I |-> w[i]]
    OBVIOUS
  <2> HIDE DEF w
  <2>2. ASSUME NEW i \in I PROVE w[i] = IF i = 0 THEN PowerOn ELSE outb(w[i - 1], Setup[i][1], Setup[i][2])
    <3>1. i = 0 \/ i = 1 \/ i = 2 \/ i = 3 \/ i = 4 \/ i = 5 \/ i = 6 \/ i = 7
      BY <1>1
    <3>2. 1 - 1 = 0 /\ 2 - 1 = 1 /\ 3 - 1 = 2 /\ 4 - 1 = 3 /\ 5 - 1 = 4 /\ 6 - 1 = 5 /\ 7 - 1 = 6
      OBVIOUS
    <3> QED BY <1>2, <1>3, <3>1, <3>2
  <2> QED BY <2>1, <2>2
<1> HIDE DEF w
<1>6. g = step(g)
  <2>1. \E f : f = step(f)
    BY <1>5
  <2> QED BY <2>1
<1>7. serial_init(PowerOn) = g[7]
  BY <1>1 DEF serial_init
<1> HIDE DEF g
<1>8. /\ g[0] = PowerOn
      /\ g[1] = outb(g[0], 1, 0) /\ g[2] = outb(g[1], 3, 128) /\ g[3] = outb(g[2], 0, 1)
      /\ g[4] = outb(g[3], 1, 0) /\ g[5] = outb(g[4], 3, 3) /\ g[6] = outb(g[5], 2, 199)
      /\ g[7] = outb(g[6], 4, 11)
  <2>1. ASSUME NEW i \in 0 .. 7 PROVE g[i] = IF i = 0 THEN PowerOn ELSE outb(g[i - 1], Setup[i][1], Setup[i][2])
    BY <1>1, <1>6
  <2> QED BY <1>2, <2>1
<1>9. g[7] = w[7]
  BY <1>3, <1>8
<1> QED BY <1>4, <1>7, <1>9

\* A byte written to a transmitter with room joins the others.
LEMMA OutByte ==
  ASSUME NEW u \in Uarts, NEW b \in TaggedByte, Len(u.fifo) < 16
  PROVE  /\ outb(u, 0, b) \in Uarts /\ outb(u, 0, b).fifo = Append(u.fifo, b)
<1>1. u.lcr = 3 /\ u.fcr = 199 /\ u.fifo \in Seq(TaggedByte)
  BY DEF Uarts
<1>2. ~DLAB(u) /\ Depth(u) = 16
  BY <1>1 DEF DLAB, Depth
<1>3. Queued(u, b) = Append(u.fifo, b) /\ Append(u.fifo, b) \in Seq(TaggedByte)
  BY <1>1, <1>2 DEF Queued
<1>4. outb(u, 0, b) = [u EXCEPT !.fifo = Append(u.fifo, b)]
  <2>1. outb(u, 0, b) = [u EXCEPT !.fifo = Queued(u, b)]
    BY <1>2, Registers, Zenon
  <2> QED BY <1>3, <2>1, Zenon
<1> HIDE DEF TaggedByte
<1>5. ASSUME NEW q \in Seq(TaggedByte) PROVE [u EXCEPT !.fifo = q] \in Uarts /\ [u EXCEPT !.fifo = q].fifo = q
  BY DEF Uarts
<1> QED BY <1>3, <1>4, <1>5

\* A byte that leaves the UART changes nobody's stream.
LEMMA ShiftedKeeps ==
  ASSUME NEW s \in Ports, s.uart.fifo # << >>
  PROVE  /\ Shifted(s) \in Ports
         /\ Len(Shifted(s).uart.fifo) = Len(s.uart.fifo) - 1
         /\ \A w \in Writers : Stream(Shifted(s), w) = Stream(s, w)
<1> DEFINE q == s.uart.fifo
           b == Head(q)
           t == Shifted(s)
<1>1. q \in Seq(TaggedByte) /\ s.uart \in Uarts /\ s.wire \in [Writers -> Seq(Byte)] /\ q # << >>
  BY DEF Ports, Uarts
<1>2. b \in TaggedByte /\ Tail(q) \in Seq(TaggedByte) /\ Len(Tail(q)) = Len(q) - 1
  BY <1>1
<1>3. b[1] \in Writers /\ b[2] \in Byte /\ b = <<b[1], b[2]>>
  BY <1>2 DEF TaggedByte
<1>4. t.uart = [s.uart EXCEPT !.fifo = Tail(q)] /\ t.wire = [s.wire EXCEPT ![b[1]] = Append(@, b[2])]
      /\ t = [uart |-> t.uart, wire |-> t.wire]
  BY DEF Shifted
<1> HIDE DEF q, b, t
<1>5. t.uart \in Uarts /\ t.uart.fifo = Tail(q)
  <2>1. ASSUME NEW p \in Seq(TaggedByte)
        PROVE  [s.uart EXCEPT !.fifo = p] \in Uarts /\ [s.uart EXCEPT !.fifo = p].fifo = p
    BY <1>1 DEF Uarts
  <2> QED BY <1>2, <1>4, <2>1
<1>6. t.wire \in [Writers -> Seq(Byte)]
  <2>1. Append(s.wire[b[1]], b[2]) \in Seq(Byte)
    BY <1>1, <1>3
  <2> QED BY <1>1, <1>4, <2>1
<1>7. t \in Ports
  BY <1>4, <1>5, <1>6 DEF Ports
<1>8. ASSUME NEW w \in Writers PROVE Stream(t, w) = Stream(s, w)
  <2>1. Held(q, w) = Share(b, w) \o Held(Tail(q), w) /\ Held(Tail(q), w) \in Seq(Byte)
    BY <1>1, <1>2, HeldOf DEF b
  <2>2. s.wire[w] \in Seq(Byte)
    BY <1>1
  <2>3. CASE b[1] = w
    <3>1. t.wire[w] = s.wire[w] \o <<b[2]>> /\ Share(b, w) = <<b[2]>> /\ <<b[2]>> \in Seq(Byte)
      <4>1. t.wire[w] = Append(s.wire[w], b[2])
        BY <1>1, <1>4, <2>3
      <4>2. Share(b, w) = <<b[2]>>
        BY <2>3 DEF Share
      <4>3. ASSUME NEW x \in Seq(Byte), NEW c \in Byte PROVE Append(x, c) = x \o <<c>> /\ <<c>> \in Seq(Byte)
        OBVIOUS
      <4> QED BY <1>3, <2>2, <4>1, <4>2, <4>3
    <3>2. ASSUME NEW x \in Seq(Byte), NEW y \in Seq(Byte), NEW z \in Seq(Byte)
          PROVE  (x \o y) \o z = x \o (y \o z)
      BY SMTT(60)
    <3> DEFINE H == Held(Tail(q), w)
               x == s.wire[w]
    <3>3. (x \o <<b[2]>>) \o H = x \o (<<b[2]>> \o H)
      BY <2>1, <2>2, <3>1, <3>2, Zenon
    <3>4. Stream(t, w) = (x \o <<b[2]>>) \o H
      BY <1>5, <3>1, Zenon DEF Stream
    <3>5. Stream(s, w) = x \o (<<b[2]>> \o H)
      BY <2>1, <3>1, Zenon DEF Stream, q
    <3> QED BY <3>3, <3>4, <3>5, Zenon
  <2>4. CASE b[1] # w
    <3>1. t.wire[w] = s.wire[w] /\ Share(b, w) = << >>
      BY <1>1, <1>3, <1>4, <2>4 DEF Share
    <3>2. << >> \o Held(Tail(q), w) = Held(Tail(q), w)
      BY <2>1
    <3> QED BY <1>5, <2>1, <3>1, <3>2 DEF Stream, q
  <2> QED BY <2>3, <2>4
<1> QED BY <1>2, <1>5, <1>7, <1>8 DEF t, q

\* The bytes bs of writer w, and nothing else, have gone to the port s and left t.
Extends(s, t, w, bs) ==
  \A v \in Writers : Stream(t, v) = Stream(s, v) \o (IF v = w THEN bs ELSE << >>)

\* serial_putc drains the UART, and its byte is alone in it then.
LEMMA PutcPort ==
  ASSUME NEW s \in Ports, NEW w \in Writers, NEW c \in Byte
  PROVE  LET t == serial_putc(s, <<w, c>>) IN
         t \in Ports /\ Len(t.uart.fifo) = 1 /\ Extends(s, t, w, <<c>>)
<1> DEFINE b == <<w, c>>
           n == Len(s.uart.fifo)
           step(f) == [i \in 0 .. n |-> IF i = 0 THEN s ELSE Shifted(f[i - 1])]
           drained == CHOOSE f : f = step(f)
           G == [x \in Ports \X Int |-> IF x[1].uart.fifo = << >> THEN x[1] ELSE Shifted(x[1])]
           Like(p, i) == /\ p \in Ports /\ Len(p.uart.fifo) = n - i
                         /\ \A v \in Writers : Stream(p, v) = Stream(s, v)
<1>1. \A p \in Ports : p.uart.fifo \in Seq(TaggedByte) /\ p.uart \in Uarts /\ p.wire \in [Writers -> Seq(Byte)]
  BY DEF Ports, Uarts
<1>2. n \in Nat /\ b \in TaggedByte
  BY <1>1 DEF TaggedByte
<1>3. Like(s, 0)
  BY <1>2
<1>4. ASSUME NEW i \in 1 .. n, NEW p, Like(p, i - 1)
      PROVE  p.uart.fifo # << >> /\ Like(Shifted(p), i)
  <2>1. Len(p.uart.fifo) = (n - i) + 1 /\ n - i \in Nat
    BY <1>2, <1>4
  <2>2. p.uart.fifo # << >>
    BY <2>1
  <2>3. Len(Shifted(p).uart.fifo) = n - i
    <3>1. Len(Shifted(p).uart.fifo) = Len(p.uart.fifo) - 1
      BY <1>4, <2>2, ShiftedKeeps, Zenon
    <3> HIDE DEF n
    <3> QED BY <1>2, <2>1, <3>1
  <2> QED BY <1>4, <2>2, <2>3, ShiftedKeeps
<1> HIDE DEF n, Like
<1>5. G \in [Ports \X Int -> Ports]
  <2> SUFFICES ASSUME NEW x \in Ports \X Int PROVE G[x] \in Ports
    BY DEF G
  <2>1. x[1] \in Ports
    OBVIOUS
  <2> QED BY <2>1, ShiftedKeeps
<1>6. \E f : f = step(f) /\ \A i \in 0 .. n : Like(f[i], i)
  <2>1. PICK f : Recurs(f, n, Ports, s, G)
    <3> HIDE DEF G
    <3> QED BY <1>2, <1>5, Recursion, Zenon
  <2>2. f \in [0 .. n -> Ports] /\ f[0] = s /\ \A i \in 1 .. n : f[i] = G[<<f[i - 1], i>>]
    BY <2>1 DEF Recurs
  <2> DEFINE U == {i \in 0 .. n : Like(f[i], i) /\ (i # 0 => f[i] = Shifted(f[i - 1]))}
  <2>3. 0 \in U
    BY <1>2, <1>3, <2>2
  <2>4. ASSUME NEW i \in 0 .. n - 1, i \in U PROVE i + 1 \in U
    <3>1. i + 1 \in 1 .. n /\ i + 1 \in 0 .. n /\ (i + 1) - 1 = i /\ i \in 0 .. n /\ i + 1 # 0
      BY <1>2
    <3>2. Like(f[i], i)
      BY <2>4
    <3>3. f[i].uart.fifo # << >> /\ Like(Shifted(f[i]), i + 1)
      BY <1>4, <3>1, <3>2
    <3>4. f[i + 1] = Shifted(f[i])
      <4>1. f[i + 1] = G[<<f[i], i + 1>>] /\ <<f[i], i + 1>> \in Ports \X Int
        <5> HIDE DEF G
        <5> QED BY <2>2, <3>1
      <4> QED BY <3>3, <4>1
    <3> QED BY <3>1, <3>3, <3>4
  <2> HIDE DEF U
  <2>5. 0 \in Int /\ n \in Int
    BY <1>2
  <2>6. 0 .. n \subseteq U
    BY <2>3, <2>4, <2>5, CountUp, Zenon
  <2>7. \A i \in 0 .. n : Like(f[i], i) /\ (i # 0 => f[i] = Shifted(f[i - 1]))
    BY <2>6 DEF U
  <2>8. f = step(f)
    <3>1. f = [i \in 0 .. n |-> f[i]]
      BY <2>2
    <3>2. \A i \in 0 .. n : f[i] = IF i = 0 THEN s ELSE Shifted(f[i - 1])
      BY <2>2, <2>7
    <3> QED BY <3>1, <3>2
  <2> QED BY <2>7, <2>8
<1>7. drained = step(drained)
  <2> HIDE DEF step
  <2> QED BY <1>6
<1> HIDE DEF drained, G
<1>8. DOMAIN drained = 0 .. n /\ \A i \in 0 .. n : drained[i] = IF i = 0 THEN s ELSE Shifted(drained[i - 1])
  BY <1>7
<1>9. \A i \in 0 .. n : Like(drained[i], i)
  <2> DEFINE U == {i \in 0 .. n : Like(drained[i], i)}
  <2>1. 0 \in U
    BY <1>2, <1>3, <1>8
  <2>2. ASSUME NEW i \in 0 .. n - 1, i \in U PROVE i + 1 \in U
    <3>1. i + 1 \in 1 .. n /\ i + 1 \in 0 .. n /\ (i + 1) - 1 = i /\ i + 1 # 0
      BY <1>2
    <3>2. Like(drained[i], i)
      BY <2>2
    <3>3. Like(Shifted(drained[i]), i + 1)
      BY <1>4, <3>1, <3>2
    <3>4. drained[i + 1] = Shifted(drained[i])
      BY <1>8, <3>1
    <3> QED BY <3>1, <3>3, <3>4
  <2> HIDE DEF U
  <2>3. 0 \in Int /\ n \in Int
    BY <1>2
  <2>4. 0 .. n \subseteq U
    BY <2>1, <2>2, <2>3, CountUp, Zenon
  <2> QED BY <2>4 DEF U
<1> DEFINE Done(k) == k \in DOMAIN drained /\ THRE(drained[k].uart) /\ \A j \in 0 .. k - 1 : ~THRE(drained[j].uart)
           m == CHOOSE k \in DOMAIN drained :
                  THRE(drained[k].uart) /\ \A j \in 0 .. k - 1 : ~THRE(drained[j].uart)
<1>10. \A i \in 0 .. n : THRE(drained[i].uart) <=> i = n
  <2> SUFFICES ASSUME NEW i \in 0 .. n PROVE THRE(drained[i].uart) <=> i = n
    OBVIOUS
  <2>1. drained[i].uart.fifo \in Seq(TaggedByte) /\ Len(drained[i].uart.fifo) = n - i
    BY <1>1, <1>9 DEF Like
  <2>2. drained[i].uart.fifo = << >> <=> Len(drained[i].uart.fifo) = 0
    BY <2>1
  <2>3. n - i = 0 <=> i = n
    BY <1>2
  <2> QED BY <2>1, <2>2, <2>3 DEF THRE
<1>11. m = n
  <2>1. Done(n)
    <3>1. n \in 0 .. n /\ \A j \in 0 .. n - 1 : j \in 0 .. n /\ j # n
      BY <1>2
    <3> QED BY <1>8, <1>10, <3>1
  <2>2. \A k : Done(k) => k = n
    BY <1>8, <1>10
  <2>3. Done(m)
    BY <2>1
  <2> QED BY <2>2, <2>3
<1> DEFINE d == drained[n]
           t == serial_putc(s, b)
<1>12. t = [d EXCEPT !.uart = outb(@, 0, b)]
  <2>1. t = [drained[m] EXCEPT !.uart = outb(@, 0, b)]
    BY DEF serial_putc, drained, n
  <2> HIDE DEF m
  <2> QED BY <1>11, <2>1
<1>13. Like(d, n) /\ THRE(d.uart)
  BY <1>2, <1>9, <1>10
<1> HIDE DEF d, m, t
<1>14. d \in Ports /\ d.uart.fifo = << >> /\ \A v \in Writers : Stream(d, v) = Stream(s, v)
  BY <1>13 DEF Like, THRE
<1>15. outb(d.uart, 0, b) \in Uarts /\ outb(d.uart, 0, b).fifo = Append(<< >>, b)
  <2>1. d.uart \in Uarts /\ Len(d.uart.fifo) < 16
    BY <1>1, <1>14
  <2> HIDE DEF b
  <2> QED BY <1>2, <1>14, <2>1, OutByte
<1>16. t.uart = outb(d.uart, 0, b) /\ t.wire = d.wire /\ t \in Ports
  <2> DEFINE o == outb(d.uart, 0, b)
  <2> HIDE DEF o
  <2>1. t = [d EXCEPT !.uart = o] /\ o \in Uarts
    BY <1>12, <1>15 DEF o
  <2>2. t.uart = o /\ t.wire = d.wire /\ t \in Ports
    BY <1>14, <2>1 DEF Ports
  <2> QED BY <2>2 DEF o
<1>17. Extends(s, t, w, <<c>>)
  <2> SUFFICES ASSUME NEW v \in Writers PROVE Stream(t, v) = Stream(s, v) \o (IF v = w THEN <<c>> ELSE << >>)
    BY DEF Extends
  <2>1. << >> \in Seq(TaggedByte) /\ Held(<< >>, v) = << >>
    BY HeldOf
  <2>2. Held(Append(<< >>, b), v) = << >> \o Share(b, v)
    <3> HIDE DEF b
    <3> QED BY <1>2, <2>1, HeldOf
  <2>3. Share(b, v) = (IF v = w THEN <<c>> ELSE << >>) /\ Share(b, v) \in Seq(Byte)
    BY DEF Share
  <2>4. Held(t.uart.fifo, v) = (IF v = w THEN <<c>> ELSE << >>)
    BY <1>15, <1>16, <2>2, <2>3
  <2>5. Stream(s, v) = d.wire[v]
    <3>1. d.wire[v] \o << >> = d.wire[v]
      BY <1>1, <1>14
    <3>2. Stream(d, v) = d.wire[v] \o << >>
      BY <1>14, <2>1, Zenon DEF Stream
    <3> QED BY <1>14, <3>1, <3>2
  <2> QED BY <1>16, <2>4, <2>5 DEF Stream
<1>18. Len(t.uart.fifo) = 1
  BY <1>15, <1>16
<1> QED BY <1>16, <1>17, <1>18 DEF t

\* A handler's bytes go to its stream in order; the last one may still be in the UART.
LEMMA WrittenPort ==
  ASSUME Port \in Ports, NEW w \in Writers, NEW bs \in Seq(Byte)
  PROVE  LET t == SerialWritten(Tagged(w, bs)) IN
         t \in Ports /\ Extends(Port, t, w, bs) /\ (t = Port \/ Len(t.uart.fifo) = 1)
<1> DEFINE n == Len(bs)
           bytes == Tagged(w, bs)
           step(f) == [i \in 0 .. n |-> IF i = 0 THEN Port ELSE serial_putc(f[i - 1], bytes[i])]
           after == CHOOSE f : f = step(f)
           G == [x \in Ports \X Int |-> IF x[2] \in 1 .. n THEN serial_putc(x[1], bytes[x[2]]) ELSE x[1]]
           Like(p, i) == p \in Ports /\ Extends(Port, p, w, SubSeq(bs, 1, i)) /\ (p = Port \/ Len(p.uart.fifo) = 1)
<1>1. n \in Nat /\ Len(bytes) = n /\ \A i \in 1 .. n : bs[i] \in Byte /\ bytes[i] = <<w, bs[i]>>
  BY DEF Tagged
<1>2. SerialWritten(bytes) = after[n]
  BY <1>1 DEF SerialWritten
<1>3. \A p \in Ports, v \in Writers : Stream(p, v) \in Seq(Byte) /\ Stream(p, v) \o << >> = Stream(p, v)
  <2> SUFFICES ASSUME NEW p \in Ports, NEW v \in Writers
               PROVE  Stream(p, v) \in Seq(Byte) /\ Stream(p, v) \o << >> = Stream(p, v)
    OBVIOUS
  <2>1. p.wire[v] \in Seq(Byte) /\ p.uart.fifo \in Seq(TaggedByte)
    BY DEF Ports, Uarts
  <2>2. Held(p.uart.fifo, v) \in Seq(Byte)
    BY <2>1, HeldOf
  <2> QED BY <2>1, <2>2 DEF Stream
<1> HIDE DEF n, bytes
<1>4. Like(Port, 0)
  <2>1. SubSeq(bs, 1, 0) = << >>
    OBVIOUS
  <2>2. Extends(Port, Port, w, << >>)
    BY <1>3 DEF Extends
  <2> QED BY <2>1, <2>2
<1>5. ASSUME NEW i \in 1 .. n, NEW p, Like(p, i - 1) PROVE Like(serial_putc(p, bytes[i]), i)
  <2> DEFINE t == serial_putc(p, bytes[i])
             x == SubSeq(bs, 1, i - 1)
  <2>1. t \in Ports /\ Len(t.uart.fifo) = 1 /\ Extends(p, t, w, <<bs[i]>>)
    <3>1. p \in Ports /\ bs[i] \in Byte /\ bytes[i] = <<w, bs[i]>>
      BY <1>1, <1>5
    <3>2. LET u == serial_putc(p, <<w, bs[i]>>) IN
          u \in Ports /\ Len(u.uart.fifo) = 1 /\ Extends(p, u, w, <<bs[i]>>)
      BY <3>1, PutcPort, Zenon
    <3> QED BY <3>1, <3>2
  <2>2. SubSeq(bs, 1, i) = x \o <<bs[i]>> /\ x \in Seq(Byte) /\ <<bs[i]>> \in Seq(Byte)
    BY <1>1 DEF n
  <2> HIDE DEF t, x
  <2>3. Extends(Port, t, w, SubSeq(bs, 1, i))
    <3> SUFFICES ASSUME NEW v \in Writers
                 PROVE  Stream(t, v) = Stream(Port, v) \o (IF v = w THEN SubSeq(bs, 1, i) ELSE << >>)
      BY DEF Extends
    <3>1. /\ Stream(p, v) = Stream(Port, v) \o (IF v = w THEN x ELSE << >>)
          /\ Stream(t, v) = Stream(p, v) \o (IF v = w THEN <<bs[i]>> ELSE << >>)
      BY <1>5, <2>1, Zenon DEF Extends, x
    <3>2. p \in Ports
      BY <1>5
    <3>3. CASE v = w
      <4>1. (Stream(Port, v) \o x) \o <<bs[i]>> = Stream(Port, v) \o (x \o <<bs[i]>>)
        <5>1. ASSUME NEW a \in Seq(Byte), NEW b \in Seq(Byte), NEW c \in Seq(Byte)
              PROVE  (a \o b) \o c = a \o (b \o c)
          BY SMTT(60)
        <5> QED BY <1>3, <2>2, <5>1, Zenon
      <4> QED BY <2>2, <3>1, <3>3, <4>1
    <3>4. CASE v # w
      BY <1>3, <3>1, <3>2, <3>4
    <3> QED BY <3>3, <3>4
  <2> QED BY <2>1, <2>3 DEF t
<1>6. G \in [Ports \X Int -> Ports]
  <2> SUFFICES ASSUME NEW x \in Ports \X Int PROVE G[x] \in Ports
    BY DEF G
  <2>1. x[1] \in Ports
    OBVIOUS
  <2>2. ASSUME x[2] \in 1 .. n PROVE serial_putc(x[1], bytes[x[2]]) \in Ports
    BY <1>1, <2>1, <2>2, PutcPort
  <2> QED BY <2>1, <2>2
<1> HIDE DEF Like
<1>7. after = step(after)
  <2>1. PICK f : Recurs(f, n, Ports, Port, G)
    <3> HIDE DEF G
    <3> QED BY <1>1, <1>6, Recursion, Zenon
  <2>2. f \in [0 .. n -> Ports] /\ f[0] = Port /\ \A i \in 1 .. n : f[i] = G[<<f[i - 1], i>>]
    BY <2>1 DEF Recurs
  <2>3. ASSUME NEW i \in 1 .. n PROVE f[i] = serial_putc(f[i - 1], bytes[i])
    <3>1. i - 1 \in 0 .. n /\ i \in Int
      BY <1>1
    <3>2. f[i] = G[<<f[i - 1], i>>] /\ <<f[i - 1], i>> \in Ports \X Int
      <4> HIDE DEF G
      <4> QED BY <2>2, <3>1
    <3> QED BY <3>2
  <2>4. f = step(f)
    <3>1. f = [i \in 0 .. n |-> f[i]]
      BY <2>2
    <3>2. \A i \in 0 .. n : i = 0 \/ i \in 1 .. n
      BY <1>1
    <3>3. \A i \in 0 .. n : f[i] = IF i = 0 THEN Port ELSE serial_putc(f[i - 1], bytes[i])
      BY <2>2, <2>3, <3>2
    <3> QED BY <3>1, <3>3
  <2> HIDE DEF step
  <2> QED BY <2>4
<1> HIDE DEF after, G
<1>8. \A i \in 0 .. n : after[i] = IF i = 0 THEN Port ELSE serial_putc(after[i - 1], bytes[i])
  BY <1>7
<1>9. Like(after[n], n)
  <2> DEFINE U == {i \in 0 .. n : Like(after[i], i)}
  <2>1. 0 \in U
    BY <1>1, <1>4, <1>8
  <2>2. ASSUME NEW i \in 0 .. n - 1, i \in U PROVE i + 1 \in U
    <3>1. i + 1 \in 1 .. n /\ i + 1 \in 0 .. n /\ (i + 1) - 1 = i /\ i + 1 # 0
      BY <1>1
    <3>2. Like(after[i], i)
      BY <2>2
    <3>3. Like(serial_putc(after[i], bytes[i + 1]), i + 1)
      BY <1>5, <3>1, <3>2
    <3>4. after[i + 1] = serial_putc(after[i], bytes[i + 1])
      BY <1>8, <3>1
    <3> QED BY <3>1, <3>3, <3>4
  <2> HIDE DEF U
  <2>3. 0 \in Int /\ n \in Int
    BY <1>1
  <2>4. 0 .. n \subseteq U
    BY <2>1, <2>2, <2>3, CountUp, Zenon
  <2> QED BY <1>1, <2>4 DEF U
<1>10. SubSeq(bs, 1, n) = bs
  BY DEF n
<1> QED BY <1>2, <1>9, <1>10 DEF Like, bytes

-----------------------------------------------------------------------------
\* Steps

\* A step that writes nothing.
LEMMA NothingWritten ==
  ASSUME SerialInv, Port' \in Ports, \A w \in Writers : Stream(Port', w) = Stream(Port, w),
         UNCHANGED <<echoed, beats>>, pc' = "out" => Len(uart'.fifo) <= 1,
         \/ pc \in {"poll", "out"} /\ pc' \in {"poll", "out"} /\ UNCHANGED rest
         \/ pc \notin {"poll", "out"} /\ pc' \notin {"poll", "out"}
  PROVE  SerialInv'
<1>1. ASSUME NEW w \in Writers PROVE wire'[w] \o Held(uart'.fifo, w) = Due(w)'
  <2>1. Due(w)' = Due(w)
    BY DEF Due
  <2>2. wire[w] \o Held(uart.fifo, w) = Due(w)
    BY DEF SerialInv, SerialLossless
  <2>3. Stream(Port', w) = wire'[w] \o Held(uart'.fifo, w) /\ Stream(Port, w) = wire[w] \o Held(uart.fifo, w)
    BY DEF Stream, Port
  <2> QED BY <2>1, <2>2, <2>3
<1>2. pc' \in {"poll", "out"} => Unsent'
  BY DEF SerialInv, Unsent
<1> QED BY <1>1, <1>2 DEF SerialInv, SerialLossless

\* kmain's line.
LEMMA Line == CRLF(Message) \in Seq(Byte)
<1>1. Message \in Seq(Byte)
  <2>1. Message \in Seq(Printable \cup {"LF"})
    BY MessageAssumption
  <2>2. Printable \cup {"LF"} \subseteq Byte
    BY DEF Byte
  <2> HIDE DEF Byte
  <2> QED BY <2>1, <2>2
<1> QED BY <1>1, SentOf

\* kmain looks at the status.
LEMMA PollSerial ==
  ASSUME SerialInv, serial_poll
  PROVE  SerialInv'
<1>1. pc = "poll" /\ pc' = "out" /\ uart.fifo = << >> /\ UNCHANGED <<rest, uart, wire, echoed, beats>>
  BY DEF serial_poll, THRE, serialVars, pressVars
<1>2. Port' = Port /\ Port \in Ports /\ Len(uart'.fifo) <= 1
  BY <1>1 DEF Port, SerialInv
<1> QED BY <1>1, <1>2, NothingWritten

\* kmain writes a byte: there is room for it, whatever a handler has written since.
LEMMA OutSerial ==
  ASSUME SerialInv, serial_out
  PROVE  SerialInv'
<1> DEFINE line == CRLF(Message)
           L == Len(line)
           m == L - Len(rest)
           b == <<"kmain", Head(rest)>>
<1>1. /\ pc = "out" /\ uart' = outb(uart, 0, b) /\ UNCHANGED <<wire, echoed, beats>>
      /\ IF Len(rest) > 1 THEN pc' = "poll" /\ rest' = Tail(rest) ELSE pc' = "erase"
  BY DEF serial_out, pressVars
<1>2. Port \in Ports /\ Unsent /\ Len(uart.fifo) <= 1 /\ echoed \in Seq(Chars) /\ beats \in Nat
  BY <1>1 DEF SerialInv
<1>3. uart \in Uarts /\ wire \in [Writers -> Seq(Byte)] /\ uart.fifo \in Seq(TaggedByte)
  BY <1>2 DEF Port, Ports, Uarts
<1>4. line \in Seq(Byte) /\ L \in Nat
  BY Line
<1>5. /\ rest \in Seq(Byte) /\ Len(rest) \in 1 .. L
      /\ \A i \in 1 .. Len(rest) : rest[i] = line[m + i]
  BY <1>2 DEF Unsent
<1> HIDE DEF line
<1>6. Head(rest) \in Byte /\ Head(rest) = line[m + 1] /\ b \in TaggedByte
  BY <1>5 DEF TaggedByte, Writers
<1>7. uart' \in Uarts /\ uart'.fifo = Append(uart.fifo, b)
  <2>1. Len(uart.fifo) < 16
    BY <1>2, <1>3
  <2> HIDE DEF b
  <2> QED BY <1>1, <1>3, <1>6, <2>1, OutByte
<1>8. Port' \in Ports
  BY <1>1, <1>3, <1>7 DEF Port, Ports
<1>9. m \in 0 .. L - 1 /\ SubSeq(line, 1, m + 1) = SubSeq(line, 1, m) \o <<Head(rest)>>
  <2>1. m \in 0 .. L - 1
    BY <1>4, <1>5
  <2>2. SubSeq(line, 1, m + 1) = SubSeq(line, 1, m) \o <<line[m + 1]>>
    <3> HIDE DEF m
    <3> QED BY <1>4, <2>1
  <2> QED BY <1>6, <2>1, <2>2
<1>10. SubSeq(line, 1, L) = line
  BY <1>4
<1>11. pc' \in {"poll", "erase"}
  BY <1>1
<1>12. pc' = "poll" => Unsent' /\ Len(rest') = Len(rest) - 1
  <2> SUFFICES ASSUME pc' = "poll" PROVE Unsent' /\ Len(rest') = Len(rest) - 1
    OBVIOUS
  <2>1. Len(rest) > 1 /\ rest' = Tail(rest)
    BY <1>1
  <2>2. rest' \in Seq(Byte) /\ Len(rest') = Len(rest) - 1 /\ \A i \in 1 .. Len(rest) - 1 : rest'[i] = rest[i + 1]
    BY <1>5, <2>1
  <2>3. Len(rest') \in 1 .. L
    BY <1>4, <1>5, <2>1, <2>2
  <2>4. ASSUME NEW i \in 1 .. Len(rest') PROVE rest'[i] = line[(L - Len(rest')) + i]
    <3> DEFINE p == Len(rest)
    <3>0. p \in Nat /\ i \in 1 .. p - 1 /\ Len(rest') = p - 1 /\ m = L - p
      BY <1>5, <2>2
    <3> HIDE DEF L, m, p
    <3>1. i + 1 \in 1 .. p /\ (L - Len(rest')) + i = m + (i + 1) /\ i \in 1 .. p - 1
      BY <1>4, <3>0
    <3> USE DEF p
    <3> QED BY <1>5, <2>2, <3>1
  <2> QED BY <2>2, <2>3, <2>4 DEF Unsent, line
<1>13. pc' = "erase" => L = m + 1
  BY <1>1, <1>4, <1>5
<1>14. ASSUME NEW w \in Writers PROVE wire'[w] \o Held(uart'.fifo, w) = Due(w)'
  <2>1. Held(uart'.fifo, w) = Held(uart.fifo, w) \o Share(b, w) /\ Held(uart.fifo, w) \in Seq(Byte)
    <3> HIDE DEF b
    <3> QED BY <1>3, <1>6, <1>7, HeldOf
  <2>2. wire[w] \o Held(uart.fifo, w) = Due(w) /\ wire[w] \in Seq(Byte)
    BY <1>3 DEF SerialInv, SerialLossless
  <2>3. CASE w = "kmain"
    <3>1. Share(b, w) = <<Head(rest)>> /\ <<Head(rest)>> \in Seq(Byte)
      BY <1>6, <2>3 DEF Share
    <3>2. Due(w) = SubSeq(line, 1, m)
      BY <1>1, <2>3 DEF Due, line
    <3>3. Due(w)' = SubSeq(line, 1, m + 1)
      <4>1. CASE pc' = "poll"
        <5>1. Due(w)' = SubSeq(line, 1, L - Len(rest'))
          BY <2>3, <4>1 DEF Due, line
        <5>2. L - Len(rest') = m + 1
          <6> DEFINE p == Len(rest)
          <6>1. p \in Nat /\ Len(rest') = p - 1 /\ m = L - p
            BY <1>5, <1>12, <4>1
          <6> HIDE DEF L, m, p
          <6> QED BY <1>4, <6>1
        <5> QED BY <5>1, <5>2
      <4>2. CASE pc' = "erase"
        <5>1. Due(w)' = line
          BY <2>3, <4>2 DEF Due, line
        <5> QED BY <1>10, <1>13, <4>2, <5>1
      <4> QED BY <1>11, <4>1, <4>2
    <3>4. ASSUME NEW x \in Seq(Byte), NEW y \in Seq(Byte), NEW z \in Seq(Byte)
          PROVE  (x \o y) \o z = x \o (y \o z)
      BY SMTT(60)
    <3>5. (wire[w] \o Held(uart.fifo, w)) \o Share(b, w) = wire[w] \o (Held(uart.fifo, w) \o Share(b, w))
      BY <2>1, <2>2, <3>1, <3>4, Zenon
    <3> QED BY <1>1, <1>9, <2>1, <2>2, <3>1, <3>2, <3>3, <3>5
  <2>4. CASE w # "kmain"
    <3>1. Share(b, w) = << >> /\ Held(uart.fifo, w) \o << >> = Held(uart.fifo, w)
      BY <2>1, <2>4 DEF Share
    <3>2. Due(w)' = Due(w)
      BY <1>1, <2>4 DEF Due, Writers
    <3> QED BY <1>1, <2>1, <2>2, <3>1, <3>2
  <2> QED BY <2>3, <2>4
<1>15. pc' # "out" /\ (pc' \in {"poll", "out"} => Unsent')
  BY <1>11, <1>12
<1>16. echoed' \in Seq(Chars) /\ beats' \in Nat
  BY <1>1, <1>2
<1> QED BY <1>8, <1>14, <1>15, <1>16 DEF SerialInv, SerialLossless

\* kprint's loads and stores.
LEMMA KprintSerial == SerialInv /\ kprint => SerialInv'
<1> SUFFICES ASSUME SerialInv, kprint PROVE SerialInv'
  OBVIOUS
<1>1. CASE serial_poll \/ serial_out
  BY <1>1, PollSerial, OutSerial
<1>2. CASE ~(serial_poll \/ serial_out)
  <2>1. /\ pc \notin {"poll", "out"} /\ pc' \notin {"poll", "out"}
        /\ UNCHANGED <<uart, wire, echoed, beats>>
    <3>1. CASE load_erase \/ load_draw \/ load_cursor
      BY <3>1 DEF load_erase, load_draw, load_cursor, Load, Goto, serialVars, pressVars
    <3>2. CASE erase_cursor \/ draw_glyph \/ newline_scroll \/ draw_cursor
      BY <3>2 DEF erase_cursor, draw_glyph, newline_scroll, draw_cursor, Store, Goto, serialVars, pressVars
    <3>3. CASE advance \/ newline_col \/ newline_row \/ newline_clamp
      BY <3>3 DEF advance, newline_col, newline_row, newline_clamp, Goto, serialVars, pressVars
    <3> QED BY <1>2, <3>1, <3>2, <3>3 DEF kprint
  <2>2. Port' = Port /\ Port \in Ports
    BY <2>1 DEF Port, SerialInv
  <2> QED BY <2>1, <2>2, NothingWritten
<1> QED BY <1>1, <1>2

\* The UART sends.
LEMMA SendsSerial ==
  ASSUME SerialInv, uart_sends
  PROVE  SerialInv'
<1>1. /\ uart.fifo # << >> /\ uart' = Shifted(Port).uart /\ wire' = Shifted(Port).wire
      /\ UNCHANGED <<pc, rest, echoed, beats>>
  BY DEF uart_sends, pressVars
<1>2. Port \in Ports /\ Port.uart.fifo = uart.fifo /\ uart.fifo \in Seq(TaggedByte)
  BY DEF SerialInv, Port, Ports, Uarts
<1>3. Port' = Shifted(Port)
  BY <1>1 DEF Port, Shifted
<1>4. /\ Shifted(Port) \in Ports /\ Len(Shifted(Port).uart.fifo) = Len(uart.fifo) - 1
      /\ \A w \in Writers : Stream(Shifted(Port), w) = Stream(Port, w)
  <2>1. Port.uart.fifo # << >>
    BY <1>1, <1>2
  <2> QED BY <1>2, <2>1, ShiftedKeeps, Zenon
<1>5. pc' = "out" => Len(uart'.fifo) <= 1
  <2>1. pc = "out" => Len(uart.fifo) <= 1
    BY DEF SerialInv
  <2>2. Len(uart'.fifo) = Len(uart.fifo) - 1 /\ Len(uart.fifo) \in Nat
    BY <1>1, <1>2, <1>4
  <2> QED BY <1>1, <2>1, <2>2
<1>6. Port' \in Ports /\ \A w \in Writers : Stream(Port', w) = Stream(Port, w)
  BY <1>3, <1>4
<1> HIDE DEF SerialInv
<1> QED BY <1>1, <1>5, <1>6, NothingWritten

\* A handler writes the bytes bs.
LEMMA HandlerSerial ==
  ASSUME SerialInv, NEW h \in {"keyboard", "timer"}, NEW bs \in Seq(Byte),
         uart' = SerialWritten(Tagged(h, bs)).uart, wire' = SerialWritten(Tagged(h, bs)).wire,
         UNCHANGED <<pc, rest>>, echoed' \in Seq(Chars), beats' \in Nat,
         Due(h)' = Due(h) \o bs,
         \A w \in Writers \ {h} : Due(w)' = Due(w)
  PROVE  SerialInv'
<1> DEFINE t == SerialWritten(Tagged(h, bs))
<1>1. Port \in Ports /\ h \in Writers
  BY DEF SerialInv, Writers
<1>2. t \in Ports /\ Extends(Port, t, h, bs) /\ (t = Port \/ Len(t.uart.fifo) = 1)
  BY <1>1, WrittenPort
<1>3. uart' = t.uart /\ wire' = t.wire
  OBVIOUS
<1> HIDE DEF t
<1>4. Port' = t
  BY <1>2, <1>3 DEF Port, Ports
<1>5. ASSUME NEW w \in Writers PROVE wire'[w] \o Held(uart'.fifo, w) = Due(w)'
  <2>1. Stream(t, w) = wire'[w] \o Held(uart'.fifo, w) /\ Stream(Port, w) = wire[w] \o Held(uart.fifo, w)
    BY <1>3 DEF Stream, Port
  <2>2. wire[w] \o Held(uart.fifo, w) = Due(w)
    BY DEF SerialInv, SerialLossless
  <2>3. Stream(t, w) = Stream(Port, w) \o (IF w = h THEN bs ELSE << >>)
    BY <1>2 DEF Extends
  <2>4. CASE w = h
    BY <2>1, <2>2, <2>3, <2>4
  <2>5. CASE w # h
    <3>1. Stream(Port, w) \in Seq(Byte)
      <4>1. wire[w] \in Seq(Byte) /\ uart.fifo \in Seq(TaggedByte)
        BY <1>1 DEF Port, Ports, Uarts
      <4>2. Held(uart.fifo, w) \in Seq(Byte)
        BY <4>1, HeldOf
      <4> QED BY <2>1, <4>1, <4>2
    <3>2. Stream(Port, w) \o << >> = Stream(Port, w)
      BY <3>1
    <3>3. Due(w)' = Due(w)
      BY <2>5
    <3> QED BY <2>1, <2>2, <2>3, <2>5, <3>2, <3>3
  <2> QED BY <2>4, <2>5
<1>6. pc' = "out" => Len(uart'.fifo) <= 1
  <2>1. pc = "out" => Len(uart.fifo) <= 1
    BY DEF SerialInv
  <2>2. CASE t = Port
    <3>1. uart' = uart
      BY <1>3, <2>2 DEF Port
    <3> QED BY <2>1, <3>1
  <2>3. CASE Len(t.uart.fifo) = 1
    BY <1>3, <2>3
  <2> QED BY <1>2, <2>2, <2>3
<1>7. pc' \in {"poll", "out"} => Unsent'
  BY DEF SerialInv, Unsent
<1> QED BY <1>2, <1>4, <1>5, <1>6, <1>7 DEF SerialInv, SerialLossless

\* A key's character is one more echoed.
LEMMA KeySerial ==
  ASSUME SerialInv, NEW k \in Keys, keyboard_irq(k)
  PROVE  SerialInv'
<1> DEFINE bs == CRLF(<<k>>)
<1>1. /\ k \in Chars /\ echoed' = Append(echoed, k) /\ UNCHANGED <<pc, rest, beats>>
      /\ uart' = SerialWritten(Tagged("keyboard", bs)).uart
      /\ wire' = SerialWritten(Tagged("keyboard", bs)).wire
  BY DEF keyboard_irq
<1>2. echoed \in Seq(Chars) /\ beats \in Nat /\ k \in Byte /\ echoed \in Seq(Byte)
  <2>1. echoed \in Seq(Chars) /\ beats \in Nat
    BY DEF SerialInv
  <2>2. Chars \subseteq Byte
    BY DEF Byte
  <2> HIDE DEF Byte
  <2> QED BY <1>1, <2>1, <2>2
<1>3. bs = Sent(k) /\ bs \in Seq(Byte)
  <2>1. << >> \in Seq(Byte) /\ Append(<< >>, k) = <<k>> /\ <<k>> \in Seq(Byte)
    BY <1>2
  <2>2. bs = << >> \o Sent(k) /\ bs \in Seq(Byte)
    BY <1>2, <2>1, SentOf
  <2>3. << >> \o Sent(k) = Sent(k)
    BY DEF Sent
  <2> QED BY <2>2, <2>3
<1> HIDE DEF bs
<1>4. CRLF(echoed') = CRLF(echoed) \o bs
  BY <1>1, <1>2, <1>3, SentOf
<1>5. Due("keyboard")' = Due("keyboard") \o bs
  BY <1>4 DEF Due
<1>6. \A w \in Writers \ {"keyboard"} : Due(w)' = Due(w)
  BY <1>1 DEF Due, Writers
<1>7. echoed' \in Seq(Chars) /\ beats' \in Nat
  BY <1>1, <1>2
<1> QED BY <1>1, <1>3, <1>5, <1>6, <1>7, HandlerSerial

\* A full second is one more heartbeat.
LEMMA TimerSerial ==
  ASSUME SerialInv, timer_irq
  PROVE  SerialInv'
<1> DEFINE line == [i \in 1 .. beats |-> Heartbeat]
<1>1. /\ beats' = beats + 1 /\ UNCHANGED <<pc, rest, echoed>>
      /\ uart' = SerialWritten(Tagged("timer", Heartbeat)).uart
      /\ wire' = SerialWritten(Tagged("timer", Heartbeat)).wire
  BY DEF timer_irq
<1>2. echoed \in Seq(Chars) /\ beats \in Nat
  BY DEF SerialInv
<1>3. Heartbeat \in Seq(Byte)
  <2>1. <<"tick", "seconds", "LF">> \in Seq(Byte)
    BY DEF Byte
  <2> QED BY <2>1, SentOf DEF Heartbeat
<1>4. FlattenSeq([i \in 1 .. beats + 1 |-> Heartbeat]) = FlattenSeq(line) \o Heartbeat
  <2>1. line \in Seq(Seq(Byte)) /\ [i \in 1 .. beats + 1 |-> Heartbeat] = Append(line, Heartbeat)
    <3> DEFINE S == Seq(Byte)
    <3>1. Heartbeat \in S
      BY <1>3
    <3> HIDE DEF S
    <3>2. line \in Seq(S) /\ Len(line) = beats
      BY <1>2, <3>1
    <3>3. [i \in 1 .. beats + 1 |-> Heartbeat] = Append(line, Heartbeat)
      BY <1>2, <3>1, <3>2
    <3> QED BY <3>2, <3>3 DEF S
  <2> HIDE DEF line
  <2> QED BY <1>3, <2>1, FlattenAppend
<1>5. Due("timer")' = Due("timer") \o Heartbeat
  BY <1>1, <1>4 DEF Due
<1>6. \A w \in Writers \ {"timer"} : Due(w)' = Due(w)
  BY <1>1 DEF Due, Writers
<1>7. echoed' \in Seq(Chars) /\ beats' \in Nat
  BY <1>1, <1>2
<1> QED BY <1>1, <1>3, <1>5, <1>6, <1>7, HandlerSerial

LEMMA SerialStart == IrqInit => SerialInv
<1> SUFFICES ASSUME IrqInit PROVE SerialInv
  OBVIOUS
<1> DEFINE line == CRLF(Message)
<1>1. /\ pc = "poll" /\ rest = line /\ uart = serial_init(PowerOn) /\ wire = [w \in Writers |-> << >>]
      /\ echoed = << >> /\ beats = 0
  BY DEF IrqInit
<1>2. line \in Seq(Byte) /\ Len(line) \in Nat /\ SubSeq(line, 1, 0) = << >>
  BY Line
<1>3. Port \in Ports /\ uart.fifo = << >>
  BY <1>1, SerialInit DEF Port, Ports
<1>4. Len(line) # 0
  <2>1. PICK m, c : m \in Seq(Byte) /\ c \in Byte /\ Message = Append(m, c)
    <3>1. Message \in Seq(Printable \cup {"LF"}) /\ Message # << >>
      BY MessageAssumption
    <3>2. Printable \cup {"LF"} \subseteq Byte
      BY DEF Byte
    <3> HIDE DEF Byte
    <3>3. Message \in Seq(Byte) /\ Len(Message) \in Nat \ {0}
      BY <3>1, <3>2
    <3> DEFINE m == SubSeq(Message, 1, Len(Message) - 1)
               c == Message[Len(Message)]
    <3>4. m \in Seq(Byte) /\ c \in Byte /\ Message = Append(m, c)
      BY <3>3
    <3> QED BY <3>4
  <2>2. line = CRLF(m) \o Sent(c) /\ CRLF(m) \in Seq(Byte)
    BY <2>1, SentOf
  <2>3. Sent(c) \in Seq(Byte) /\ Len(Sent(c)) # 0 /\ Len(Sent(c)) \in Nat
    <3>1. "CR" \in Byte /\ "LF" \in Byte
      BY DEF Byte
    <3> QED BY <2>1, <3>1 DEF Sent
  <2>4. Len(line) = Len(CRLF(m)) + Len(Sent(c)) /\ Len(CRLF(m)) \in Nat
    BY <2>2, <2>3
  <2> QED BY <2>3, <2>4
<1> HIDE DEF line
<1>5. Unsent
  <2>1. \A i \in 1 .. Len(rest) : rest[i] = line[Len(line) - Len(rest) + i]
    BY <1>1, <1>2
  <2>2. Len(rest) \in 1 .. Len(line)
    BY <1>1, <1>2, <1>4
  <2> QED BY <1>1, <1>2, <2>1, <2>2 DEF Unsent, line
<1>6. ASSUME NEW w \in Writers PROVE wire[w] \o Held(uart.fifo, w) = Due(w)
  <2>1. wire[w] \o Held(uart.fifo, w) = << >>
    BY <1>1, <1>3, HeldOf
  <2>2. CASE w = "kmain"
    <3>1. Due(w) = SubSeq(line, 1, Len(line) - Len(line))
      BY <1>1, <2>2 DEF Due, line
    <3>2. Len(line) - Len(line) = 0
      BY <1>2
    <3> QED BY <1>2, <2>1, <3>1, <3>2
  <2>3. CASE w = "keyboard"
    BY <1>1, <2>1, <2>3, SentOf DEF Due
  <2>4. CASE w = "timer"
    <3>1. Due(w) = FlattenSeq([i \in 1 .. 0 |-> Heartbeat])
      BY <1>1, <2>4 DEF Due
    <3>2. [i \in 1 .. 0 |-> Heartbeat] = << >>
      OBVIOUS
    <3> QED BY <2>1, <3>1, <3>2, FlattenNone
  <2> QED BY <2>2, <2>3, <2>4 DEF Writers
<1> QED BY <1>1, <1>3, <1>5, <1>6 DEF SerialInv, SerialLossless

LEMMA NextSerialInv == SerialInv /\ [IrqNext]_vars => SerialInv'
<1> SUFFICES ASSUME SerialInv, [IrqNext]_vars PROVE SerialInv'
  OBVIOUS
<1>1. CASE kprint
  BY <1>1, KprintSerial
<1>2. CASE \E k \in Keys : keyboard_irq(k)
  BY <1>2, KeySerial
<1>3. CASE timer_irq
  BY <1>3, TimerSerial
<1>4. CASE uart_sends
  BY <1>4, SendsSerial
<1>5. CASE keyboard_irq_drops \/ Idle \/ UNCHANGED vars
  <2>1. UNCHANGED <<pc, rest, uart, wire, echoed, beats>>
    BY <1>5 DEF keyboard_irq_drops, Idle, vars, irqVars, serialVars, pressVars
  <2>2. Port' = Port /\ Port \in Ports
    BY <2>1 DEF Port, SerialInv
  <2>3. pc' = "out" => Len(uart'.fifo) <= 1
    BY <2>1 DEF SerialInv
  <2> QED BY <2>1, <2>2, <2>3, NothingWritten
<1> QED BY <1>1, <1>2, <1>3, <1>4, <1>5 DEF IrqNext

\* Whichever handlers write between kmain's look at the UART's status and its write, no
\* byte of any of the three is lost or overtakes another of the same writer.
THEOREM SerialKept == IrqSpec => []SerialLossless
<1>1. SerialInv => SerialLossless
  BY DEF SerialInv
<1> QED BY <1>1, SerialStart, NextSerialInv, PTL DEF IrqSpec

=============================================================================
