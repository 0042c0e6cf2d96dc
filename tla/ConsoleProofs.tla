---------------------------- MODULE ConsoleProofs ----------------------------
(***************************************************************************)
(* The terminals, the keyboard and the shells of the console, for every    *)
(* size of the screen and of the buffers: the types; the screen and the    *)
(* active terminal; the text that a terminal shows; and the way of the     *)
(* typed characters to the commands.  Each part has an inductive invariant *)
(* of its own, ConsoleInv, TextShown and InputInv.  What the loops of the  *)
(* drivers compute is what FoldProofs shows of a fold, one instance for    *)
(* each operator that is folded.                                           *)
(***************************************************************************)
EXTENDS Console, SequenceTheorems, FiniteSetTheorems, TLAPS

Puts    == INSTANCE FoldProofs WITH Op <- vga_putc
Updates == INSTANCE FoldProofs WITH Op <- tty_update
Entries == INSTANCE FoldProofs WITH Op <- ListEntry
Paints  == INSTANCE FoldProofs WITH Op <- PaintCell
Kept    == INSTANCE FoldProofs WITH Op <- Keep
-----------------------------------------------------------------------------
\* A product grows with its factors.
LEMMA ProductGrows ==
    ASSUME NEW w \in Nat, NEW a \in Nat, NEW b \in Nat, a <= b
    PROVE  w * a <= w * b /\ w * a \in Nat /\ w * b \in Nat
<1> DEFINE d == b - a
<1>1. d \in Nat /\ b = a + d
  OBVIOUS
<1>2. w * d \in Nat /\ w * a \in Nat
  BY <1>1
<1>3. w * b = w * a + w * d
  BY <1>1
<1> QED BY <1>2, <1>3

\* Row and column of a cell.
LEMMA CellOf ==
    ASSUME NEW i \in ScreenCell
    PROVE  /\ i \in Nat
           /\ i % VGA_WIDTH \in 0 .. VGA_WIDTH - 1
           /\ i \div VGA_WIDTH \in 0 .. VGA_HEIGHT - 1
           /\ (i % VGA_WIDTH) + (i \div VGA_WIDTH) * VGA_WIDTH = i
<1> DEFINE w == VGA_WIDTH
           h == VGA_HEIGHT
           q == i \div w
           r == i % w
<1>1. w \in Nat \ {0} /\ h \in Nat \ {0}
  BY VgaAssumption
<1>2. i \in Int /\ 0 <= i /\ i < w * h
  BY <1>1 DEF ScreenCell
<1>3. q \in Int /\ r \in 0 .. w - 1 /\ i = w * q + r
  BY <1>1, <1>2
<1> HIDE DEF q, r, w, h
<1>4. q < h
  <2> SUFFICES ASSUME h <= q PROVE FALSE
    BY <1>1, <1>3
  <2>1. w * h <= w * q
    BY <1>1, <1>3, ProductGrows
  <2> QED BY <2>1, <1>1, <1>2, <1>3
<1>5. 0 <= q
  <2> SUFFICES ASSUME q < 0 PROVE FALSE
    BY <1>3
  <2>1. -q \in Nat /\ 1 <= -q
    BY <1>3
  <2>2. w * 1 <= w * (-q)
    BY <1>1, <2>1, ProductGrows
  <2>3. w * (-q) = -(w * q)
    BY <1>1, <1>3
  <2> QED BY <2>2, <2>3, <1>1, <1>2, <1>3
<1> QED BY <1>1, <1>2, <1>3, <1>4, <1>5 DEF q, r, w, h

\* The cell in a row and a column.
LEMMA CellAt ==
    ASSUME NEW x \in 0 .. VGA_WIDTH - 1, NEW y \in 0 .. VGA_HEIGHT - 1
    PROVE  /\ x + y * VGA_WIDTH \in ScreenCell
           /\ (x + y * VGA_WIDTH) % VGA_WIDTH = x
           /\ (x + y * VGA_WIDTH) \div VGA_WIDTH = y
<1> DEFINE w == VGA_WIDTH
           h == VGA_HEIGHT
<1>1. w \in Nat \ {0} /\ h \in Nat \ {0} /\ x \in 0 .. w - 1 /\ y \in 0 .. h - 1
  BY VgaAssumption
<1> HIDE DEF w, h
<1>2. w * (y + 1) <= w * h
  BY <1>1, ProductGrows
<1>3. w * (y + 1) = y * w + w /\ y * w \in Nat
  BY <1>1
<1>4. x + y * w \in 0 .. w * h - 1
  BY <1>1, <1>2, <1>3
<1>5. x + y * w = w * y + x
  BY <1>1
<1>6. (w * y + x) % w = x /\ (w * y + x) \div w = y
  BY <1>1
<1> QED BY <1>4, <1>5, <1>6 DEF w, h, ScreenCell
-----------------------------------------------------------------------------
\* What a cell of the screen may show, and the whole screen.
Picture == Glyph \cup {"spin", "clock", "list"}
Screens == [ScreenCell -> Picture]

\* A character at a position on the screen changes the cell there.
LEMMA PutcAt ==
    ASSUME NEW mem, NEW x \in 0 .. VGA_WIDTH - 1, NEW y \in 0 .. VGA_HEIGHT - 1, NEW c
    PROVE  vga_putc_at(mem, x, y, c) = [mem EXCEPT ![x + y * VGA_WIDTH] = c]
<1>1. Clamp(x, VGA_WIDTH) = x /\ Clamp(y, VGA_HEIGHT) = y
  BY VgaAssumption DEF Clamp
<1> QED BY <1>1 DEF vga_putc_at, vga_putc, At

\* A cell and the character that a callback or tty_refresh puts there.
CellChar == [at : ScreenCell, char : Picture]

\* A cell is painted where it belongs.
LEMMA PaintsCell ==
    \A mem \in Screens, cell \in CellChar :
        PaintCell(mem, cell) = [mem EXCEPT ![cell.at] = cell.char] /\ PaintCell(mem, cell) \in Screens
<1> SUFFICES ASSUME NEW mem \in Screens, NEW cell \in CellChar
             PROVE  /\ PaintCell(mem, cell) = [mem EXCEPT ![cell.at] = cell.char]
                    /\ PaintCell(mem, cell) \in Screens
  OBVIOUS
<1>1. cell.at \in ScreenCell /\ cell.char \in Picture
  BY DEF CellChar
<1>2. /\ cell.at % VGA_WIDTH \in 0 .. VGA_WIDTH - 1
      /\ cell.at \div VGA_WIDTH \in 0 .. VGA_HEIGHT - 1
      /\ (cell.at % VGA_WIDTH) + (cell.at \div VGA_WIDTH) * VGA_WIDTH = cell.at
  BY <1>1, CellOf
<1>3. PaintCell(mem, cell) = [mem EXCEPT ![cell.at] = cell.char]
  BY <1>2, PutcAt DEF PaintCell
<1> QED BY <1>1, <1>3 DEF Screens

\* tty_refresh leaves no cell of the screen as it was.
LEMMA Painted ==
    ASSUME NEW buf \in [Cell -> Glyph], screen \in Screens
    PROVE  Paint(buf) \in Screens /\ \A i \in ScreenCell : Paint(buf)[i] = buf[i]
<1> DEFINE m == TTY_WIDTH * TTY_HEIGHT
           order == [k \in 1 .. m |-> [at |-> k - 1, char |-> buf[k - 1]]]
           all == Paints!Folded(screen, order)
<1>1. all = Paint(buf)
  BY Zenon DEF Paint, Paints!Folded, Paints!FoldLeft, FoldLeft, Paints!MapThenFoldSet,
               MapThenFoldSet, Paints!Max, Max
<1>2. m \in Nat /\ Cell = 0 .. m - 1 /\ ScreenCell = 0 .. m - 1
  BY VgaAssumption DEF Cell, ScreenCell, TTY_WIDTH, TTY_HEIGHT
<1>3. /\ order \in Seq(CellChar) /\ Len(order) = m
      /\ \A k \in 1 .. m : order[k].at = k - 1 /\ order[k].char = buf[k - 1]
  <2>1. \A k \in 1 .. m : k - 1 \in ScreenCell /\ buf[k - 1] \in Picture
    BY <1>2 DEF Picture
  <2>2. order \in [1 .. m -> CellChar]
    BY <2>1 DEF CellChar
  <2>3. order \in Seq(CellChar) /\ Len(order) = m
    <3> HIDE DEF order
    <3> QED BY <1>2, <2>2
  <2>4. \A k \in 1 .. m : order[k] = [at |-> k - 1, char |-> buf[k - 1]]
    OBVIOUS
  <2> HIDE DEF order
  <2>5. ASSUME NEW k \in 1 .. m PROVE order[k].at = k - 1 /\ order[k].char = buf[k - 1]
    <3>1. order[k] = [at |-> k - 1, char |-> buf[k - 1]]
      BY <2>4
    <3> QED BY <3>1
  <2> QED BY <2>3, <2>5
<1> HIDE DEF order, all, m
<1>5. PICK f \in [0 .. Len(order) -> Screens] : Paints!Trace(f, screen, order)
  BY <1>3, PaintsCell, Paints!Fold, Zenon
<1>6. /\ f[0] = screen /\ all = f[m] /\ f \in [0 .. m -> Screens]
      /\ \A n \in 1 .. m : f[n] = PaintCell(f[n - 1], order[n])
  BY <1>3, <1>5 DEF Paints!Trace, all
<1>7. ASSUME NEW n \in 0 .. m - 1 PROVE f[n + 1] = [f[n] EXCEPT ![n] = buf[n]]
  <2>1. n + 1 \in 1 .. m /\ (n + 1) - 1 = n /\ n \in ScreenCell /\ n \in 0 .. m
    BY <1>2
  <2>2. order[n + 1] \in CellChar /\ order[n + 1].at = n /\ order[n + 1].char = buf[n]
    BY <2>1, <1>3, ElementOfSeq
  <2>3. f[n] \in Screens /\ f[n + 1] = PaintCell(f[n], order[n + 1])
    BY <2>1, <1>6
  <2>4. f[n + 1] = [f[n] EXCEPT ![order[n + 1].at] = order[n + 1].char]
    BY <2>2, <2>3, PaintsCell
  <2> QED BY <2>2, <2>4
<1> DEFINE T == {n \in 0 .. m : \A i \in ScreenCell : i < n => f[n][i] = buf[i]}
<1>8. 0 \in T
  BY <1>2
<1>9. ASSUME NEW n \in 0 .. m - 1, n \in T PROVE n + 1 \in T
  <2>1. n + 1 \in 0 .. m /\ n \in 0 .. m /\ f[n] \in Screens
    BY <1>2, <1>6
  <2>2. ASSUME NEW i \in ScreenCell, i < n + 1 PROVE f[n + 1][i] = buf[i]
    <3>1. CASE i = n
      BY <3>1, <1>7, <2>1 DEF Screens
    <3>2. CASE i # n
      <4>1. i < n
        BY <2>2, <3>2, <1>2
      <4> QED BY <3>2, <4>1, <1>7, <1>9, <2>1 DEF Screens
    <3> QED BY <3>1, <3>2
  <2> QED BY <2>1, <2>2
<1>10. 0 .. m \subseteq T
  <2> HIDE DEF T
  <2> QED BY <1>2, <1>8, <1>9, Puts!InductionTo
<1>11. m \in T /\ all \in Screens
  BY <1>2, <1>6, <1>10
<1>12. \A i \in ScreenCell : all[i] = buf[i]
  BY <1>2, <1>6, <1>11
<1> QED BY <1>1, <1>11, <1>12
-----------------------------------------------------------------------------
\* The screen and the position at which vga_putc goes on.
Positions == [mem : Screens, x : 0 .. VGA_WIDTH - 1, y : Nat]

\* A character changes one cell at most, and moves the position.
LEMMA PutcType ==
    \A v \in Positions, c \in Picture :
        /\ vga_putc(v, c) \in Positions
        /\ vga_putc(v, c).mem = [v.mem EXCEPT ![v.x + v.y * VGA_WIDTH] = c]
        /\ v.x + 1 < VGA_WIDTH => vga_putc(v, c).x = v.x + 1 /\ vga_putc(v, c).y = v.y
<1> SUFFICES ASSUME NEW v \in Positions, NEW c \in Picture
             PROVE  /\ vga_putc(v, c) \in Positions
                    /\ vga_putc(v, c).mem = [v.mem EXCEPT ![v.x + v.y * VGA_WIDTH] = c]
                    /\ v.x + 1 < VGA_WIDTH
                          => vga_putc(v, c).x = v.x + 1 /\ vga_putc(v, c).y = v.y
  OBVIOUS
<1> DEFINE at == v.x + v.y * VGA_WIDTH
           n == [v.mem EXCEPT ![at] = c]
<1>1. v.mem \in Screens /\ v.x \in 0 .. VGA_WIDTH - 1 /\ v.y \in Nat
  BY DEF Positions
<1>2. n \in Screens
  BY <1>1 DEF Screens
<1> HIDE DEF n
<1>3. vga_putc(v, c) = [mem |-> n,
                        x |-> IF v.x + 1 >= VGA_WIDTH THEN 0 ELSE v.x + 1,
                        y |-> IF v.x + 1 >= VGA_WIDTH THEN v.y + 1 ELSE v.y]
  BY Zenon DEF vga_putc, n
<1>4. VGA_WIDTH \in Nat \ {0}
  BY VgaAssumption
<1>5. vga_putc(v, c) \in Positions
  BY <1>1, <1>2, <1>3, <1>4 DEF Positions
<1>6. /\ vga_putc(v, c).mem = n
      /\ v.x + 1 < VGA_WIDTH => vga_putc(v, c).x = v.x + 1 /\ vga_putc(v, c).y = v.y
  BY <1>1, <1>3, <1>4
<1> QED BY <1>5, <1>6 DEF n

\* The position that is set is on the screen.
LEMMA AtType ==
    ASSUME NEW mem \in Screens, NEW x \in Int, NEW y \in Int
    PROVE  /\ At(mem, x, y) \in Positions
           /\ At(mem, x, y).mem = mem
           /\ At(mem, x, y).x = Clamp(x, VGA_WIDTH)
           /\ At(mem, x, y).y = Clamp(y, VGA_HEIGHT)
           /\ Clamp(x, VGA_WIDTH) \in 0 .. VGA_WIDTH - 1
           /\ Clamp(y, VGA_HEIGHT) \in 0 .. VGA_HEIGHT - 1
<1>1. VGA_WIDTH \in Nat \ {0} /\ VGA_HEIGHT \in Nat \ {0}
  BY VgaAssumption
<1>2. /\ Clamp(x, VGA_WIDTH) \in 0 .. VGA_WIDTH - 1
      /\ Clamp(y, VGA_HEIGHT) \in 0 .. VGA_HEIGHT - 1
  BY <1>1 DEF Clamp
<1> DEFINE cx == Clamp(x, VGA_WIDTH)
           cy == Clamp(y, VGA_HEIGHT)
<1>3. At(mem, x, y) = [mem |-> mem, x |-> cx, y |-> cy]
  BY DEF At
<1>4. cx \in 0 .. VGA_WIDTH - 1 /\ cy \in 0 .. VGA_HEIGHT - 1
  BY <1>2
<1> HIDE DEF cx, cy
<1>5. At(mem, x, y) \in Positions
  BY <1>1, <1>3, <1>4 DEF Positions
<1>6. At(mem, x, y).mem = mem /\ At(mem, x, y).x = cx /\ At(mem, x, y).y = cy
  BY <1>3
<1> QED BY <1>4, <1>5, <1>6 DEF cx, cy

\* vga_puts_at is the fold of vga_putc.
LEMMA PutsFolds ==
    \A mem, x, y, s : vga_puts_at(mem, x, y, s) = Puts!Folded(At(mem, x, y), s).mem
BY Zenon DEF vga_puts_at, Puts!Folded, Puts!FoldLeft, FoldLeft, Puts!MapThenFoldSet,
             MapThenFoldSet, Puts!Max, Max

\* What a drawing leaves where it does not write.
Over(old, new) ==
    \A i \in ScreenCell : \/ new[i] = old[i]
                          \/ new[i] \in {"list", Space} /\ i % VGA_WIDTH # VGA_WIDTH - 1

\* A row of the process list, which stops before the last column.
LEMMA RowOver ==
    ASSUME NEW mem \in Screens, NEW y \in Int, NEW c \in {"list", Space}
    PROVE  vga_puts_at(mem, 0, y, Line(c)) \in Screens /\ Over(mem, vga_puts_at(mem, 0, y, Line(c)))
<1> DEFINE w == VGA_WIDTH
           s == Line(c)
           start == At(mem, 0, y)
           all == Puts!Folded(start, s)
           cy == Clamp(y, VGA_HEIGHT)
<1>1. w \in Nat \ {0}
  BY VgaAssumption
<1>2. c \in Picture
  BY DEF Picture, Glyph, Space
<1>3. s \in Seq(Picture) /\ Len(s) = w - 1 /\ \A k \in 1 .. w - 1 : s[k] = c
  <2>1. s \in [1 .. w - 1 -> Picture] /\ \A k \in 1 .. w - 1 : s[k] = c
    BY <1>2 DEF Line
  <2> HIDE DEF s
  <2> QED BY <1>1, <2>1
<1>4. /\ start \in Positions /\ start.mem = mem /\ start.x = 0 /\ start.y = cy
      /\ cy \in 0 .. VGA_HEIGHT - 1
  <2>1. Clamp(0, VGA_WIDTH) = 0
    BY <1>1 DEF Clamp
  <2> QED BY <2>1, AtType
<1>5. vga_puts_at(mem, 0, y, Line(c)) = all.mem
  BY PutsFolds, Zenon
<1> HIDE DEF s, start, all, w, cy
<1>6. PICK f \in [0 .. Len(s) -> Positions] : Puts!Trace(f, start, s)
  BY <1>3, <1>4, PutcType, Puts!Fold, Zenon
<1>7. /\ f[0] = start /\ all = f[w - 1] /\ f \in [0 .. w - 1 -> Positions]
      /\ \A n \in 1 .. w - 1 : f[n] = vga_putc(f[n - 1], c)
  BY <1>3, <1>6 DEF Puts!Trace, all
<1> DEFINE T == {n \in 0 .. w - 1 : f[n].x = n /\ f[n].y = cy /\ Over(mem, f[n].mem)}
<1>8. 0 \in T
  BY <1>1, <1>4, <1>7 DEF Over
<1>9. ASSUME NEW n \in 0 .. (w - 1) - 1, n \in T PROVE n + 1 \in T
  <2>1. n + 1 \in 1 .. w - 1 /\ (n + 1) - 1 = n /\ n \in 0 .. w - 1 /\ n + 1 < w
    BY <1>1
  <2>2. f[n] \in Positions /\ f[n + 1] = vga_putc(f[n], c)
    BY <2>1, <1>7
  <2>3. f[n].x = n /\ f[n].y = cy /\ Over(mem, f[n].mem)
    BY <1>9
  <2> DEFINE at == n + cy * w
  <2>4. f[n + 1].mem = [f[n].mem EXCEPT ![at] = c] /\ f[n + 1].x = n + 1 /\ f[n + 1].y = cy
    <3>1. /\ f[n + 1].mem = [f[n].mem EXCEPT ![f[n].x + f[n].y * VGA_WIDTH] = c]
          /\ f[n].x + 1 < VGA_WIDTH
                => f[n + 1].x = f[n].x + 1 /\ f[n + 1].y = f[n].y
      BY <2>2, <1>2, PutcType
    <3>2. f[n].x + 1 < VGA_WIDTH
      BY <2>1, <2>3 DEF w
    <3>3. f[n + 1].x = n + 1 /\ f[n + 1].y = cy
      BY <2>3, <3>1, <3>2
    <3> QED BY <2>3, <3>1, <3>3 DEF w
  <2>5. at % w = n
    <3>1. n \in 0 .. VGA_WIDTH - 1
      BY <2>1 DEF w
    <3> QED BY <3>1, <1>4, CellAt DEF w
  <2>6. f[n].mem \in Screens
    BY <2>2 DEF Positions
  <2> HIDE DEF at
  <2>7. ASSUME NEW i \in ScreenCell
        PROVE  \/ f[n + 1].mem[i] = mem[i]
               \/ f[n + 1].mem[i] \in {"list", Space} /\ i % VGA_WIDTH # VGA_WIDTH - 1
    <3>1. CASE i = at
      <4>1. f[n + 1].mem[i] = c
        BY <3>1, <2>4, <2>6 DEF Screens
      <4>2. n # VGA_WIDTH - 1
        BY <2>1, <1>1 DEF w
      <4> QED BY <3>1, <4>1, <4>2, <2>5 DEF w
    <3>2. CASE i # at
      <4>1. f[n + 1].mem[i] = f[n].mem[i]
        BY <3>2, <2>4, <2>6 DEF Screens
      <4> QED BY <4>1, <2>3 DEF Over
    <3> QED BY <3>1, <3>2
  <2>8. Over(mem, f[n + 1].mem)
    BY <2>7 DEF Over
  <2> QED BY <2>1, <2>4, <2>8
<1>10. 0 .. w - 1 \subseteq T
  <2> HIDE DEF T
  <2>1. w - 1 \in Nat
    BY <1>1
  <2> QED BY <2>1, <1>8, <1>9, Puts!InductionTo
<1>11. w - 1 \in T /\ all \in Positions
  BY <1>1, <1>7, <1>10
<1> QED BY <1>5, <1>7, <1>11 DEF Positions

\* What has been drawn over twice has been drawn over.
LEMMA OverAgain ==
    ASSUME NEW m1, NEW m2, NEW m3, Over(m1, m2), Over(m2, m3)
    PROVE  Over(m1, m3)
BY DEF Over

\* The rows of the process list.
LEMMA ListedOver ==
    ASSUME NEW mem \in Screens, NEW table \in [1 .. VGA_HEIGHT - 1 -> BOOLEAN]
    PROVE  Listed(mem, table) \in Screens /\ Over(mem, Listed(mem, table))
<1> DEFINE start == [mem |-> vga_puts_at(mem, 0, 0, Line("list")), row |-> 1]
           A == {v \in [mem : Screens, row : Nat] : Over(mem, v.mem)}
<1>1. Listed(mem, table) = Entries!Folded(start, table).mem
  BY Zenon DEF Listed, Entries!Folded, Entries!FoldLeft, FoldLeft, Entries!MapThenFoldSet,
               MapThenFoldSet, Entries!Max, Max
<1>2. start \in A
  <2>1. /\ vga_puts_at(mem, 0, 0, Line("list")) \in Screens
        /\ Over(mem, vga_puts_at(mem, 0, 0, Line("list")))
    BY RowOver
  <2> QED BY <2>1
<1>3. table \in Seq(BOOLEAN)
  <2>1. VGA_HEIGHT - 1 \in Nat
    BY VgaAssumption
  <2> QED BY <2>1
<1>4. \A v \in A, used \in BOOLEAN : ListEntry(v, used) \in A
  <2> SUFFICES ASSUME NEW v \in A, NEW used \in BOOLEAN PROVE ListEntry(v, used) \in A
    OBVIOUS
  <2> DEFINE c == IF used THEN "list" ELSE Space
             new == vga_puts_at(v.mem, 0, v.row, Line(c))
  <2>1. v.mem \in Screens /\ v.row \in Nat /\ Over(mem, v.mem)
    OBVIOUS
  <2>2. c \in {"list", Space} /\ v.row \in Int
    BY <2>1
  <2> HIDE DEF c
  <2>3. new \in Screens /\ Over(v.mem, new)
    BY <2>1, <2>2, RowOver
  <2>4. Over(mem, new)
    BY <2>1, <2>3, OverAgain
  <2>5. ListEntry(v, used) = [mem |-> new, row |-> IF used THEN v.row + 1 ELSE v.row]
    BY DEF ListEntry, c
  <2> HIDE DEF new
  <2> QED BY <2>1, <2>3, <2>4, <2>5
<1>5. Entries!Folded(start, table) \in A
  <2> HIDE DEF A, start
  <2> QED BY <1>2, <1>3, <1>4, Entries!FoldType, Zenon
<1> HIDE DEF start
<1> QED BY <1>1, <1>5
-----------------------------------------------------------------------------
\* The fields of tty_t that tty_update works on.
Terminals == [buf : [Cell -> Glyph], x : Nat, y : 0 .. TTY_HEIGHT - 1, refresh : {0, 1},
              overrun : BOOLEAN]

\* A terminal whose cursor may have left the last row.
Below == [buf : [Cell -> Glyph], x : Nat, y : 0 .. TTY_HEIGHT, refresh : {0, 1},
          overrun : BOOLEAN]

\* The characters that are no commands for the cursor can be shown.
LEMMA PutType ==
    ASSUME NEW r \in Terminals, NEW c \in Char
    PROVE  Put(r, c) \in Below
<1> DEFINE Rec(b, x, y, o) == [buf |-> b, x |-> x, y |-> y, refresh |-> r.refresh, overrun |-> o]
<1>1. /\ r.buf \in [Cell -> Glyph] /\ r.x \in Nat /\ r.y \in 0 .. TTY_HEIGHT - 1
      /\ r.refresh \in {0, 1} /\ r.overrun \in BOOLEAN
  BY DEF Terminals
<1>0. r = Rec(r.buf, r.x, r.y, r.overrun)
  BY DEF Terminals
<1>2. TTY_WIDTH \in Nat \ {0} /\ TTY_HEIGHT \in Nat \ {0}
  BY VgaAssumption DEF TTY_WIDTH, TTY_HEIGHT
<1>3. ASSUME NEW b \in [Cell -> Glyph], NEW x \in Nat, NEW y \in 0 .. TTY_HEIGHT,
             NEW o \in BOOLEAN
      PROVE  Rec(b, x, y, o) \in Below
  BY <1>1 DEF Below
<1>4. CASE c = "tab"
  <2>1. Put(r, c) = [r EXCEPT !.x = r.x + 4 - (r.x % 4)]
    BY <1>4 DEF Put, Special
  <2>2. r.x + 4 - (r.x % 4) \in Nat /\ r.y \in 0 .. TTY_HEIGHT
    BY <1>1, <1>2
  <2>3. Put(r, c) = Rec(r.buf, r.x + 4 - (r.x % 4), r.y, r.overrun)
    BY <1>0, <2>1
  <2> QED BY <1>1, <1>3, <2>2, <2>3
<1>5. CASE c = "bs"
  <2>1. CASE r.x # 0
    <3>1. Put(r, c) = [r EXCEPT !.x = r.x - 1]
      BY <1>5, <2>1 DEF Put, Special
    <3>2. Put(r, c) = Rec(r.buf, r.x - 1, r.y, r.overrun)
      BY <1>0, <3>1
    <3>3. r.x - 1 \in Nat /\ r.y \in 0 .. TTY_HEIGHT
      BY <1>1, <1>2, <2>1
    <3> QED BY <1>1, <1>3, <3>2, <3>3
  <2>2. CASE r.x = 0 /\ r.y # 0
    <3>1. Put(r, c) = [r EXCEPT !.y = r.y - 1, !.x = TTY_WIDTH - 1]
      BY <1>5, <2>2 DEF Put, Special
    <3>2. r.y - 1 \in 0 .. TTY_HEIGHT /\ TTY_WIDTH - 1 \in Nat
      BY <1>1, <1>2, <2>2
    <3>3. Put(r, c) = Rec(r.buf, TTY_WIDTH - 1, r.y - 1, r.overrun)
      BY <1>0, <3>1
    <3> QED BY <1>1, <1>3, <3>2, <3>3
  <2>3. CASE r.x = 0 /\ r.y = 0
    <3>1. Put(r, c) = r
      BY <1>5, <2>3 DEF Put, Special
    <3>2. r.y \in 0 .. TTY_HEIGHT
      BY <1>1, <1>2
    <3> QED BY <1>0, <1>1, <1>3, <3>1, <3>2
  <2> QED BY <2>1, <2>2, <2>3
<1>6. CASE c = "cr"
  <2>1. Put(r, c) = [r EXCEPT !.x = 0]
    BY <1>6 DEF Put, Special
  <2>2. Put(r, c) = Rec(r.buf, 0, r.y, r.overrun)
    BY <1>0, <2>1
  <2>3. r.y \in 0 .. TTY_HEIGHT /\ 0 \in Nat
    BY <1>1, <1>2
  <2> QED BY <1>1, <1>3, <2>2, <2>3
<1>7. CASE c = "nl"
  <2>1. Put(r, c) = [r EXCEPT !.y = r.y + 1, !.x = 0]
    BY <1>7 DEF Put, Special
  <2>2. r.y + 1 \in 0 .. TTY_HEIGHT /\ 0 \in Nat
    BY <1>1, <1>2
  <2>3. Put(r, c) = Rec(r.buf, 0, r.y + 1, r.overrun)
    BY <1>0, <2>1
  <2> QED BY <1>1, <1>3, <2>2, <2>3
<1>8. CASE c \notin Special
  <2> DEFINE at == r.x + r.y * TTY_WIDTH
  <2>1. Put(r, c) = IF at \in Cell THEN [r EXCEPT !.buf = [r.buf EXCEPT ![at] = c], !.x = r.x + 1]
                    ELSE [r EXCEPT !.overrun = TRUE, !.x = r.x + 1]
    BY <1>8 DEF Put, Special
  <2>2. [r.buf EXCEPT ![at] = c] \in [Cell -> Glyph]
    BY <1>1, <1>8 DEF Glyph
  <2>3. r.x + 1 \in Nat /\ r.y \in 0 .. TTY_HEIGHT
    BY <1>1, <1>2
  <2> HIDE DEF at
  <2>4. CASE at \in Cell
    <3>1. Put(r, c) = Rec([r.buf EXCEPT ![at] = c], r.x + 1, r.y, r.overrun)
      BY <1>0, <2>1, <2>4
    <3> QED BY <1>1, <1>3, <2>2, <2>3, <3>1
  <2>5. CASE at \notin Cell
    <3>1. Put(r, c) = Rec(r.buf, r.x + 1, r.y, TRUE)
      BY <1>0, <2>1, <2>5
    <3> QED BY <1>1, <1>3, <2>3, <3>1
  <2> QED BY <2>4, <2>5
<1> QED BY <1>4, <1>5, <1>6, <1>7, <1>8 DEF Special

\* Scrolling brings the cursor back to the last row.
LEMMA ScrollType ==
    ASSUME NEW r \in Below
    PROVE  Scroll(r) \in Terminals
<1>1. TTY_WIDTH \in Nat \ {0} /\ TTY_HEIGHT \in Nat \ {0}
  BY VgaAssumption DEF TTY_WIDTH, TTY_HEIGHT
<1>2. /\ r.buf \in [Cell -> Glyph] /\ r.x \in Nat /\ r.y \in 0 .. TTY_HEIGHT
      /\ r.refresh \in {0, 1} /\ r.overrun \in BOOLEAN
      /\ r = [buf |-> r.buf, x |-> r.x, y |-> r.y, refresh |-> r.refresh, overrun |-> r.overrun]
  BY DEF Below
<1>3. CASE r.y < TTY_HEIGHT
  <2>1. Scroll(r) = r /\ r.y \in 0 .. TTY_HEIGHT - 1
    BY <1>1, <1>2, <1>3 DEF Scroll
  <2> QED BY <1>2, <2>1 DEF Terminals
<1>4. CASE ~(r.y < TTY_HEIGHT)
  <2> DEFINE up == [i \in Cell |-> IF i + TTY_WIDTH \in Cell THEN r.buf[i + TTY_WIDTH]
                                   ELSE Space]
  <2>1. up \in [Cell -> Glyph]
    BY <1>2 DEF Glyph
  <2>2. Scroll(r) = [r EXCEPT !.y = TTY_HEIGHT - 1, !.buf = up]
    BY <1>4 DEF Scroll
  <2> HIDE DEF up
  <2>3. TTY_HEIGHT - 1 \in 0 .. TTY_HEIGHT - 1
    BY <1>1
  <2>4. Scroll(r) = [buf |-> up, x |-> r.x, y |-> TTY_HEIGHT - 1, refresh |-> r.refresh,
                     overrun |-> r.overrun]
    BY <1>2, <2>2
  <2> QED BY <1>2, <2>1, <2>3, <2>4 DEF Terminals
<1> QED BY <1>3, <1>4

\* A character leaves the cursor in a row of the terminal, which is to be painted.
LEMMA UpdateType ==
    \A r \in Terminals, c \in Char :
        tty_update(r, c) \in Terminals /\ tty_update(r, c).refresh = 1
<1> SUFFICES ASSUME NEW r \in Terminals, NEW c \in Char
             PROVE  tty_update(r, c) \in Terminals /\ tty_update(r, c).refresh = 1
  OBVIOUS
<1> DEFINE new == Scroll(Put(r, c))
<1>1. new \in Terminals
  BY PutType, ScrollType
<1>2. tty_update(r, c) = [new EXCEPT !.refresh = 1]
  BY DEF tty_update
<1> HIDE DEF new
<1>3. new = [buf |-> new.buf, x |-> new.x, y |-> new.y, refresh |-> new.refresh,
             overrun |-> new.overrun]
  BY <1>1 DEF Terminals
<1>4. tty_update(r, c) = [buf |-> new.buf, x |-> new.x, y |-> new.y, refresh |-> 1,
                          overrun |-> new.overrun]
  BY <1>2, <1>3
<1> QED BY <1>1, <1>4 DEF Terminals

\* tty_refresh drains the output of a terminal.
Drained(r, s) == FoldLeft(tty_update, r, s)

\* The drained characters leave a terminal, which is to be painted if there
\* were any, and is as it was if there were none.
LEMMA DrainType ==
    ASSUME NEW r \in Terminals, NEW s \in Seq(Char)
    PROVE  /\ Drained(r, s) \in Terminals
           /\ Drained(r, s).refresh = 1 \/ (s = <<>> /\ Drained(r, s) = r)
<1>1. \A q, z : Drained(q, z) = Updates!Folded(q, z)
  BY Zenon DEF Drained, Updates!Folded, Updates!FoldLeft, FoldLeft, Updates!MapThenFoldSet,
               MapThenFoldSet, Updates!Max, Max
<1>2. PICK f \in [0 .. Len(s) -> Terminals] : Updates!Trace(f, r, s)
  BY UpdateType, Updates!Fold, Zenon
<1>3. /\ f[0] = r /\ Drained(r, s) = f[Len(s)]
      /\ \A n \in 1 .. Len(s) : f[n] = tty_update(f[n - 1], s[n])
  BY <1>1, <1>2 DEF Updates!Trace
<1>4. Len(s) \in Nat
  OBVIOUS
<1>5. CASE Len(s) = 0
  <2>1. s = <<>>
    BY <1>5
  <2> QED BY <1>3, <1>5, <2>1
<1>6. CASE Len(s) # 0
  <2>1. Len(s) \in 1 .. Len(s) /\ Len(s) - 1 \in 0 .. Len(s)
    BY <1>4, <1>6
  <2>2. f[Len(s)] = tty_update(f[Len(s) - 1], s[Len(s)])
    BY <1>3, <2>1
  <2>3. s[Len(s)] \in Char /\ f[Len(s) - 1] \in Terminals
    BY <2>1, ElementOfSeq
  <2> QED BY <1>3, <2>2, <2>3, UpdateType
<1> QED BY <1>5, <1>6
-----------------------------------------------------------------------------
\* The sequences up to a length.
LEMMA Bounded ==
    ASSUME NEW S, NEW n \in Nat
    PROVE  /\ <<>> \in BoundedSeq(S, n)
           /\ \A s : s \in BoundedSeq(S, n) <=> s \in Seq(S) /\ Len(s) <= n
<1>1. ASSUME NEW s \in BoundedSeq(S, n) PROVE s \in Seq(S) /\ Len(s) <= n
  BY DEF BoundedSeq, SeqOf
<1>2. ASSUME NEW s \in Seq(S), Len(s) <= n PROVE s \in BoundedSeq(S, n)
  <2>1. Len(s) \in 0 .. n /\ s \in [1 .. Len(s) -> S]
    BY <1>2
  <2> QED BY <2>1, Zenon DEF BoundedSeq, SeqOf
<1>3. <<>> \in Seq(S) /\ Len(<<>>) <= n
  OBVIOUS
<1> QED BY <1>1, <1>2, <1>3

\* The output of a terminal is a sequence of characters.
LEMMA OutputType ==
    ASSUME TtyTypeOK, NEW t \in TtyId
    PROVE  io_output[t] \in Seq(Char) /\ Len(io_output[t]) <= RINGBUF_SIZE
<1>1. RINGBUF_SIZE \in Nat /\ io_output[t] \in BoundedSeq(Char, RINGBUF_SIZE)
  BY TtyAssumption DEF TtyTypeOK
<1> QED BY <1>1, Bounded

\* What a test callback may draw on the screen.
DrawStep == \E mem \in Screens :
               /\ \A i \in ScreenCell :
                     \/ mem[i] = screen[i]
                     \/ i = VGA_WIDTH - 1 /\ mem[i] = "spin"
                     \/ i = CLOCK_COLUMN /\ mem[i] = "clock"
                     \/ active_tty = 0 /\ \/ mem[i] \in {"list", Space} /\ i % VGA_WIDTH # VGA_WIDTH - 1
                                          \/ mem[i] = Space /\ i >= VGA_WIDTH
               /\ screen' = mem
               /\ UNCHANGED <<active_tty, terminal, io_output, output>>

\* Any step of the terminals, whoever writes.
TtyStep == \/ \E n \in TtyId : tty_select(n)
           \/ \E t \in TtyId, s \in Seq(Char) : ksyscall_io_write(t, s)
           \/ \E t \in TtyId : ksyscall_io_flush(t)
           \/ tty_refresh
           \/ DrawStep
           \/ UNCHANGED vars

\* A character at a place of the first row.
LEMMA FirstRow ==
    ASSUME NEW mem \in Screens, NEW x \in 0 .. VGA_WIDTH - 1, NEW c \in Picture
    PROVE  /\ vga_putc_at(mem, x, 0, c) = [mem EXCEPT ![x] = c]
           /\ vga_puts_at(mem, x, 0, <<c>>) = [mem EXCEPT ![x] = c]
<1>1. VGA_WIDTH \in Nat \ {0} /\ VGA_HEIGHT \in Nat \ {0}
  BY VgaAssumption
<1>2. 0 \in 0 .. VGA_HEIGHT - 1 /\ x + 0 * VGA_WIDTH = x
  BY <1>1
<1>3. vga_putc_at(mem, x, 0, c) = [mem EXCEPT ![x + 0 * VGA_WIDTH] = c]
  BY <1>2, PutcAt
<1>4. At(mem, x, 0) \in Positions
  BY AtType
<1>5. Puts!Folded(At(mem, x, 0), <<c>>) = vga_putc(At(mem, x, 0), c)
  <2> DEFINE v == At(mem, x, 0)
  <2> HIDE DEF v
  <2>1. \A a \in Positions, d \in Picture : vga_putc(a, d) \in Positions
    BY PutcType
  <2>2. v \in Positions
    BY <1>4 DEF v
  <2>3. c \in Picture
    OBVIOUS
  <2>4. Puts!Folded(v, <<>>) = v /\ Puts!Folded(v, <<c>>) = vga_putc(v, c)
    BY <2>1, <2>2, <2>3, Puts!FoldOne
  <2> QED BY <2>4 DEF v
<1>6. vga_puts_at(mem, x, 0, <<c>>) = vga_putc_at(mem, x, 0, c)
  BY <1>5, PutsFolds DEF vga_putc_at
<1> QED BY <1>2, <1>3, <1>6

\* The callbacks of test.h draw no more than that.
LEMMA CallbackDraws ==
    ASSUME TtyTypeOK, test_spinner \/ test_timer \/ test_proc_list
    PROVE  DrawStep
<1>1. screen \in Screens
  BY DEF TtyTypeOK, Screens, Picture
<1>2. {VGA_WIDTH, VGA_HEIGHT} \subseteq Nat \ {0} /\ CLOCK_COLUMN \in 0 .. VGA_WIDTH - 1
  BY VgaAssumption, TtyAssumption
<1>3. "spin" \in Picture /\ "clock" \in Picture /\ VGA_WIDTH - 1 \in 0 .. VGA_WIDTH - 1
  BY <1>2 DEF Picture
<1>4. CASE test_spinner
  <2> DEFINE mem == [screen EXCEPT ![VGA_WIDTH - 1] = "spin"]
  <2>1. screen' = mem /\ UNCHANGED <<active_tty, terminal, io_output, output>>
    BY <1>1, <1>3, <1>4, FirstRow DEF test_spinner, Draw
  <2>2. mem \in Screens
    BY <1>1, <1>3 DEF Screens
  <2>3. \A i \in ScreenCell : mem[i] = screen[i] \/ (i = VGA_WIDTH - 1 /\ mem[i] = "spin")
    BY <1>1 DEF Screens
  <2> HIDE DEF mem
  <2> QED BY <2>1, <2>2, <2>3 DEF DrawStep
<1>5. CASE test_timer
  <2> DEFINE mem == [screen EXCEPT ![CLOCK_COLUMN] = "clock"]
  <2>1. screen' = mem /\ UNCHANGED <<active_tty, terminal, io_output, output>>
    BY <1>1, <1>2, <1>3, <1>5, FirstRow DEF test_timer, Draw
  <2>2. mem \in Screens
    BY <1>1, <1>3 DEF Screens
  <2>3. \A i \in ScreenCell : mem[i] = screen[i] \/ (i = CLOCK_COLUMN /\ mem[i] = "clock")
    BY <1>1 DEF Screens
  <2> HIDE DEF mem
  <2> QED BY <2>1, <2>2, <2>3 DEF DrawStep
<1>6. CASE test_proc_list
  <2>1. PICK second \in BOOLEAN, table \in [1 .. VGA_HEIGHT - 1 -> BOOLEAN] :
            Draw(Listed(IF second THEN Cleared(screen) ELSE screen, table))
    BY <1>6 DEF test_proc_list
  <2> DEFINE start == IF second THEN Cleared(screen) ELSE screen
             mem == Listed(start, table)
  <2>2. /\ start \in Screens
        /\ \A i \in ScreenCell : start[i] = screen[i] \/ (start[i] = Space /\ i >= VGA_WIDTH)
    <3>1. CASE second
      <4>1. Space \in Picture
        BY DEF Picture, Glyph
      <4>2. start = [i \in ScreenCell |-> IF i < VGA_WIDTH THEN screen[i] ELSE Space]
        BY <3>1 DEF Cleared
      <4>3. \A i \in ScreenCell : i \in Int
        BY <1>2 DEF ScreenCell
      <4> HIDE DEF start
      <4> QED BY <1>1, <1>2, <4>1, <4>2, <4>3 DEF Screens
    <3>2. CASE ~second
      BY <1>1, <3>2
    <3> QED BY <3>1, <3>2
  <2> HIDE DEF start
  <2>3. mem \in Screens /\ Over(start, mem)
    BY <2>2, ListedOver
  <2>4. screen' = mem /\ UNCHANGED <<active_tty, terminal, io_output, output>> /\ active_tty = 0
    BY <2>1, <1>6 DEF Draw, start, test_proc_list
  <2> HIDE DEF mem
  <2>5. ASSUME NEW i \in ScreenCell
        PROVE  \/ mem[i] = screen[i]
               \/ active_tty = 0 /\ \/ mem[i] \in {"list", Space} /\ i % VGA_WIDTH # VGA_WIDTH - 1
                                    \/ mem[i] = Space /\ i >= VGA_WIDTH
    BY <2>2, <2>3, <2>4 DEF Over
  <2> QED BY <2>3, <2>4, <2>5 DEF DrawStep
<1> QED BY <1>4, <1>5, <1>6
-----------------------------------------------------------------------------
\* The text is made of characters.
TextType == text \in [TtyId -> Seq(Char)]

\* The fields of terminal t.
Terminal(t) == [buf |-> cells[t], x |-> pos_x[t], y |-> pos_y[t], refresh |-> refresh[t],
                overrun |-> overrun]

\* The characters are shown by tty_update, and the screen painted by
\* vga_putc_at, if there were any or the terminal has been selected.
LEMMA Refreshed ==
    ASSUME TtyTypeOK, tty_refresh
    PROVE  LET t == active_tty
               s == io_output[t]
               r == Drained(Terminal(t), s)
           IN  /\ r \in Terminals
               /\ r.refresh = 1 \/ (s = <<>> /\ r = Terminal(t))
               /\ Paint(r.buf) \in Screens
               /\ \A i \in ScreenCell : Paint(r.buf)[i] = r.buf[i]
<1> DEFINE t == active_tty
           s == io_output[t]
           r == Drained(Terminal(t), s)
<1>1. t \in TtyId /\ Terminal(t) \in Terminals /\ screen \in Screens
  BY DEF TtyTypeOK, Terminal, Terminals, Screens, Picture
<1>2. s \in Seq(Char)
  BY <1>1, OutputType
<1>3. r \in Terminals /\ (r.refresh = 1 \/ (s = <<>> /\ r = Terminal(t)))
  BY <1>1, <1>2, DrainType
<1>4. r.buf \in [Cell -> Glyph]
  BY <1>3 DEF Terminals
<1> HIDE DEF r
<1>5. Paint(r.buf) \in Screens /\ \A i \in ScreenCell : Paint(r.buf)[i] = r.buf[i]
  BY <1>1, <1>4, Painted
<1> QED BY <1>3, <1>5 DEF r

\* What tty_refresh makes of the state.
LEMMA RefreshStep ==
    ASSUME tty_refresh
    PROVE  LET t == active_tty
               r == Drained(Terminal(t), io_output[t])
           IN  /\ io_output' = [io_output EXCEPT ![t] = <<>>]
               /\ cells' = [cells EXCEPT ![t] = r.buf]
               /\ pos_x' = [pos_x EXCEPT ![t] = r.x]
               /\ pos_y' = [pos_y EXCEPT ![t] = r.y]
               /\ refresh' = [refresh EXCEPT ![t] = 0]
               /\ screen' = IF r.refresh = 1 THEN Paint(r.buf) ELSE screen
               /\ overrun' = r.overrun
               /\ text' = [text EXCEPT ![t] = @ \o io_output[t]]
               /\ UNCHANGED <<active_tty, output>>
BY DEF tty_refresh, Drained, Terminal

\* Every step keeps the types.
LEMMA TtyTypeStep == TtyTypeOK /\ TextType /\ TtyStep => TtyTypeOK' /\ TextType'
<1> SUFFICES ASSUME TtyTypeOK, TextType, TtyStep PROVE TtyTypeOK' /\ TextType'
  OBVIOUS
<1>0. RINGBUF_SIZE \in Nat
  BY TtyAssumption
<1>1. ASSUME NEW n \in TtyId, tty_select(n) PROVE TtyTypeOK' /\ TextType'
  BY <1>1 DEF tty_select, TtyTypeOK, TextType
<1>2. ASSUME NEW t \in TtyId, NEW s \in Seq(Char), ksyscall_io_write(t, s)
      PROVE  TtyTypeOK' /\ TextType'
  <2>1. io_output[t] \in Seq(Char)
    BY OutputType
  <2>2. io_output[t] \o s \in Seq(Char) /\ Len(io_output[t] \o s) = Len(io_output[t]) + Len(s)
    BY <2>1
  <2>3. io_output[t] \o s \in BoundedSeq(Char, RINGBUF_SIZE)
    BY <1>0, <1>2, <2>2, Bounded DEF ksyscall_io_write
  <2> DEFINE new == io_output[t] \o s
  <2>4. io_output' = [io_output EXCEPT ![t] = new]
    BY <1>2 DEF ksyscall_io_write
  <2>5. UNCHANGED <<active_tty, terminal, screen, output>>
    BY <1>2 DEF ksyscall_io_write
  <2> HIDE DEF new
  <2> QED BY <2>3, <2>4, <2>5 DEF TtyTypeOK, TextType, terminal, new
<1>3. ASSUME NEW t \in TtyId, ksyscall_io_flush(t) PROVE TtyTypeOK' /\ TextType'
  <2>1. <<>> \in BoundedSeq(Char, RINGBUF_SIZE)
    BY <1>0, Bounded
  <2> QED BY <1>3, <2>1 DEF ksyscall_io_flush, TtyTypeOK, TextType, terminal
<1>4. CASE tty_refresh
  <2> DEFINE t == active_tty
             s == io_output[t]
             r == Drained(Terminal(t), s)
  <2>1. /\ r \in Terminals /\ Paint(r.buf) \in Screens /\ t \in TtyId
    BY <1>4, Refreshed DEF TtyTypeOK
  <2>2. /\ io_output' = [io_output EXCEPT ![t] = <<>>]
        /\ cells' = [cells EXCEPT ![t] = r.buf]
        /\ pos_x' = [pos_x EXCEPT ![t] = r.x]
        /\ pos_y' = [pos_y EXCEPT ![t] = r.y]
        /\ refresh' = [refresh EXCEPT ![t] = 0]
        /\ screen' = IF r.refresh = 1 THEN Paint(r.buf) ELSE screen
        /\ overrun' = r.overrun
        /\ text' = [text EXCEPT ![t] = @ \o s]
        /\ UNCHANGED <<active_tty, output>>
    BY <1>4, RefreshStep
  <2>3. <<>> \in BoundedSeq(Char, RINGBUF_SIZE) /\ s \in Seq(Char)
    BY <1>0, <2>1, Bounded, OutputType
  <2> HIDE DEF r, s, t
  <2>4. /\ r.buf \in [Cell -> Glyph] /\ r.x \in Nat /\ r.y \in 0 .. TTY_HEIGHT - 1
        /\ r.overrun \in BOOLEAN
    BY <2>1 DEF Terminals
  <2>5. text[t] \o s \in Seq(Char)
    BY <2>1, <2>3 DEF TextType
  <2>6. TextType'
    BY <2>2, <2>5 DEF TextType
  <2>7. TtyTypeOK'
    BY <2>1, <2>2, <2>3, <2>4 DEF TtyTypeOK, Screens, Picture
  <2> QED BY <2>6, <2>7
<1>5. CASE DrawStep
  BY <1>5 DEF DrawStep, TtyTypeOK, TextType, Screens, Picture, terminal
<1>6. CASE UNCHANGED vars
  BY <1>6 DEF vars, TtyTypeOK, TextType, terminal
<1> QED BY <1>1, <1>2, <1>3, <1>4, <1>5, <1>6 DEF TtyStep

\* The screen shows the active terminal unless it is to be painted.
InSync == refresh[active_tty] = 0 =>
              \A i \in ScreenCell : screen[i] = cells[active_tty][i] \/ Overlay(i)

\* Every step keeps the screen in sync: a terminal that is selected is to be
\* painted, and nothing but a test callback draws on the screen otherwise.
LEMMA SyncStep == TtyTypeOK /\ InSync /\ TtyStep => InSync'
<1> SUFFICES ASSUME TtyTypeOK, InSync, TtyStep PROVE InSync'
  OBVIOUS
<1>1. ASSUME NEW n \in TtyId, tty_select(n) PROVE InSync'
  BY <1>1 DEF tty_select, InSync, TtyTypeOK
<1>2. ASSUME UNCHANGED <<active_tty, refresh, cells, screen>> PROVE InSync'
  BY <1>2 DEF InSync, Overlay
<1>3. ASSUME NEW t \in TtyId, NEW s \in Seq(Char), ksyscall_io_write(t, s) PROVE InSync'
  BY <1>2, <1>3 DEF ksyscall_io_write, terminal
<1>4. ASSUME NEW t \in TtyId, ksyscall_io_flush(t) PROVE InSync'
  BY <1>2, <1>4 DEF ksyscall_io_flush, terminal
<1>5. CASE tty_refresh
  <2> DEFINE t == active_tty
             s == io_output[t]
             r == Drained(Terminal(t), s)
  <2>1. /\ r.refresh = 1 \/ (s = <<>> /\ r = Terminal(t))
        /\ \A i \in ScreenCell : Paint(r.buf)[i] = r.buf[i]
        /\ t \in TtyId /\ cells \in [TtyId -> [Cell -> Glyph]] /\ refresh \in [TtyId -> {0, 1}]
    BY <1>5, Refreshed DEF TtyTypeOK
  <2>2. /\ cells' = [cells EXCEPT ![t] = r.buf]
        /\ refresh' = [refresh EXCEPT ![t] = 0]
        /\ screen' = IF r.refresh = 1 THEN Paint(r.buf) ELSE screen
        /\ active_tty' = t
    BY <1>5, RefreshStep
  <2> HIDE DEF r, s
  <2>3. CASE r.refresh = 1
    <3>1. cells'[active_tty'] = r.buf /\ screen' = Paint(r.buf)
      BY <2>1, <2>2, <2>3
    <3> QED BY <2>1, <3>1 DEF InSync
  <2>4. CASE r.refresh # 1
    <3>1. r = Terminal(t)
      BY <2>1, <2>4
    <3>2. r.refresh = refresh[t] /\ r.buf = cells[t]
      BY <3>1 DEF Terminal
    <3>3. refresh[t] = 0
      BY <2>1, <2>4, <3>2
    <3>4. screen' = screen /\ cells' = cells /\ refresh' = refresh
      BY <2>1, <2>2, <2>4, <3>2, <3>3
    <3> QED BY <1>2, <2>2, <3>4
  <2> QED BY <2>3, <2>4
<1>6. CASE DrawStep
  <2> SUFFICES ASSUME refresh'[active_tty'] = 0, NEW i \in ScreenCell
               PROVE  screen'[i] = cells'[active_tty'][i] \/ Overlay(i)'
    BY DEF InSync
  <2>1. /\ \/ screen'[i] = screen[i]
           \/ i = VGA_WIDTH - 1 /\ screen'[i] = "spin"
           \/ i = CLOCK_COLUMN /\ screen'[i] = "clock"
           \/ active_tty = 0 /\ \/ screen'[i] \in {"list", Space} /\ i % VGA_WIDTH # VGA_WIDTH - 1
                                \/ screen'[i] = Space /\ i >= VGA_WIDTH
        /\ UNCHANGED <<active_tty, refresh, cells>>
    BY <1>6 DEF DrawStep, terminal
  <2>2. screen[i] = cells[active_tty][i] \/ Overlay(i)
    BY <2>1 DEF InSync
  <2> QED BY <2>1, <2>2 DEF Overlay
<1>7. CASE UNCHANGED vars
  BY <1>2, <1>7 DEF vars, terminal
<1> QED BY <1>1, <1>3, <1>4, <1>5, <1>6, <1>7 DEF TtyStep
-----------------------------------------------------------------------------
\* What a key that is used can type under any modifiers.
LEMMA KeyTypes ==
    ASSUME ConsoleTypeOK, NEW k \in keys
    PROVE  /\ Bit(k) \in Momentary \cup Toggled \cup {"none"}
           /\ Down \subseteq Momentary
           /\ Seen(k) \in Char \cup {KEY_NULL, KEY_ESCAPE}
           /\ Meant(k) \in Char \cup {KEY_NULL, KEY_ESCAPE}
<1>1. /\ keys \in KeyChoices /\ kbd_status \in SUBSET (Momentary \cup Toggled)
      /\ locks \subseteq Toggled
  BY DEF ConsoleTypeOK
<1>2. Down \subseteq Momentary
  BY DEF Down
<1>3. Down \cup locks \in SUBSET (Momentary \cup Toggled)
  BY <1>1, <1>2
<1>4. Bit(k) \in Momentary \cup Toggled \cup {"none"}
  BY DEF Bit, Momentary, Toggled
<1>5. \A status \in SUBSET (Momentary \cup Toggled) :
          Character(k, status) \in Char \cup {KEY_NULL, KEY_ESCAPE}
  BY <1>1, KeyAssumption
<1>6. Character(k, kbd_status) \in Char \cup {KEY_NULL, KEY_ESCAPE}
  BY <1>1, <1>5
<1>7. Character(k, Down \cup locks) \in Char \cup {KEY_NULL, KEY_ESCAPE}
  BY <1>3, <1>5
<1> QED BY <1>2, <1>4, <1>6, <1>7 DEF Seen, Meant

\* The types of the state that the keyboard changes.
KeyTypeOK == /\ kbd_status \subseteq Momentary \cup Toggled
             /\ esc_status \in 0 .. 3
             /\ exited = (esc_status = 3)
             /\ io_input \in [TtyId -> BoundedSeq(Char, RINGBUF_SIZE)]
             /\ typed \in [TtyId -> Seq(Char)]

\* A character that is typed stays within the buffer.
LEMMA InputType ==
    ASSUME ConsoleTypeOK, NEW c \in Char, tty_input(c)
    PROVE  io_input' \in [TtyId -> BoundedSeq(Char, RINGBUF_SIZE)]
<1> DEFINE t == active_tty
           new == IF Len(io_input[t]) = RINGBUF_SIZE THEN io_input[t] ELSE Append(io_input[t], c)
<1>1. /\ RINGBUF_SIZE \in Nat /\ t \in TtyId
      /\ io_input \in [TtyId -> BoundedSeq(Char, RINGBUF_SIZE)]
  BY TtyAssumption DEF ConsoleTypeOK, TtyTypeOK
<1>2. io_input[t] \in Seq(Char) /\ Len(io_input[t]) <= RINGBUF_SIZE
  BY <1>1, Bounded
<1>3. new \in Seq(Char) /\ Len(new) <= RINGBUF_SIZE
  BY <1>1, <1>2
<1>4. new \in BoundedSeq(Char, RINGBUF_SIZE)
  <2> HIDE DEF new
  <2> QED BY <1>1, <1>3, Bounded
<1>5. io_input' = [io_input EXCEPT ![t] = new]
  BY DEF tty_input
<1> HIDE DEF new, t
<1> QED BY <1>1, <1>4, <1>5

\* The make code of a key changes no shell, and of the terminals only which
\* one is active.
LEMMA MakeCodeType ==
    ASSUME ConsoleTypeOK, ~exited, NEW k \in keys, MakeCode(k)
    PROVE  KeyTypeOK' /\ TtyStep /\ UNCHANGED <<shell, commands>>
<1> DEFINE Io == io_input' \in [TtyId -> BoundedSeq(Char, RINGBUF_SIZE)]
           Kbd == kbd_status' \subseteq Momentary \cup Toggled
           Esc == esc_status' \in 0 .. 3 /\ exited' = (esc_status' = 3)
<1>0. esc_status # 3 /\ exited = FALSE
  BY Zenon DEF ConsoleTypeOK
<1>1. /\ kbd_status \subseteq Momentary \cup Toggled /\ esc_status \in 0 .. 2
      /\ io_input \in [TtyId -> BoundedSeq(Char, RINGBUF_SIZE)]
      /\ typed \in [TtyId -> Seq(Char)] /\ active_tty \in TtyId
  BY <1>0 DEF ConsoleTypeOK, TtyTypeOK
<1>2. typed' \in [TtyId -> Seq(Char)]
  <2>1. CASE Meant(k) # "nl" /\ IsInput(Meant(k), Down)
    <3>1. Meant(k) \in Char
      BY <2>1, KeyTypes DEF IsInput
    <3>2. typed' = [typed EXCEPT ![active_tty] = Append(@, Meant(k))]
      BY <2>1 DEF MakeCode
    <3> QED BY <1>1, <3>1, <3>2
  <2>2. CASE ~(Meant(k) # "nl" /\ IsInput(Meant(k), Down))
    <3>1. typed' = typed
      BY <2>2 DEF MakeCode
    <3> QED BY <1>1, <3>1
  <2> QED BY <2>1, <2>2
<1>3. ASSUME Io, Kbd, Esc PROVE KeyTypeOK'
  BY <1>2, <1>3, Zenon DEF KeyTypeOK
<1>4. ASSUME exited' = exited, esc_status' = esc_status \/ esc_status' = 0 PROVE Esc
  <2>1. esc_status' \in 0 .. 3 /\ esc_status' # 3 /\ exited' = FALSE
    BY <1>0, <1>1, <1>4
  <2> QED BY <2>1, Zenon
<1>5. CASE StatusKey(k)
  <2>1. UNCHANGED <<escVars, inputVars, vars>>
    BY <1>5 DEF StatusKey
  <2>2. Kbd
    BY <1>1, <1>5 DEF StatusKey
  <2>3. Io /\ Esc /\ TtyStep /\ UNCHANGED <<shell, commands>>
    BY <1>1, <1>4, <2>1 DEF TtyStep, escVars, inputVars
  <2> QED BY <1>3, <2>2, <2>3
<1>6. CASE SelectKey(k)
  <2>1. UNCHANGED <<kbd_status, escVars, inputVars>> /\ \E n \in TtyId : tty_select(n)
    BY <1>6 DEF SelectKey
  <2>2. Io /\ Kbd /\ Esc /\ TtyStep /\ UNCHANGED <<shell, commands>>
    BY <1>1, <1>4, <2>1 DEF TtyStep, escVars, inputVars
  <2> QED BY <1>3, <2>2
<1>7. CASE EscapeKey(k)
  <2>1. /\ UNCHANGED <<kbd_status, inputVars, vars>>
        /\ esc_status' = esc_status + 1
        /\ exited' = (esc_status + 1 = 3)
    BY <1>7 DEF EscapeKey
  <2>2. esc_status' \in 0 .. 3
    BY <1>1, <2>1
  <2>3. exited' = (esc_status' = 3)
    BY <2>1, Zenon
  <2>4. Io /\ Kbd /\ TtyStep /\ UNCHANGED <<shell, commands>>
    BY <1>1, <2>1 DEF TtyStep, inputVars
  <2> QED BY <1>3, <2>2, <2>3, <2>4
<1>8. CASE OtherKey(k)
  <2>1. /\ UNCHANGED <<kbd_status, exited, inputVars, vars>>
        /\ esc_status' = esc_status \/ esc_status' = 0
    BY <1>8 DEF OtherKey
  <2>2. Io /\ Kbd /\ Esc /\ TtyStep /\ UNCHANGED <<shell, commands>>
    BY <1>1, <1>4, <2>1 DEF TtyStep, inputVars
  <2> QED BY <1>3, <2>2
<1>9. CASE InputKey(k)
  <2>1. /\ UNCHANGED <<kbd_status, exited, shell, commands, vars>>
        /\ esc_status' = 0 /\ tty_input(Seen(k)) /\ IsInput(Seen(k), kbd_status)
    BY <1>9 DEF InputKey
  <2>2. Seen(k) \in Char
    BY <2>1, KeyTypes DEF IsInput
  <2>3. Io
    BY <2>1, <2>2, InputType
  <2>4. Kbd /\ Esc /\ TtyStep /\ UNCHANGED <<shell, commands>>
    BY <1>1, <1>4, <2>1 DEF TtyStep
  <2> QED BY <1>3, <2>3, <2>4
<1> QED BY <1>5, <1>6, <1>7, <1>8, <1>9 DEF MakeCode

\* So does a key that is pressed, repeated or released.
LEMMA KeyStepType ==
    ASSUME ConsoleTypeOK, ~exited, ~lossy, KeyStep
    PROVE  /\ KeyTypeOK' /\ TtyStep /\ UNCHANGED <<keys, shell, commands>>
           /\ held' \subseteq keys /\ lossy' \in BOOLEAN
<1>1. held \subseteq keys /\ lossy = FALSE /\ UNCHANGED keys
  BY DEF ConsoleTypeOK, KeyStep
<1>2. ASSUME NEW k \in keys, Press(k)
      PROVE  /\ KeyTypeOK' /\ TtyStep /\ UNCHANGED <<shell, commands>>
             /\ held' \subseteq keys /\ lossy' \in BOOLEAN
  <2>1. MakeCode(k) /\ held' = held \cup {k}
    BY <1>2 DEF Press
  <2>2. lossy' \in BOOLEAN
    BY <1>2, Zenon DEF Press
  <2>3. KeyTypeOK' /\ TtyStep /\ UNCHANGED <<shell, commands>>
    BY <2>1, MakeCodeType
  <2> QED BY <1>1, <2>1, <2>2, <2>3
<1>3. ASSUME NEW k \in keys, Repeat(k)
      PROVE  /\ KeyTypeOK' /\ TtyStep /\ UNCHANGED <<shell, commands>>
             /\ held' \subseteq keys /\ lossy' \in BOOLEAN
  <2>1. MakeCode(k) /\ held' = held
    BY <1>3 DEF Repeat
  <2>2. lossy' \in BOOLEAN
    BY <1>3, Zenon DEF Repeat, Dropped
  <2>3. KeyTypeOK' /\ TtyStep /\ UNCHANGED <<shell, commands>>
    BY <2>1, MakeCodeType
  <2> QED BY <1>1, <2>1, <2>2, <2>3
<1>4. ASSUME NEW k \in keys, Release(k)
      PROVE  /\ KeyTypeOK' /\ TtyStep /\ UNCHANGED <<shell, commands>>
             /\ held' \subseteq keys /\ lossy' \in BOOLEAN
  <2>1. /\ held' = held \ {k} /\ kbd_status' = kbd_status \ ({Bit(k)} \cap Momentary)
        /\ UNCHANGED <<escVars, inputVars, vars, typed, lossy>>
    BY <1>4 DEF Release, BreakCode
  <2>2. KeyTypeOK'
    BY <2>1 DEF KeyTypeOK, ConsoleTypeOK, escVars, inputVars
  <2> QED BY <1>1, <2>1, <2>2 DEF TtyStep, inputVars
<1> QED BY <1>1, <1>2, <1>3, <1>4 DEF KeyStep

\* The locks that are meant to be on are locks.
LEMMA LocksType ==
    ASSUME locks \subseteq Toggled, KeyStep PROVE locks' \subseteq Toggled
<1>1. PICK k \in keys : Press(k) \/ Repeat(k) \/ Release(k)
  BY DEF KeyStep
<1>2. \/ locks' = locks
      \/ Bit(k) \in Toggled /\ locks' = (locks \cup {Bit(k)}) \ (locks \cap {Bit(k)})
  BY <1>1 DEF Press, Repeat, Release
<1> QED BY <1>2
-----------------------------------------------------------------------------
\* A shell's record, and the input and output of its terminal.
LEMMA ShellFields ==
    ASSUME ConsoleTypeOK, NEW t \in TtyId
    PROVE  /\ shell[t].at \in {"none", "flush_in", "flush_out", "read"}
           /\ shell[t].buf \in Seq(Char) /\ shell[t].line \in Seq(Char)
           /\ shell[t].reading \in BOOLEAN
           /\ shell[t] = [at |-> shell[t].at, buf |-> shell[t].buf, line |-> shell[t].line,
                          reading |-> shell[t].reading]
           /\ io_input[t] \in Seq(Char) /\ Len(io_input[t]) <= RINGBUF_SIZE
           /\ typed[t] \in Seq(Char) /\ commands[t] \in Seq(Char)
<1>1. RINGBUF_SIZE \in Nat /\ io_input[t] \in BoundedSeq(Char, RINGBUF_SIZE)
  BY TtyAssumption DEF ConsoleTypeOK
<1>2. io_input[t] \in Seq(Char) /\ Len(io_input[t]) <= RINGBUF_SIZE
  BY <1>1, Bounded
<1>3. shell[t] \in ShellRecord /\ typed[t] \in Seq(Char) /\ commands[t] \in Seq(Char)
  BY DEF ConsoleTypeOK
<1> QED BY <1>2, <1>3 DEF ShellRecord

\* The shell of a terminal after a step.
ShellRec(a, b, l, r) == [at |-> a, buf |-> b, line |-> l, reading |-> r]

\* The record has the fields it is made of.
LEMMA ShellRecFields ==
    \A a, b, l, r : /\ ShellRec(a, b, l, r).at = a /\ ShellRec(a, b, l, r).buf = b
                    /\ ShellRec(a, b, l, r).line = l /\ ShellRec(a, b, l, r).reading = r
                    /\ (a \in {"none", "flush_in", "flush_out", "read"} /\ b \in Seq(Char)
                           /\ l \in Seq(Char) /\ r \in BOOLEAN
                           => ShellRec(a, b, l, r) \in ShellRecord)
BY DEF ShellRec, ShellRecord

\* What the shell of terminal t does, as far as the way of the input goes.
LEMMA ShellMoves ==
    ASSUME ConsoleTypeOK, NEW t \in TtyId
    PROVE  /\ FlushIn(t) =>
                 /\ shell' = [shell EXCEPT ![t] = ShellRec("flush_out", shell[t].buf, shell[t].line,
                                                           shell[t].reading)]
                 /\ io_input' = [io_input EXCEPT ![t] = <<>>]
                 /\ typed' = [typed EXCEPT ![t] = <<>>] /\ UNCHANGED <<commands, vars>>
           /\ FlushOut(t) =>
                 /\ shell' = [shell EXCEPT ![t] = ShellRec("read", shell[t].buf, shell[t].line,
                                                           shell[t].reading)]
                 /\ UNCHANGED <<io_input, typed, commands>>
           /\ Command(t) =>
                 /\ shell' = [shell EXCEPT ![t] = ShellRec(shell[t].at, shell[t].buf, <<>>, TRUE)]
                 /\ commands' = [commands EXCEPT ![t] = @ \o shell[t].line]
                 /\ UNCHANGED <<io_input, typed, vars>>
           /\ ksyscall_io_read(t) =>
                 \E n \in 1 .. Len(io_input[t]) :
                    /\ shell' = [shell EXCEPT ![t] = ShellRec(shell[t].at, SubSeq(io_input[t], 1, n),
                                                              shell[t].line, shell[t].reading)]
                    /\ io_input' = [io_input EXCEPT ![t] = SubSeq(@, n + 1, Len(@))]
                    /\ UNCHANGED <<typed, commands, vars>>
           /\ Echo(t) =>
                 /\ shell[t].buf # <<>>
                 /\ shell' = [shell EXCEPT ![t] =
                        ShellRec(shell[t].at, Tail(shell[t].buf),
                                 Keep(shell[t].line, Head(shell[t].buf)),
                                 shell[t].reading /\ Head(shell[t].buf) # "nl")]
                 /\ UNCHANGED <<io_input, typed, commands>>
<1> DEFINE r == shell[t]
<1>1. r = ShellRec(r.at, r.buf, r.line, r.reading) /\ shell \in [TtyId -> ShellRecord]
  BY ShellFields DEF ShellRec, ConsoleTypeOK
<1>2. ASSUME FlushIn(t)
      PROVE  shell' = [shell EXCEPT ![t] = ShellRec("flush_out", r.buf, r.line, r.reading)]
  <2>1. shell' = [shell EXCEPT ![t] = [r EXCEPT !.at = "flush_out"]]
    BY <1>1, <1>2 DEF FlushIn
  <2> HIDE DEF r
  <2>2. [r EXCEPT !.at = "flush_out"] = ShellRec("flush_out", r.buf, r.line, r.reading)
    BY <1>1 DEF ShellRec
  <2> QED BY <2>1, <2>2 DEF r
<1>3. ASSUME FlushOut(t)
      PROVE  shell' = [shell EXCEPT ![t] = ShellRec("read", r.buf, r.line, r.reading)]
  <2>1. shell' = [shell EXCEPT ![t] = [r EXCEPT !.at = "read"]]
    BY <1>1, <1>3 DEF FlushOut
  <2> HIDE DEF r
  <2>2. [r EXCEPT !.at = "read"] = ShellRec("read", r.buf, r.line, r.reading)
    BY <1>1 DEF ShellRec
  <2> QED BY <2>1, <2>2 DEF r
<1>4. ASSUME Command(t)
      PROVE  shell' = [shell EXCEPT ![t] = ShellRec(r.at, r.buf, <<>>, TRUE)]
  <2> DEFINE none == <<>>
             yes == TRUE
             new == [r EXCEPT !.line = none, !.reading = yes]
  <2>1. shell' = [shell EXCEPT ![t] = new]
    BY <1>1, <1>4 DEF Command
  <2> HIDE DEF r, yes, none
  <2>2. new = [r EXCEPT !.line = none, !.reading = yes]
    OBVIOUS
  <2> HIDE DEF new
  <2>3. new = ShellRec(r.at, r.buf, none, yes)
    BY <1>1, <2>2 DEF ShellRec
  <2> QED BY <2>1, <2>3 DEF r, yes, none
<1>5. ASSUME ksyscall_io_read(t)
      PROVE  \E n \in 1 .. Len(io_input[t]) :
                /\ shell' = [shell EXCEPT ![t] = ShellRec(r.at, SubSeq(io_input[t], 1, n), r.line,
                                                          r.reading)]
                /\ io_input' = [io_input EXCEPT ![t] = SubSeq(@, n + 1, Len(@))]
                /\ UNCHANGED <<typed, commands, vars>>
  <2> DEFINE n == IF Len(io_input[t]) < BUF_SIZE THEN Len(io_input[t]) ELSE BUF_SIZE
             new == SubSeq(io_input[t], 1, n)
  <2>1. n \in 1 .. Len(io_input[t])
    <3>1. Len(io_input[t]) \in Nat /\ n > 0 /\ BUF_SIZE \in Nat
      BY <1>5, ShellFields, ConsoleAssumption DEF ksyscall_io_read
    <3> QED BY <3>1
  <2>2. /\ shell' = [shell EXCEPT ![t] = [r EXCEPT !.buf = new]]
        /\ io_input' = [io_input EXCEPT ![t] = SubSeq(@, n + 1, Len(@))]
        /\ UNCHANGED <<typed, commands, vars>>
    BY <1>1, <1>5 DEF ksyscall_io_read
  <2> HIDE DEF r, new
  <2>3. [r EXCEPT !.buf = new] = ShellRec(r.at, new, r.line, r.reading)
    BY <1>1 DEF ShellRec
  <2>4. shell' = [shell EXCEPT ![t] = ShellRec(r.at, new, r.line, r.reading)]
    BY <2>2, <2>3
  <2> HIDE DEF n
  <2> QED BY <2>1, <2>2, <2>4 DEF r, new
<1>6. ASSUME Echo(t)
      PROVE  shell' = [shell EXCEPT ![t] =
                ShellRec(r.at, Tail(r.buf), Keep(r.line, Head(r.buf)),
                         r.reading /\ Head(r.buf) # "nl")]
  <2> DEFINE c == Head(r.buf)
             b == Tail(r.buf)
             l == Keep(r.line, c)
             d == (r.reading /\ c # "nl")
  <2>1. shell' = [shell EXCEPT ![t] = Take(r)]
    BY <1>1, <1>6 DEF Echo
  <2>2. Take(r) = [r EXCEPT !.buf = b, !.line = l, !.reading = d]
    BY Zenon DEF Take, Keep
  <2> HIDE DEF r, b, l, d
  <2>3. Take(r) = ShellRec(r.at, b, l, d)
    BY <1>1, <2>2 DEF ShellRec
  <2> QED BY <2>1, <2>3 DEF r, b, l, d
<1> QED BY <1>2, <1>3, <1>4, <1>5, <1>6, Zenon DEF FlushIn, FlushOut, Command, Echo

\* The types of the state that the shells change.
InputTypeOK == /\ io_input \in [TtyId -> BoundedSeq(Char, RINGBUF_SIZE)]
               /\ shell \in [TtyId -> ShellRecord]
               /\ typed \in [TtyId -> Seq(Char)]
               /\ commands \in [TtyId -> Seq(Char)]

\* A shell's steps keep the types, and change of the terminals only what is
\* written to them.
LEMMA ShellStepType ==
    ASSUME ConsoleTypeOK, NEW t \in TtyId,
           FlushIn(t) \/ FlushOut(t) \/ ksyscall_io_read(t) \/ Echo(t) \/ Command(t)
    PROVE  InputTypeOK' /\ TtyStep
<1>1. InputTypeOK
  BY DEF ConsoleTypeOK, InputTypeOK
<1>2. RINGBUF_SIZE \in Nat
  BY TtyAssumption
<1>3. /\ shell[t].at \in {"none", "flush_in", "flush_out", "read"}
      /\ shell[t].buf \in Seq(Char) /\ shell[t].line \in Seq(Char) /\ shell[t].reading \in BOOLEAN
      /\ io_input[t] \in Seq(Char) /\ Len(io_input[t]) <= RINGBUF_SIZE
      /\ typed[t] \in Seq(Char) /\ commands[t] \in Seq(Char)
  BY ShellFields
<1>4. <<>> \in Seq(Char) /\ <<>> \in BoundedSeq(Char, RINGBUF_SIZE)
  BY <1>2, Bounded
<1>5. CASE FlushIn(t)
  <2> DEFINE new == ShellRec("flush_out", shell[t].buf, shell[t].line, shell[t].reading)
  <2>1. /\ shell' = [shell EXCEPT ![t] = new] /\ io_input' = [io_input EXCEPT ![t] = <<>>]
        /\ typed' = [typed EXCEPT ![t] = <<>>] /\ UNCHANGED <<commands, vars>>
    BY <1>5, ShellMoves
  <2>2. new \in ShellRecord
    BY <1>3, ShellRecFields
  <2> HIDE DEF new
  <2> QED BY <1>1, <1>4, <2>1, <2>2 DEF InputTypeOK, TtyStep
<1>6. CASE FlushOut(t)
  <2> DEFINE new == ShellRec("read", shell[t].buf, shell[t].line, shell[t].reading)
  <2>1. shell' = [shell EXCEPT ![t] = new] /\ UNCHANGED <<io_input, typed, commands>>
    BY <1>6, ShellMoves
  <2>2. new \in ShellRecord
    BY <1>3, ShellRecFields
  <2>3. TtyStep
    BY <1>6 DEF FlushOut, TtyStep
  <2> HIDE DEF new
  <2> QED BY <1>1, <2>1, <2>2, <2>3 DEF InputTypeOK
<1>7. CASE ksyscall_io_read(t)
  <2>1. PICK n \in 1 .. Len(io_input[t]) :
            /\ shell' = [shell EXCEPT ![t] = ShellRec(shell[t].at, SubSeq(io_input[t], 1, n),
                                                      shell[t].line, shell[t].reading)]
            /\ io_input' = [io_input EXCEPT ![t] = SubSeq(@, n + 1, Len(@))]
            /\ UNCHANGED <<typed, commands, vars>>
    BY <1>7, ShellMoves
  <2> DEFINE first == SubSeq(io_input[t], 1, n)
             rest  == SubSeq(io_input[t], n + 1, Len(io_input[t]))
             new   == ShellRec(shell[t].at, first, shell[t].line, shell[t].reading)
  <2>2. first \in Seq(Char) /\ rest \in Seq(Char) /\ Len(rest) <= RINGBUF_SIZE
    <3>1. Len(io_input[t]) \in Nat /\ n \in 1 .. Len(io_input[t])
      BY <1>3
    <3> QED BY <1>2, <1>3, <3>1, SubSeqProperties
  <2>3. rest \in BoundedSeq(Char, RINGBUF_SIZE)
    <3> HIDE DEF rest
    <3> QED BY <1>2, <2>2, Bounded
  <2>4. new \in ShellRecord
    <3> HIDE DEF first
    <3> QED BY <1>3, <2>2, ShellRecFields
  <2>5. shell' = [shell EXCEPT ![t] = new] /\ io_input' = [io_input EXCEPT ![t] = rest]
    BY <1>1, <2>1 DEF InputTypeOK
  <2>6. UNCHANGED <<typed, commands>> /\ TtyStep
    BY <2>1 DEF TtyStep
  <2> HIDE DEF new, rest
  <2> QED BY <1>1, <2>3, <2>4, <2>5, <2>6 DEF InputTypeOK
<1>8. CASE Echo(t)
  <2> DEFINE c == Head(shell[t].buf)
             l == Keep(shell[t].line, c)
             d == (shell[t].reading /\ c # "nl")
             new == ShellRec(shell[t].at, Tail(shell[t].buf), l, d)
  <2>1. /\ shell[t].buf # <<>> /\ shell' = [shell EXCEPT ![t] = new]
        /\ UNCHANGED <<io_input, typed, commands>>
    BY <1>8, ShellMoves
  <2>2. c \in Char /\ Tail(shell[t].buf) \in Seq(Char)
    BY <1>3, <2>1, HeadTailProperties
  <2>3. l \in Seq(Char) /\ d \in BOOLEAN
    BY <1>3, <2>2 DEF Keep
  <2>4. new \in ShellRecord
    <3> HIDE DEF l, d
    <3> QED BY <1>3, <2>2, <2>3, ShellRecFields
  <2>5. TtyStep
    <3>1. CASE ksyscall_io_write(t, <<c>>)
      <4>1. <<c>> \in Seq(Char)
        BY <2>2
      <4> QED BY <3>1, <4>1 DEF TtyStep
    <3>2. CASE UNCHANGED vars
      BY <3>2 DEF TtyStep
    <3> QED BY <1>8, <3>1, <3>2 DEF Echo
  <2> HIDE DEF new
  <2> QED BY <1>1, <2>1, <2>4, <2>5 DEF InputTypeOK
<1>9. CASE Command(t)
  <2> DEFINE new == ShellRec(shell[t].at, shell[t].buf, <<>>, TRUE)
  <2>1. /\ shell' = [shell EXCEPT ![t] = new]
        /\ commands' = [commands EXCEPT ![t] = @ \o shell[t].line]
        /\ UNCHANGED <<io_input, typed, vars>>
    BY <1>9, ShellMoves
  <2>2. commands[t] \o shell[t].line \in Seq(Char)
    BY <1>3
  <2>3. new \in ShellRecord
    <3>1. TRUE \in BOOLEAN
      OBVIOUS
    <3> QED BY <1>3, <1>4, <3>1, ShellRecFields, Zenon
  <2> HIDE DEF new
  <2> QED BY <1>1, <2>1, <2>2, <2>3 DEF InputTypeOK, TtyStep
<1> QED BY <1>5, <1>6, <1>7, <1>8, <1>9

\* The types and the screen, for all that the console does.
ConsoleInv == ConsoleTypeOK /\ TextType /\ InSync

\* The terminals start empty, and the first of them to be painted.
LEMMA ConsoleInitInv == ConsoleInit => ConsoleInv
<1> SUFFICES ASSUME ConsoleInit PROVE ConsoleInv
  OBVIOUS
<1>1. /\ {TTY_MAX, RINGBUF_SIZE, VGA_WIDTH, VGA_HEIGHT} \subseteq Nat \ {0}
      /\ OutputChoices \subseteq SUBSET Char
  BY TtyAssumption, VgaAssumption
<1>2. <<>> \in Seq(Char) /\ <<>> \in BoundedSeq(Char, RINGBUF_SIZE)
  BY <1>1, Bounded
<1>3. 0 \in TtyId /\ 0 \in 0 .. TTY_HEIGHT - 1
  BY <1>1 DEF TtyId, TTY_HEIGHT
<1>4. TtyTypeOK /\ TextType /\ InSync
  <2>1. Zero \in Glyph /\ Init
    BY DEF Glyph, ConsoleInit
  <2>2. /\ active_tty \in TtyId /\ cells \in [TtyId -> [Cell -> Glyph]]
        /\ pos_x \in [TtyId -> Nat] /\ pos_y \in [TtyId -> 0 .. TTY_HEIGHT - 1]
        /\ refresh \in [TtyId -> {0, 1}] /\ refresh[active_tty] = 1
    BY <1>3, <2>1 DEF Init
  <2>3. /\ io_output \in [TtyId -> BoundedSeq(Char, RINGBUF_SIZE)]
        /\ screen \in [ScreenCell -> Glyph \cup {"spin", "clock", "list"}]
        /\ output \in OutputChoices /\ overrun \in BOOLEAN
        /\ text \in [TtyId -> Seq(Char)]
    BY <1>2, <2>1 DEF Init, vga_clear
  <2> QED BY <2>2, <2>3 DEF TtyTypeOK, TextType, InSync
<1>5. shell \in [TtyId -> ShellRecord]
  <2> DEFINE at(t) == IF t \in Readers THEN "flush_in" ELSE "none"
  <2>1. shell = [t \in TtyId |-> ShellRec(at(t), <<>>, <<>>, TRUE)]
    BY Zenon DEF ConsoleInit, ShellRec
  <2>2. ASSUME NEW t \in TtyId PROVE ShellRec(at(t), <<>>, <<>>, TRUE) \in ShellRecord
    <3>1. at(t) \in {"none", "flush_in", "flush_out", "read"} /\ TRUE \in BOOLEAN
      OBVIOUS
    <3> HIDE DEF at
    <3> QED BY <1>2, <3>1, ShellRecFields, Zenon
  <2> HIDE DEF at
  <2> QED BY <2>1, <2>2
<1>6. exited = (esc_status = 3)
  <2>1. exited = FALSE /\ esc_status # 3
    BY DEF ConsoleInit
  <2> QED BY <2>1, Zenon
<1>7. ConsoleTypeOK
  <2>1. /\ keys \in KeyChoices /\ held \subseteq keys /\ kbd_status \subseteq Momentary \cup Toggled
        /\ locks \subseteq Toggled /\ esc_status \in 0 .. 3
    BY DEF ConsoleInit
  <2>3. lossy = FALSE
    BY DEF ConsoleInit
  <2>4. lossy \in BOOLEAN
    BY <2>3
  <2>2. /\ io_input \in [TtyId -> BoundedSeq(Char, RINGBUF_SIZE)]
        /\ typed \in [TtyId -> Seq(Char)] /\ commands \in [TtyId -> Seq(Char)]
    BY <1>2 DEF ConsoleInit
  <2> QED BY <1>4, <1>5, <1>6, <2>1, <2>2, <2>4, Zenon DEF ConsoleTypeOK
<1> QED BY <1>4, <1>7 DEF ConsoleInv

\* Every step of the console is one of the terminals, and keeps the types.
LEMMA ConsoleStep ==
    ConsoleTypeOK /\ TextType /\ [ConsoleNext]_allVars
        => ConsoleTypeOK' /\ TextType' /\ TtyStep
<1> SUFFICES ASSUME ConsoleTypeOK, TextType, [ConsoleNext]_allVars
             PROVE  ConsoleTypeOK' /\ TextType' /\ TtyStep
  OBVIOUS
<1>1. TtyTypeOK
  BY DEF ConsoleTypeOK
<1> DEFINE Rest == /\ keys' \in KeyChoices /\ held' \subseteq keys' /\ lossy' \in BOOLEAN
                   /\ locks' \subseteq Toggled
                   /\ KeyTypeOK' /\ InputTypeOK'
<1>2. ASSUME TtyStep, Rest PROVE ConsoleTypeOK' /\ TextType' /\ TtyStep
  <2>1. TtyTypeOK' /\ TextType'
    BY <1>1, <1>2, TtyTypeStep
  <2> QED BY <1>2, <2>1, Zenon DEF ConsoleTypeOK, KeyTypeOK, InputTypeOK
<1>3. ASSUME UNCHANGED consoleVars PROVE Rest
  BY <1>3 DEF consoleVars, escVars, inputVars, KeyTypeOK, InputTypeOK, ConsoleTypeOK
<1>4. CASE Next /\ UNCHANGED consoleVars
  <2>1. ASSUME NEW t \in TtyId, NEW s \in BoundedSeq(output, MaxWrite), ksyscall_io_write(t, s)
        PROVE  TtyStep
    <3>1. output \in SUBSET Char /\ MaxWrite \in Nat
      BY <1>1, TtyAssumption DEF TtyTypeOK
    <3>2. s \in Seq(Char)
      BY <3>1, Bounded
    <3> QED BY <2>1, <3>2 DEF TtyStep
  <2>2. ASSUME Callback PROVE TtyStep
    BY <1>1, <2>2, CallbackDraws DEF Callback, TtyStep
  <2>3. TtyStep
    BY <1>4, <2>1, <2>2 DEF Next, TtyStep
  <2> HIDE DEF Rest
  <2>4. Rest
    BY <1>3, <1>4
  <2> QED BY <1>2, <2>3, <2>4
<1>5. CASE KeyStep /\ ~exited /\ ~lossy
  <2>1. /\ KeyTypeOK' /\ TtyStep /\ UNCHANGED <<keys, shell, commands>>
        /\ held' \subseteq keys /\ lossy' \in BOOLEAN
    BY <1>5, KeyStepType
  <2>2. InputTypeOK'
    BY <2>1 DEF KeyTypeOK, InputTypeOK, ConsoleTypeOK
  <2>3. keys' \in KeyChoices /\ held' \subseteq keys'
    BY <2>1 DEF ConsoleTypeOK
  <2>4. locks' \subseteq Toggled
    BY <1>5, LocksType DEF ConsoleTypeOK
  <2> QED BY <1>2, <2>1, <2>2, <2>3, <2>4
<1>6. CASE ShellStep
  <2>1. PICK t \in Readers :
            FlushIn(t) \/ FlushOut(t) \/ ksyscall_io_read(t) \/ Echo(t) \/ Command(t)
    BY <1>6 DEF ShellStep
  <2>2. t \in TtyId
    BY ConsoleAssumption
  <2>3. InputTypeOK' /\ TtyStep
    BY <2>1, <2>2, ShellStepType
  <2>4. UNCHANGED <<keys, held, locks, kbd_status, escVars, lossy>>
    BY <1>6 DEF ShellStep
  <2>5. /\ kbd_status' \subseteq Momentary \cup Toggled
        /\ esc_status' \in 0 .. 3
        /\ keys' \in KeyChoices /\ held' \subseteq keys' /\ lossy' \in BOOLEAN
        /\ locks' \subseteq Toggled
    BY <2>4 DEF ConsoleTypeOK, escVars
  <2>6. exited' = (esc_status' = 3)
    <3>1. exited' = exited /\ esc_status' = esc_status
      BY <2>4 DEF escVars
    <3> QED BY <3>1, Zenon DEF ConsoleTypeOK
  <2>7. KeyTypeOK'
    BY <2>3, <2>5, <2>6, Zenon DEF KeyTypeOK, InputTypeOK
  <2> QED BY <1>2, <2>3, <2>5, <2>7
<1>7. CASE tty_refresh /\ UNCHANGED consoleVars
  BY <1>2, <1>3, <1>7 DEF TtyStep
<1>8. CASE UNCHANGED allVars
  BY <1>2, <1>3, <1>8 DEF TtyStep, allVars
<1> QED BY <1>4, <1>5, <1>6, <1>7, <1>8 DEF ConsoleNext

\* So does the screen stay in sync.
LEMMA ConsoleNextInv == ConsoleInv /\ [ConsoleNext]_allVars => ConsoleInv'
<1> SUFFICES ASSUME ConsoleInv, [ConsoleNext]_allVars PROVE ConsoleInv'
  OBVIOUS
<1>1. ConsoleTypeOK' /\ TextType' /\ TtyStep
  BY ConsoleStep DEF ConsoleInv
<1>2. InSync'
  BY <1>1, SyncStep DEF ConsoleInv, ConsoleTypeOK
<1> QED BY <1>1, <1>2 DEF ConsoleInv

\* The types of the terminals, the keyboard and the shells, for every size of
\* the screen, the buffers and the keyboard: no cursor below the last row, no
\* buffer beyond its capacity, no Escape counted beyond the third.
THEOREM ConsoleTypeCorrect == ConsoleSpec => []ConsoleTypeOK
<1>1. ConsoleInit => ConsoleInv  BY ConsoleInitInv
<1>2. ConsoleInv /\ [ConsoleNext]_allVars => ConsoleInv'  BY ConsoleNextInv
<1>3. ConsoleInv => ConsoleTypeOK  BY DEF ConsoleInv
<1> QED BY <1>1, <1>2, <1>3, PTL DEF ConsoleSpec

\* The screen shows the active terminal, but for what the test callbacks draw
\* over it, whenever the terminal is not waiting to be painted.
THEOREM ScreenShowsActive == ConsoleSpec => []ScreenInSync
<1>1. ConsoleInit => ConsoleInv  BY ConsoleInitInv
<1>2. ConsoleInv /\ [ConsoleNext]_allVars => ConsoleInv'  BY ConsoleNextInv
<1>3. ConsoleInv => ScreenInSync  BY DEF ConsoleInv, InSync, ScreenInSync
<1> QED BY <1>1, <1>2, <1>3, PTL DEF ConsoleSpec
-----------------------------------------------------------------------------
\* Where the lines end that are complete before position k.
Ends(s, k) == {j \in 1 .. k - 1 : s[j] = "nl"}

\* The first row of the text that is shown.
Top(s) == LET n == NewlinesBefore(s, Len(s) + 1)
          IN  IF n < TTY_HEIGHT THEN 0 ELSE n - TTY_HEIGHT + 1

\* What is in the cell of a row and a column is the character of the text that
\* belongs there.
Showing(s, buf, x, y) ==
    LET shown == buf[x + y * TTY_WIDTH]
    IN  Shown(s, x, y) = IF shown = Zero THEN Space ELSE shown

\* A terminal shows the last lines of a text, and its cursor is at their end.
Shows(s, r) ==
    Plain(s) => /\ r.y = NewlinesBefore(s, Len(s) + 1) - Top(s)
                /\ r.x = Column(s, Len(s) + 1)
                /\ \A x \in 0 .. TTY_WIDTH - 1, y \in 0 .. TTY_HEIGHT - 1 :
                      Showing(s, r.buf, x, y)

\* There are finitely many ends, and more before a later position.
LEMMA EndsCount ==
    ASSUME NEW s, NEW k \in Nat, NEW j \in 0 .. k
    PROVE  /\ IsFiniteSet(Ends(s, k))
           /\ NewlinesBefore(s, k) = Cardinality(Ends(s, k))
           /\ NewlinesBefore(s, k) \in Nat
           /\ NewlinesBefore(s, j) \in Nat
           /\ NewlinesBefore(s, j) <= NewlinesBefore(s, k)
           /\ NewlinesBefore(s, j) = NewlinesBefore(s, k) => Ends(s, j) = Ends(s, k)
<1>1. IsFiniteSet(1 .. k - 1)
  BY FS_Interval
<1>2. Ends(s, k) \in SUBSET (1 .. k - 1) /\ Ends(s, j) \in SUBSET Ends(s, k)
  BY DEF Ends
<1>3. IsFiniteSet(Ends(s, k))
  BY <1>1, <1>2, FS_Subset
<1>4. /\ Cardinality(Ends(s, j)) <= Cardinality(Ends(s, k))
      /\ Cardinality(Ends(s, k)) = Cardinality(Ends(s, j)) => Ends(s, k) = Ends(s, j)
      /\ IsFiniteSet(Ends(s, j))
  BY <1>2, <1>3, FS_Subset
<1>5. Cardinality(Ends(s, k)) \in Nat /\ Cardinality(Ends(s, j)) \in Nat
  BY <1>3, <1>4, FS_CardinalityType
<1>6. /\ NewlinesBefore(s, k) = Cardinality(Ends(s, k))
      /\ NewlinesBefore(s, j) = Cardinality(Ends(s, j))
  BY DEF NewlinesBefore, Ends
<1> QED BY <1>3, <1>4, <1>5, <1>6

\* A column is counted from the last end of a line.
LEMMA ColumnFrom ==
    ASSUME NEW s, NEW k \in Nat \ {0}
    PROVE  /\ Ends(s, k) = {} => Column(s, k) = k - 1
           /\ Ends(s, k) # {} => \E e \in Ends(s, k) : /\ \A i \in Ends(s, k) : i <= e
                                                       /\ Column(s, k) = k - 1 - e
<1> DEFINE ends == Ends(s, k)
           last == CHOOSE j \in ends : \A i \in ends : i <= j
<1>1. Column(s, k) = IF ends = {} THEN k - 1 ELSE k - 1 - last
  BY DEF Column, Ends
<1>2. ASSUME ends # {} PROVE last \in ends /\ \A i \in ends : i <= last
  <2>1. ends \in SUBSET (1 .. k - 1) /\ k - 1 \in Nat
    BY DEF Ends
  <2> HIDE DEF ends
  <2>2. \E j \in ends : \A i \in ends : i <= j
    BY <1>2, <2>1, Puts!LastPosition
  <2> QED BY <2>2
<1> QED BY <1>1, <1>2

\* A column follows from the ends before the position.
LEMMA SameColumn ==
    ASSUME NEW s, NEW t, NEW j \in Nat \ {0}, NEW k \in Nat, j <= k, Ends(s, j) = Ends(t, k)
    PROVE  Column(t, k) = Column(s, j) + (k - j)
<1>0. k \in Nat \ {0}
  OBVIOUS
<1>1. CASE Ends(s, j) = {}
  <2>1. Column(s, j) = j - 1 /\ Column(t, k) = k - 1
    BY <1>0, <1>1, ColumnFrom
  <2> QED BY <2>1
<1>2. CASE Ends(s, j) # {}
  <2>1. PICK e \in Ends(s, j) : (\A i \in Ends(s, j) : i <= e) /\ Column(s, j) = j - 1 - e
    BY <1>2, ColumnFrom
  <2>2. PICK f \in Ends(t, k) : (\A i \in Ends(t, k) : i <= f) /\ Column(t, k) = k - 1 - f
    BY <1>0, <1>2, ColumnFrom
  <2>3. e \in Int /\ f \in Int
    BY DEF Ends
  <2>4. e = f
    BY <2>1, <2>2, <2>3
  <2> QED BY <2>1, <2>2, <2>3, <2>4
<1> QED BY <1>1, <1>2

\* One character more: what is before it is where it was, and a newline ends
\* the line.
LEMMA EndsAppend ==
    ASSUME NEW s \in Seq(Char), NEW c \in Char
    PROVE  LET z == Append(s, c)
               m == Len(s)
           IN  /\ \A k \in 1 .. m + 1 : Ends(z, k) = Ends(s, k)
               /\ c # "nl" => Ends(z, m + 2) = Ends(s, m + 1)
               /\ c = "nl" => Ends(z, m + 2) = Ends(s, m + 1) \cup {m + 1}
<1> DEFINE z == Append(s, c)
           m == Len(s)
<1>1. m \in Nat /\ Len(z) = m + 1 /\ z[m + 1] = c /\ \A k \in 1 .. m : z[k] = s[k]
  BY AppendProperties, LenProperties
<1> HIDE DEF z, m
<1>2. ASSUME NEW k \in 1 .. m + 1 PROVE Ends(z, k) = Ends(s, k)
  BY <1>1 DEF Ends
<1>3. (m + 2) - 1 = m + 1 /\ (m + 1) - 1 = m
  BY <1>1
<1>4. c # "nl" => Ends(z, m + 2) = Ends(s, m + 1)
  BY <1>1, <1>3 DEF Ends
<1>5. c = "nl" => Ends(z, m + 2) = Ends(s, m + 1) \cup {m + 1}
  BY <1>1, <1>3 DEF Ends
<1> QED BY <1>2, <1>4, <1>5 DEF z, m

\* Rows and columns of a text with one character more.
LEMMA PlaceAppend ==
    ASSUME NEW s \in Seq(Char), NEW c \in Char
    PROVE  LET z == Append(s, c)
               m == Len(s)
           IN  /\ m \in Nat
               /\ \A k \in 1 .. m + 1 : /\ NewlinesBefore(z, k) = NewlinesBefore(s, k)
                                        /\ Column(z, k) = Column(s, k)
               /\ c # "nl" => /\ NewlinesBefore(z, m + 2) = NewlinesBefore(s, m + 1)
                              /\ Column(z, m + 2) = Column(s, m + 1) + 1
               /\ c = "nl" => /\ NewlinesBefore(z, m + 2) = NewlinesBefore(s, m + 1) + 1
                              /\ Column(z, m + 2) = 0
<1> DEFINE z == Append(s, c)
           m == Len(s)
<1>1. /\ m \in Nat
      /\ \A k \in 1 .. m + 1 : Ends(z, k) = Ends(s, k)
      /\ c # "nl" => Ends(z, m + 2) = Ends(s, m + 1)
      /\ c = "nl" => Ends(z, m + 2) = Ends(s, m + 1) \cup {m + 1}
  BY EndsAppend, LenProperties
<1> HIDE DEF z, m
<1>2. ASSUME NEW k \in 1 .. m + 1
      PROVE  NewlinesBefore(z, k) = NewlinesBefore(s, k) /\ Column(z, k) = Column(s, k)
  <2>1. Ends(s, k) = Ends(z, k) /\ k \in Nat \ {0} /\ k \in Nat /\ k <= k
    BY <1>1
  <2>2. Column(z, k) = Column(s, k) + (k - k)
    BY <2>1, SameColumn
  <2>3. Column(s, k) \in Int
    <3>1. \A e \in Ends(s, k) : e \in Int
      BY <1>1 DEF Ends
    <3> QED BY <2>1, <3>1, ColumnFrom
  <2>4. NewlinesBefore(z, k) = NewlinesBefore(s, k)
    BY <2>1, EndsCount
  <2> QED BY <2>2, <2>3, <2>4
<1>3. ASSUME c # "nl"
      PROVE  /\ NewlinesBefore(z, m + 2) = NewlinesBefore(s, m + 1)
             /\ Column(z, m + 2) = Column(s, m + 1) + 1
  <2>1. /\ Ends(s, m + 1) = Ends(z, m + 2) /\ m + 1 \in Nat \ {0} /\ m + 2 \in Nat
        /\ m + 1 <= m + 2
    BY <1>1, <1>3
  <2>2. Column(z, m + 2) = Column(s, m + 1) + ((m + 2) - (m + 1))
    BY <1>1, <2>1, SameColumn
  <2>3. (m + 2) - (m + 1) = 1
    BY <1>1
  <2>4. NewlinesBefore(z, m + 2) = NewlinesBefore(s, m + 1)
    BY <2>1, EndsCount
  <2> QED BY <2>2, <2>3, <2>4
<1>4. ASSUME c = "nl"
      PROVE  /\ NewlinesBefore(z, m + 2) = NewlinesBefore(s, m + 1) + 1
             /\ Column(z, m + 2) = 0
  <2>1. Ends(z, m + 2) = Ends(s, m + 1) \cup {m + 1} /\ m + 1 \in Nat \ {0} /\ m + 2 \in Nat \ {0}
    BY <1>1, <1>4
  <2>2. IsFiniteSet(Ends(s, m + 1)) /\ m + 1 \notin Ends(s, m + 1)
        /\ NewlinesBefore(s, m + 1) = Cardinality(Ends(s, m + 1))
        /\ NewlinesBefore(z, m + 2) = Cardinality(Ends(z, m + 2))
    <3>1. m + 1 \notin Ends(s, m + 1)
      BY <1>1 DEF Ends
    <3> QED BY <2>1, <3>1, EndsCount
  <2>3. NewlinesBefore(z, m + 2) = NewlinesBefore(s, m + 1) + 1
    <3> DEFINE before == Ends(s, m + 1)
    <3>1. before \cup {m + 1} = Ends(z, m + 2)
      BY <2>1
    <3>2. IsFiniteSet(before) /\ m + 1 \notin before
      BY <2>2
    <3> HIDE DEF before
    <3>3. Cardinality(before \cup {m + 1}) = Cardinality(before) + 1
      BY <3>2, FS_AddElement
    <3> QED BY <2>2, <3>1, <3>3 DEF before
  <2>4. PICK e \in Ends(z, m + 2) : /\ \A i \in Ends(z, m + 2) : i <= e
                                   /\ Column(z, m + 2) = (m + 2) - 1 - e
    BY <2>1, ColumnFrom
  <2>5. e = m + 1
    BY <1>1, <2>1, <2>4 DEF Ends
  <2> QED BY <1>1, <2>3, <2>4, <2>5
<1> QED BY <1>1, <1>2, <1>3, <1>4 DEF z, m

\* A character in the row of the end of a text stands in a column before the
\* end, and no column is negative.
LEMMA EndsLast ==
    ASSUME NEW s \in Seq(Char)
    PROVE  LET m == Len(s)
           IN  /\ m \in Nat /\ Column(s, m + 1) \in Nat
               /\ \A k \in 1 .. m + 1 :
                     /\ NewlinesBefore(s, k) \in Nat
                     /\ NewlinesBefore(s, k) <= NewlinesBefore(s, m + 1)
               /\ \A k \in 1 .. m :
                     NewlinesBefore(s, k) = NewlinesBefore(s, m + 1) =>
                         Column(s, k) \in Int /\ Column(s, k) < Column(s, m + 1)
<1> DEFINE m == Len(s)
<1>1. m \in Nat
  BY LenProperties
<1> HIDE DEF m
<1>2. ASSUME NEW k \in 1 .. m + 1
      PROVE  /\ NewlinesBefore(s, k) \in Nat
             /\ NewlinesBefore(s, k) <= NewlinesBefore(s, m + 1)
             /\ NewlinesBefore(s, k) = NewlinesBefore(s, m + 1) => Ends(s, k) = Ends(s, m + 1)
  <2>1. k \in 0 .. m + 1 /\ m + 1 \in Nat
    BY <1>1
  <2> QED BY <2>1, EndsCount
<1>3. ASSUME NEW k \in 1 .. m + 1 PROVE Column(s, k) \in Int
  <2>1. k \in Nat \ {0} /\ \A e \in Ends(s, k) : e \in Int
    BY <1>1 DEF Ends
  <2> QED BY <2>1, ColumnFrom
<1>4. ASSUME NEW k \in 1 .. m, NewlinesBefore(s, k) = NewlinesBefore(s, m + 1)
      PROVE  Column(s, k) < Column(s, m + 1)
  <2>1. Ends(s, k) = Ends(s, m + 1)
    BY <1>1, <1>2, <1>4
  <2>2. k \in Nat \ {0} /\ m + 1 \in Nat /\ k <= m + 1
    BY <1>1
  <2>3. Column(s, m + 1) = Column(s, k) + ((m + 1) - k)
    BY <2>1, <2>2, SameColumn
  <2>4. Column(s, k) \in Int
    BY <1>1, <1>3
  <2> QED BY <1>1, <2>2, <2>3, <2>4
<1>5. Column(s, m + 1) \in Nat
  <2>1. m + 1 \in Nat \ {0} /\ \A e \in Ends(s, m + 1) : e \in Int /\ e <= m
    BY <1>1 DEF Ends
  <2>2. CASE Ends(s, m + 1) = {}
    <3>1. Column(s, m + 1) = (m + 1) - 1
      BY <2>1, <2>2, ColumnFrom
    <3> QED BY <1>1, <3>1
  <2>3. CASE Ends(s, m + 1) # {}
    <3>1. PICK e \in Ends(s, m + 1) : Column(s, m + 1) = (m + 1) - 1 - e
      BY <2>1, <2>3, ColumnFrom
    <3> QED BY <1>1, <2>1, <3>1
  <2> QED BY <2>2, <2>3
<1> QED BY <1>1, <1>2, <1>3, <1>4, <1>5 DEF m

\* What makes a text plain makes its beginning plain, and leaves room in the
\* last row for a character more.
LEMMA PlainAppend ==
    ASSUME NEW s \in Seq(Char), NEW c \in Char, Plain(Append(s, c))
    PROVE  /\ Plain(s) /\ c \notin Special \ {"nl"}
           /\ c # "nl" => Column(s, Len(s) + 1) < TTY_WIDTH
<1> DEFINE z == Append(s, c)
           m == Len(s)
<1>1. m \in Nat /\ Len(z) = m + 1 /\ z[m + 1] = c /\ \A k \in 1 .. m : z[k] = s[k]
  BY AppendProperties, LenProperties
<1>2. /\ \A k \in 1 .. Len(z) : z[k] \notin Special \ {"nl"}
      /\ \A j, k \in 1 .. Len(z) :
            j <= k /\ (\A i \in j .. k : z[i] # "nl") => k - j < TTY_WIDTH
  BY DEF Plain
<1> HIDE DEF z, m
<1>3. c \notin Special \ {"nl"}
  <2>1. m + 1 \in 1 .. Len(z)
    BY <1>1
  <2> QED BY <1>1, <1>2, <2>1
<1>4. Plain(s)
  <2>1. ASSUME NEW k \in 1 .. m PROVE s[k] \notin Special \ {"nl"}
    <3>1. k \in 1 .. Len(z) /\ z[k] = s[k]
      BY <1>1
    <3> QED BY <1>2, <3>1
  <2>2. ASSUME NEW j \in 1 .. m, NEW k \in 1 .. m, j <= k, \A i \in j .. k : s[i] # "nl"
        PROVE  k - j < TTY_WIDTH
    <3>1. j \in 1 .. Len(z) /\ k \in 1 .. Len(z) /\ \A i \in j .. k : i \in 1 .. m
      BY <1>1
    <3>2. \A i \in j .. k : z[i] # "nl"
      BY <1>1, <2>2, <3>1
    <3> QED BY <1>2, <2>2, <3>1, <3>2
  <2> QED BY <2>1, <2>2 DEF Plain, m
<1>5. ASSUME c # "nl" PROVE Column(s, m + 1) < TTY_WIDTH
  <2>1. m + 1 \in Nat \ {0} /\ m + 1 \in 1 .. Len(z)
    BY <1>1
  <2>2. ASSUME NEW e \in 0 .. m, \A i \in Ends(s, m + 1) : i <= e
        PROVE  m - e < TTY_WIDTH
    <3>1. ASSUME NEW i \in e + 1 .. m + 1 PROVE z[i] # "nl"
      <4>1. CASE i = m + 1
        BY <1>1, <1>5, <4>1
      <4>2. CASE i # m + 1
        <5>1. i \in 1 .. m /\ i > e
          BY <1>1, <4>2
        <5>2. i \notin Ends(s, m + 1)
          BY <2>2, <5>1
        <5> QED BY <1>1, <5>1, <5>2 DEF Ends
      <4> QED BY <4>1, <4>2
    <3>2. e + 1 \in 1 .. Len(z) /\ e + 1 <= m + 1
      BY <1>1
    <3>3. (m + 1) - (e + 1) < TTY_WIDTH
      BY <1>2, <2>1, <3>1, <3>2
    <3> QED BY <1>1, <3>3
  <2>3. CASE Ends(s, m + 1) = {}
    <3>1. Column(s, m + 1) = (m + 1) - 1
      BY <2>1, <2>3, ColumnFrom
    <3>2. m - 0 < TTY_WIDTH
      BY <1>1, <2>2, <2>3
    <3> QED BY <1>1, <3>1, <3>2
  <2>4. CASE Ends(s, m + 1) # {}
    <3>1. PICK e \in Ends(s, m + 1) : /\ \A i \in Ends(s, m + 1) : i <= e
                                      /\ Column(s, m + 1) = (m + 1) - 1 - e
      BY <2>1, <2>4, ColumnFrom
    <3>2. e \in 0 .. m
      BY <1>1 DEF Ends
    <3>3. m - e < TTY_WIDTH
      BY <2>2, <3>1, <3>2
    <3> QED BY <1>1, <3>1, <3>2, <3>3
  <2> QED BY <2>3, <2>4
<1> QED BY <1>3, <1>4, <1>5 DEF m

\* The positions of a text whose character is in a row and a column.
Here(s, x, y) == {k \in 1 .. Len(s) : /\ s[k] # "nl"
                                      /\ NewlinesBefore(s, k) = Top(s) + y
                                      /\ Column(s, k) = x}

\* What is shown there is one of their characters.
LEMMA ShownHere ==
    ASSUME NEW s, NEW x, NEW y
    PROVE  Shown(s, x, y) = IF Here(s, x, y) = {} THEN Space
                            ELSE s[CHOOSE k \in Here(s, x, y) : TRUE]
BY DEF Shown, Here, Top

\* The same characters show the same.
LEMMA ShownAlike ==
    ASSUME NEW s, NEW z, NEW x, NEW y, NEW v, NEW w, Here(z, x, y) = Here(s, v, w),
           \A k \in Here(s, v, w) : z[k] = s[k]
    PROVE  Shown(z, x, y) = Shown(s, v, w)
<1> DEFINE here == Here(s, v, w)
           k == CHOOSE j \in here : TRUE
<1>1. CASE here = {}
  BY <1>1, ShownHere
<1>2. CASE here # {}
  <2>1. k \in here
    BY <1>2
  <2>2. z[k] = s[k]
    BY <2>1
  <2>3. Shown(s, v, w) = s[k]
    BY <1>2, ShownHere
  <2>4. Shown(z, x, y) = z[k]
    BY <1>2, ShownHere
  <2> QED BY <2>2, <2>3, <2>4
<1> QED BY <1>1, <1>2

\* The row of the end of a text.
Row(s) == NewlinesBefore(s, Len(s) + 1) - Top(s)

\* It is on the screen.
LEMMA RowOnScreen ==
    ASSUME NEW s \in Seq(Char)
    PROVE  /\ Top(s) \in Nat /\ Row(s) \in 0 .. TTY_HEIGHT - 1
           /\ Top(s) = IF NewlinesBefore(s, Len(s) + 1) < TTY_HEIGHT THEN 0
                       ELSE NewlinesBefore(s, Len(s) + 1) - TTY_HEIGHT + 1
<1>1. TTY_HEIGHT \in Nat \ {0}
  BY VgaAssumption DEF TTY_HEIGHT
<1>2. Len(s) + 1 \in 1 .. Len(s) + 1
  BY LenProperties
<1>3. NewlinesBefore(s, Len(s) + 1) \in Nat
  BY <1>2, EndsLast
<1> QED BY <1>1, <1>3 DEF Top, Row

\* A printable character appears at the end of a text, and nothing else changes.
LEMMA ShownGlyph ==
    ASSUME NEW s \in Seq(Char), NEW c \in Char, c # "nl"
    PROVE  LET z == Append(s, c)
           IN  /\ Row(z) = Row(s) /\ Column(z, Len(z) + 1) = Column(s, Len(s) + 1) + 1
               /\ \A x, y \in Nat :
                     Shown(z, x, y) = IF x = Column(s, Len(s) + 1) /\ y = Row(s) THEN c
                                      ELSE Shown(s, x, y)
<1> DEFINE z == Append(s, c)
           m == Len(s)
<1>1. m \in Nat /\ Len(z) = m + 1 /\ z[m + 1] = c /\ \A k \in 1 .. m : z[k] = s[k]
  BY AppendProperties, LenProperties
<1>2. /\ \A k \in 1 .. m + 1 : /\ NewlinesBefore(z, k) = NewlinesBefore(s, k)
                               /\ Column(z, k) = Column(s, k)
      /\ NewlinesBefore(z, m + 2) = NewlinesBefore(s, m + 1)
      /\ Column(z, m + 2) = Column(s, m + 1) + 1
  BY PlaceAppend
<1>3. /\ Column(s, m + 1) \in Nat
      /\ \A k \in 1 .. m : NewlinesBefore(s, k) = NewlinesBefore(s, m + 1) =>
                               Column(s, k) \in Int /\ Column(s, k) < Column(s, m + 1)
      /\ \A k \in 1 .. m + 1 : NewlinesBefore(s, k) \in Nat
  BY EndsLast
<1>4. Top(s) \in Nat /\ Row(s) = NewlinesBefore(s, m + 1) - Top(s)
  BY RowOnScreen DEF Row
<1> HIDE DEF z, m
<1>5. Len(z) + 1 = m + 2
  BY <1>1
<1>6. Top(z) = Top(s) /\ Row(z) = Row(s)
  BY <1>2, <1>5 DEF Top, Row, m
<1>7. ASSUME NEW x \in Nat, NEW y \in Nat
      PROVE  Shown(z, x, y) = IF x = Column(s, m + 1) /\ y = Row(s) THEN c ELSE Shown(s, x, y)
  <2>1. m + 1 \in Here(z, x, y) <=> x = Column(s, m + 1) /\ y = Row(s)
    <3>1. m + 1 \in 1 .. Len(z) /\ m + 1 \in 1 .. m + 1 /\ NewlinesBefore(s, m + 1) \in Nat
      BY <1>1, <1>3
    <3>2. m + 1 \in Here(z, x, y) <=>
              NewlinesBefore(s, m + 1) = Top(s) + y /\ Column(s, m + 1) = x
      BY <1>1, <1>2, <1>6, <3>1 DEF Here
    <3> QED BY <1>4, <3>1, <3>2
  <2>2. \A k \in 1 .. m : k \in Here(z, x, y) <=> k \in Here(s, x, y)
    <3> SUFFICES ASSUME NEW k \in 1 .. m PROVE k \in Here(z, x, y) <=> k \in Here(s, x, y)
      OBVIOUS
    <3>1. k \in 1 .. Len(z) /\ k \in 1 .. m + 1 /\ k \in 1 .. Len(s)
      BY <1>1 DEF m
    <3> QED BY <1>1, <1>2, <1>6, <3>1 DEF Here
  <2>3. Here(z, x, y) \subseteq 1 .. m + 1 /\ Here(s, x, y) \subseteq 1 .. m
    BY <1>1 DEF Here, m
  <2>4. CASE x = Column(s, m + 1) /\ y = Row(s)
    <3>1. \A k \in 1 .. m : k \notin Here(s, x, y)
      <4> SUFFICES ASSUME NEW k \in 1 .. m, k \in Here(s, x, y) PROVE FALSE
        OBVIOUS
      <4>1. NewlinesBefore(s, k) = Top(s) + y /\ Column(s, k) = x
        BY DEF Here
      <4>2. NewlinesBefore(s, m + 1) = Top(s) + y
        BY <1>1, <1>3, <1>4, <2>4
      <4> QED BY <1>3, <2>4, <4>1, <4>2
    <3>2. Here(z, x, y) = {m + 1}
      <4>1. \A k \in Here(z, x, y) : k = m + 1
        BY <1>1, <2>2, <2>3, <3>1
      <4> QED BY <2>1, <2>4, <4>1
    <3>3. (CHOOSE k \in {m + 1} : TRUE) = m + 1
      OBVIOUS
    <3>4. Shown(z, x, y) = z[m + 1]
      BY <3>2, <3>3, ShownHere
    <3> QED BY <1>1, <2>4, <3>4
  <2>5. CASE ~(x = Column(s, m + 1) /\ y = Row(s))
    <3>1. m + 1 \notin Here(z, x, y)
      BY <2>1, <2>5
    <3>2. \A k \in Here(z, x, y) : k \in 1 .. m
      BY <1>1, <2>3, <3>1
    <3>3. Here(z, x, y) = Here(s, x, y)
      BY <2>2, <2>3, <3>2
    <3>4. \A k \in Here(s, x, y) : z[k] = s[k]
      BY <1>1, <2>3
    <3>5. Shown(z, x, y) = Shown(s, x, y)
      BY <3>3, <3>4, ShownAlike
    <3> QED BY <2>5, <3>5
  <2> QED BY <2>4, <2>5
<1> QED BY <1>2, <1>5, <1>6, <1>7 DEF z, m

\* After a newline the text ends in the next row; when that is below the
\* screen, everything is shown one row higher and the last row is empty.
LEMMA ShownNewline ==
    ASSUME NEW s \in Seq(Char), NEW c \in Char, c = "nl"
    PROVE  LET z == Append(s, c)
           IN  /\ Column(z, Len(z) + 1) = 0
               /\ Row(s) < TTY_HEIGHT - 1 =>
                     /\ Row(z) = Row(s) + 1
                     /\ \A x, y \in Nat : Shown(z, x, y) = Shown(s, x, y)
               /\ Row(s) = TTY_HEIGHT - 1 =>
                     /\ Row(z) = TTY_HEIGHT - 1
                     /\ \A x, y \in Nat : Shown(z, x, y) = Shown(s, x, y + 1)
                     /\ \A x \in Nat : Shown(z, x, TTY_HEIGHT - 1) = Space
<1> DEFINE z == Append(s, c)
           m == Len(s)
           n == NewlinesBefore(s, m + 1)
<1>1. m \in Nat /\ Len(z) = m + 1 /\ z[m + 1] = c /\ \A k \in 1 .. m : z[k] = s[k]
  BY AppendProperties, LenProperties
<1>2. /\ \A k \in 1 .. m + 1 : /\ NewlinesBefore(z, k) = NewlinesBefore(s, k)
                               /\ Column(z, k) = Column(s, k)
      /\ NewlinesBefore(z, m + 2) = n + 1 /\ Column(z, m + 2) = 0
  BY PlaceAppend
<1>3. /\ n \in Nat
      /\ \A k \in 1 .. m : NewlinesBefore(s, k) \in Nat /\ NewlinesBefore(s, k) <= n
  <2>1. \A k \in 1 .. m + 1 : NewlinesBefore(s, k) \in Nat /\ NewlinesBefore(s, k) <= n
    BY EndsLast
  <2>2. m + 1 \in 1 .. m + 1 /\ \A k \in 1 .. m : k \in 1 .. m + 1
    BY <1>1
  <2> HIDE DEF m
  <2> QED BY <2>1, <2>2
<1>4. /\ Top(s) = IF n < TTY_HEIGHT THEN 0 ELSE n - TTY_HEIGHT + 1
      /\ Row(s) = n - Top(s)
  BY RowOnScreen DEF Row
<1>5. TTY_HEIGHT \in Nat \ {0}
  BY VgaAssumption DEF TTY_HEIGHT
<1> HIDE DEF z, m, n
<1>6. Len(z) + 1 = m + 2
  BY <1>1
<1>7. /\ Top(z) = IF n + 1 < TTY_HEIGHT THEN 0 ELSE (n + 1) - TTY_HEIGHT + 1
      /\ Row(z) = (n + 1) - Top(z)
  BY <1>2, <1>6 DEF Top, Row
<1>8. ASSUME NEW x \in Nat, NEW y \in Nat, NEW w \in Nat, Top(z) + y = Top(s) + w
      PROVE  Shown(z, x, y) = Shown(s, x, w)
  <2>1. m + 1 \notin Here(z, x, y)
    BY <1>1 DEF Here
  <2>2. \A k \in 1 .. m : k \in Here(z, x, y) <=> k \in Here(s, x, w)
    <3> SUFFICES ASSUME NEW k \in 1 .. m PROVE k \in Here(z, x, y) <=> k \in Here(s, x, w)
      OBVIOUS
    <3>1. k \in 1 .. Len(z) /\ k \in 1 .. m + 1 /\ k \in 1 .. Len(s)
      BY <1>1 DEF m
    <3> QED BY <1>1, <1>2, <1>8, <3>1 DEF Here
  <2>3. Here(z, x, y) \subseteq 1 .. m + 1 /\ Here(s, x, w) \subseteq 1 .. m
    BY <1>1 DEF Here, m
  <2>4. \A k \in Here(z, x, y) : k \in 1 .. m
    BY <1>1, <2>1, <2>3
  <2>5. Here(z, x, y) = Here(s, x, w)
    BY <2>2, <2>3, <2>4
  <2>6. \A k \in Here(s, x, w) : z[k] = s[k]
    BY <1>1, <2>3
  <2> QED BY <2>5, <2>6, ShownAlike
<1>9. ASSUME Row(s) < TTY_HEIGHT - 1 PROVE Top(z) = 0 /\ Top(s) = 0 /\ Row(z) = Row(s) + 1
  BY <1>3, <1>4, <1>5, <1>7, <1>9
<1>10. ASSUME Row(s) = TTY_HEIGHT - 1
       PROVE  /\ Top(z) = Top(s) + 1 /\ Top(s) \in Nat /\ Row(z) = TTY_HEIGHT - 1
              /\ Top(z) + (TTY_HEIGHT - 1) = n + 1
  BY <1>3, <1>4, <1>5, <1>7, <1>10
<1>11. ASSUME Row(s) = TTY_HEIGHT - 1, NEW x \in Nat
       PROVE  Shown(z, x, TTY_HEIGHT - 1) = Space
  <2> SUFFICES ASSUME NEW k \in Here(z, x, TTY_HEIGHT - 1) PROVE FALSE
    BY ShownHere
  <2>1. /\ k \in 1 .. m + 1 /\ z[k] # "nl"
        /\ NewlinesBefore(z, k) = Top(z) + (TTY_HEIGHT - 1)
    BY <1>1 DEF Here
  <2>2. k \in 1 .. m
    BY <1>1, <2>1
  <2>3. NewlinesBefore(z, k) = NewlinesBefore(s, k)
    BY <1>2, <2>1
  <2>4. NewlinesBefore(s, k) \in Nat /\ NewlinesBefore(s, k) <= n
    BY <1>3, <2>2
  <2> QED BY <1>3, <1>10, <1>11, <2>1, <2>3, <2>4
<1>12. ASSUME Row(s) < TTY_HEIGHT - 1, NEW x \in Nat, NEW y \in Nat
       PROVE  Shown(z, x, y) = Shown(s, x, y)
  <2>1. Top(z) + y = Top(s) + y
    BY <1>9, <1>12
  <2> QED BY <1>8, <2>1
<1>13. ASSUME Row(s) = TTY_HEIGHT - 1, NEW x \in Nat, NEW y \in Nat
       PROVE  Shown(z, x, y) = Shown(s, x, y + 1)
  <2>1. Top(z) + y = Top(s) + (y + 1) /\ y + 1 \in Nat
    BY <1>10, <1>13
  <2> QED BY <1>8, <2>1
<1> QED BY <1>2, <1>6, <1>9, <1>10, <1>11, <1>12, <1>13 DEF z, m

\* What tty_update makes of a printable character that falls on the screen, and
\* of a newline.
LEMMA UpdateMoves ==
    ASSUME NEW r \in Terminals, NEW c \in Char
    PROVE  LET u  == tty_update(r, c)
               at == r.x + r.y * TTY_WIDTH
           IN  /\ c \notin Special /\ at \in Cell =>
                     u.buf = [r.buf EXCEPT ![at] = c] /\ u.x = r.x + 1 /\ u.y = r.y
               /\ c = "nl" /\ r.y < TTY_HEIGHT - 1 =>
                     u.buf = r.buf /\ u.x = 0 /\ u.y = r.y + 1
               /\ c = "nl" /\ r.y = TTY_HEIGHT - 1 =>
                     /\ u.buf = [i \in Cell |-> IF i + TTY_WIDTH \in Cell
                                                THEN r.buf[i + TTY_WIDTH] ELSE Space]
                     /\ u.x = 0 /\ u.y = TTY_HEIGHT - 1
<1> DEFINE Rec(b, x, y, f) == [buf |-> b, x |-> x, y |-> y, refresh |-> f,
                               overrun |-> r.overrun]
           at == r.x + r.y * TTY_WIDTH
           u  == tty_update(r, c)
           p  == Put(r, c)
           up == [i \in Cell |-> IF i + TTY_WIDTH \in Cell THEN r.buf[i + TTY_WIDTH] ELSE Space]
<1>1. /\ r.buf \in [Cell -> Glyph] /\ r.x \in Nat /\ r.y \in 0 .. TTY_HEIGHT - 1
      /\ r = Rec(r.buf, r.x, r.y, r.refresh)
  BY DEF Terminals
<1>2. TTY_HEIGHT \in Nat \ {0}
  BY VgaAssumption DEF TTY_HEIGHT
<1>3. u = [Scroll(p) EXCEPT !.refresh = 1]
  BY DEF tty_update
<1>4. Scroll(p) = IF p.y < TTY_HEIGHT THEN p
                  ELSE [p EXCEPT !.y = TTY_HEIGHT - 1,
                                 !.buf = [i \in Cell |-> IF i + TTY_WIDTH \in Cell
                                                         THEN p.buf[i + TTY_WIDTH] ELSE Space]]
  BY DEF Scroll
<1>5. ASSUME c \notin Special, at \in Cell
      PROVE  u.buf = [r.buf EXCEPT ![at] = c] /\ u.x = r.x + 1 /\ u.y = r.y
  <2> DEFINE new == [r.buf EXCEPT ![at] = c]
  <2>1. p = [r EXCEPT !.buf = new, !.x = r.x + 1]
    BY <1>5 DEF Put, Special
  <2> HIDE DEF p, new, u, up
  <2>2. p = Rec(new, r.x + 1, r.y, r.refresh)
    BY <1>1, <2>1
  <2>3. Scroll(p) = Rec(new, r.x + 1, r.y, r.refresh)
    BY <1>1, <1>2, <1>4, <2>2
  <2>4. u = Rec(new, r.x + 1, r.y, 1)
    BY <1>3, <2>3
  <2> QED BY <2>4 DEF new
<1>6. ASSUME c = "nl" PROVE p = Rec(r.buf, 0, r.y + 1, r.refresh)
  <2>1. p = [r EXCEPT !.y = r.y + 1, !.x = 0]
    BY <1>6 DEF Put, Special
  <2> HIDE DEF p, u, up
  <2> QED BY <1>1, <2>1
<1> HIDE DEF p, u
<1>7. ASSUME c = "nl", r.y < TTY_HEIGHT - 1
      PROVE  u.buf = r.buf /\ u.x = 0 /\ u.y = r.y + 1
  <2>1. Scroll(p) = Rec(r.buf, 0, r.y + 1, r.refresh)
    BY <1>1, <1>2, <1>4, <1>6, <1>7
  <2>2. u = Rec(r.buf, 0, r.y + 1, 1)
    BY <1>3, <2>1
  <2> QED BY <2>2
<1>8. ASSUME c = "nl", r.y = TTY_HEIGHT - 1
      PROVE  u.buf = up /\ u.x = 0 /\ u.y = TTY_HEIGHT - 1
  <2>1. p.buf = r.buf /\ ~(p.y < TTY_HEIGHT)
    BY <1>1, <1>2, <1>6, <1>8
  <2>2. Scroll(p) = [p EXCEPT !.y = TTY_HEIGHT - 1, !.buf = up]
    BY <1>4, <2>1
  <2> HIDE DEF up
  <2>3. Scroll(p) = Rec(up, 0, TTY_HEIGHT - 1, r.refresh)
    <3> DEFINE last == TTY_HEIGHT - 1
    <3>1. p = Rec(r.buf, 0, r.y + 1, r.refresh)
      BY <1>6, <1>8
    <3>2. Scroll(p) = [p EXCEPT !.y = last, !.buf = up]
      BY <2>2
    <3> HIDE DEF last
    <3>3. Scroll(p) = Rec(up, 0, last, r.refresh)
      BY <3>1, <3>2
    <3> QED BY <3>3 DEF last
  <2>4. u = Rec(up, 0, TTY_HEIGHT - 1, 1)
    BY <1>3, <2>3
  <2> QED BY <2>4
<1> QED BY <1>5, <1>7, <1>8 DEF u

\* A cell has one row and one column, and the cell a row further on is the one
\* below it.
LEMMA CellsApart ==
    ASSUME NEW x \in 0 .. TTY_WIDTH - 1, NEW y \in 0 .. TTY_HEIGHT - 1
    PROVE  /\ x + y * TTY_WIDTH \in Cell
           /\ \A v \in 0 .. TTY_WIDTH - 1, w \in 0 .. TTY_HEIGHT - 1 :
                 v + w * TTY_WIDTH = x + y * TTY_WIDTH <=> v = x /\ w = y
           /\ y < TTY_HEIGHT - 1 => (x + y * TTY_WIDTH) + TTY_WIDTH = x + (y + 1) * TTY_WIDTH
           /\ y = TTY_HEIGHT - 1 => (x + y * TTY_WIDTH) + TTY_WIDTH \notin Cell
<1>1. /\ TTY_WIDTH = VGA_WIDTH /\ TTY_HEIGHT = VGA_HEIGHT /\ Cell = ScreenCell
      /\ TTY_WIDTH \in Nat \ {0} /\ TTY_HEIGHT \in Nat \ {0}
  BY VgaAssumption DEF TTY_WIDTH, TTY_HEIGHT, Cell, ScreenCell
<1>2. x + y * TTY_WIDTH \in Cell
  BY <1>1, CellAt
<1>3. ASSUME NEW v \in 0 .. TTY_WIDTH - 1, NEW w \in 0 .. TTY_HEIGHT - 1,
             v + w * TTY_WIDTH = x + y * TTY_WIDTH
      PROVE  v = x /\ w = y
  <2>1. /\ (x + y * TTY_WIDTH) % TTY_WIDTH = x /\ (x + y * TTY_WIDTH) \div TTY_WIDTH = y
    BY <1>1, CellAt
  <2>2. /\ (v + w * TTY_WIDTH) % TTY_WIDTH = v /\ (v + w * TTY_WIDTH) \div TTY_WIDTH = w
    BY <1>1, CellAt
  <2>3. (v + w * TTY_WIDTH) % TTY_WIDTH = (x + y * TTY_WIDTH) % TTY_WIDTH
        /\ (v + w * TTY_WIDTH) \div TTY_WIDTH = (x + y * TTY_WIDTH) \div TTY_WIDTH
    BY <1>3
  <2> QED BY <2>1, <2>2, <2>3
<1> DEFINE a == TTY_WIDTH
           h == TTY_HEIGHT
<1> HIDE DEF a, h
<1>4. a \in Nat \ {0} /\ h \in Nat \ {0} /\ x \in 0 .. a - 1 /\ y \in 0 .. h - 1
  BY <1>1 DEF a, h
<1>5. (x + y * a) + a = x + (y + 1) * a
  <2>1. (y + 1) * a = y * a + a /\ y * a \in Nat
    BY <1>4
  <2> QED BY <1>4, <2>1
<1>6. ASSUME y = h - 1 PROVE (x + y * a) + a \notin 0 .. a * h - 1
  <2>1. y + 1 = h
    BY <1>4, <1>6
  <2>2. (x + y * a) + a = x + h * a /\ h * a = a * h /\ a * h \in Nat
    BY <1>4, <1>5, <2>1
  <2> QED BY <1>4, <2>2
<1> QED BY <1>2, <1>3, <1>5, <1>6 DEF a, h, Cell

\* A character more is shown at the end of the text.
LEMMA UpdateShows ==
    ASSUME NEW s \in Seq(Char), NEW c \in Char, NEW r \in Terminals, Shows(s, r)
    PROVE  Shows(Append(s, c), tty_update(r, c))
<1> DEFINE z == Append(s, c)
           u == tty_update(r, c)
<1> SUFFICES ASSUME Plain(z) PROVE Shows(z, u)
  BY DEF Shows
<1>1. /\ Plain(s) /\ c \notin Special \ {"nl"}
      /\ c # "nl" => Column(s, Len(s) + 1) < TTY_WIDTH
  BY PlainAppend
<1>2. /\ r.y = Row(s) /\ r.x = Column(s, Len(s) + 1)
      /\ \A x \in 0 .. TTY_WIDTH - 1, y \in 0 .. TTY_HEIGHT - 1 : Showing(s, r.buf, x, y)
  BY <1>1 DEF Shows, Row
<1>3. /\ r.buf \in [Cell -> Glyph] /\ r.x \in Nat /\ r.y \in 0 .. TTY_HEIGHT - 1
  BY DEF Terminals
<1>4. TTY_HEIGHT \in Nat \ {0} /\ TTY_WIDTH \in Nat \ {0}
  BY VgaAssumption DEF TTY_HEIGHT, TTY_WIDTH
<1> HIDE DEF z, u
<1>5. CASE c # "nl"
  <2> DEFINE at == r.x + r.y * TTY_WIDTH
  <2>1. /\ Row(z) = Row(s) /\ Column(z, Len(z) + 1) = Column(s, Len(s) + 1) + 1
        /\ \A x, y \in Nat :
              Shown(z, x, y) = IF x = Column(s, Len(s) + 1) /\ y = Row(s) THEN c
                               ELSE Shown(s, x, y)
    BY <1>5, ShownGlyph DEF z
  <2>2. r.x \in 0 .. TTY_WIDTH - 1
    BY <1>1, <1>2, <1>3, <1>4, <1>5
  <2>3. c \notin Special /\ c # Zero
    BY <1>1, <1>5, TtyAssumption
  <2>4. at \in Cell
    BY <1>3, <2>2, CellsApart
  <2>5. u.buf = [r.buf EXCEPT ![at] = c] /\ u.x = r.x + 1 /\ u.y = r.y
    BY <2>3, <2>4, UpdateMoves DEF u
  <2>6. ASSUME NEW x \in 0 .. TTY_WIDTH - 1, NEW y \in 0 .. TTY_HEIGHT - 1
        PROVE  Showing(z, u.buf, x, y)
    <3> DEFINE here == x + y * TTY_WIDTH
    <3>1. here \in Cell /\ (here = at <=> x = r.x /\ y = r.y)
      BY <1>3, <2>2, CellsApart
    <3>2. x \in Nat /\ y \in Nat
      BY <1>4
    <3>3. Shown(z, x, y) = IF x = r.x /\ y = r.y THEN c ELSE Shown(s, x, y)
      BY <1>2, <2>1, <3>2
    <3>4. Shown(s, x, y) = IF r.buf[here] = Zero THEN Space ELSE r.buf[here]
      BY <1>2 DEF Showing
    <3> HIDE DEF here, at
    <3>5. u.buf[here] = IF x = r.x /\ y = r.y THEN c ELSE r.buf[here]
      BY <1>3, <2>5, <3>1
    <3>6. Shown(z, x, y) = IF u.buf[here] = Zero THEN Space ELSE u.buf[here]
      BY <2>3, <3>3, <3>4, <3>5
    <3> QED BY <3>6 DEF Showing, here
  <2>7. u.y = Row(z) /\ u.x = Column(z, Len(z) + 1)
    BY <1>2, <2>1, <2>5
  <2> QED BY <2>6, <2>7 DEF Shows, Row
<1>6. CASE c = "nl" /\ r.y < TTY_HEIGHT - 1
  <2>1. /\ Column(z, Len(z) + 1) = 0 /\ Row(z) = Row(s) + 1
        /\ \A x, y \in Nat : Shown(z, x, y) = Shown(s, x, y)
    BY <1>2, <1>6, ShownNewline DEF z
  <2>2. u.buf = r.buf /\ u.x = 0 /\ u.y = r.y + 1
    BY <1>6, UpdateMoves DEF u
  <2>3. ASSUME NEW x \in 0 .. TTY_WIDTH - 1, NEW y \in 0 .. TTY_HEIGHT - 1
        PROVE  Showing(z, u.buf, x, y)
    <3>1. x \in Nat /\ y \in Nat
      BY <1>4
    <3>2. Shown(z, x, y) = Shown(s, x, y) /\ Showing(s, r.buf, x, y)
      BY <1>2, <2>1, <3>1
    <3> QED BY <2>2, <3>2 DEF Showing
  <2> QED BY <1>2, <2>1, <2>2, <2>3 DEF Shows, Row
<1>7. CASE c = "nl" /\ r.y = TTY_HEIGHT - 1
  <2> DEFINE up == [i \in Cell |-> IF i + TTY_WIDTH \in Cell THEN r.buf[i + TTY_WIDTH]
                                   ELSE Space]
  <2>1. /\ Column(z, Len(z) + 1) = 0 /\ Row(z) = TTY_HEIGHT - 1
        /\ \A x, y \in Nat : Shown(z, x, y) = Shown(s, x, y + 1)
        /\ \A x \in Nat : Shown(z, x, TTY_HEIGHT - 1) = Space
    <3>1. Row(s) = TTY_HEIGHT - 1
      BY <1>2, <1>7
    <3> HIDE DEF up
    <3> QED BY <1>7, <3>1, ShownNewline, Zenon DEF z
  <2>2. u.buf = up /\ u.x = 0 /\ u.y = TTY_HEIGHT - 1
    BY <1>7, UpdateMoves DEF u
  <2>3. ASSUME NEW x \in 0 .. TTY_WIDTH - 1, NEW y \in 0 .. TTY_HEIGHT - 1
        PROVE  Showing(z, u.buf, x, y)
    <3> DEFINE here  == x + y * TTY_WIDTH
               below == x + (y + 1) * TTY_WIDTH
    <3>1. x \in Nat /\ y \in Nat /\ here \in Cell
      <4>1. x \in Nat /\ y \in Nat
        BY <1>4
      <4>2. here \in Cell
        BY CellsApart
      <4> QED BY <4>1, <4>2
    <3>2. CASE y < TTY_HEIGHT - 1
      <4>1. here + TTY_WIDTH = below /\ y + 1 \in 0 .. TTY_HEIGHT - 1
        BY <1>4, <3>2, CellsApart
      <4>2. below \in Cell
        BY <4>1, CellsApart
      <4>3. up[here] = r.buf[below]
        BY <3>1, <4>1, <4>2
      <4>4. Shown(z, x, y) = Shown(s, x, y + 1) /\ Showing(s, r.buf, x, y + 1)
        BY <1>2, <2>1, <3>1, <4>1
      <4>5. Shown(s, x, y + 1) = IF r.buf[below] = Zero THEN Space ELSE r.buf[below]
        BY <4>4 DEF Showing
      <4> HIDE DEF up, below
      <4> QED BY <2>2, <4>3, <4>4, <4>5 DEF Showing
    <3>3. CASE y = TTY_HEIGHT - 1
      <4>1. here + TTY_WIDTH \notin Cell
        BY <3>3, CellsApart
      <4>2. up[here] = Space
        BY <3>1, <4>1
      <4>3. Shown(z, x, y) = Space
        BY <2>1, <3>1, <3>3
      <4> HIDE DEF up
      <4> QED BY <2>2, <4>2, <4>3 DEF Showing
    <3> QED BY <1>4, <3>2, <3>3
  <2> QED BY <2>1, <2>2, <2>3 DEF Shows, Row
<1>8. r.y < TTY_HEIGHT - 1 \/ r.y = TTY_HEIGHT - 1
  BY <1>3, <1>4
<1> QED BY <1>5, <1>6, <1>7, <1>8

\* However many characters are drained, they are shown after the others.
LEMMA DrainShows ==
    ASSUME NEW s \in Seq(Char), NEW w \in Seq(Char), NEW r \in Terminals, Shows(s, r)
    PROVE  Shows(s \o w, Drained(r, w))
<1>1. \A q, z : Drained(q, z) = Updates!Folded(q, z)
  BY Zenon DEF Drained, Updates!Folded, Updates!FoldLeft, FoldLeft, Updates!MapThenFoldSet,
               MapThenFoldSet, Updates!Max, Max
<1>2. PICK f \in [0 .. Len(w) -> Terminals] : Updates!Trace(f, r, w)
  BY UpdateType, Updates!Fold, Zenon
<1>3. /\ f[0] = r /\ Drained(r, w) = f[Len(w)]
      /\ \A n \in 1 .. Len(w) : f[n] = tty_update(f[n - 1], w[n])
  BY <1>1, <1>2 DEF Updates!Trace
<1> DEFINE done(n) == s \o SubSeq(w, 1, n)
           T == {n \in 0 .. Len(w) : Shows(done(n), f[n])}
<1>4. Len(w) \in Nat
  BY LenProperties
<1>5. 0 \in T
  <2>1. SubSeq(w, 1, 0) = <<>>
    BY SubSeqEmpty
  <2>2. done(0) = s
    BY <2>1
  <2> HIDE DEF done
  <2> QED BY <1>3, <1>4, <2>2
<1>6. ASSUME NEW n \in 0 .. Len(w) - 1, n \in T PROVE n + 1 \in T
  <2>1. n + 1 \in 1 .. Len(w) /\ (n + 1) - 1 = n /\ n \in 0 .. Len(w) /\ n + 1 \in 0 .. Len(w)
    BY <1>4
  <2>2. w[n + 1] \in Char
    BY <2>1, ElementOfSeq
  <2>3. SubSeq(w, 1, n) \in Seq(Char) /\ SubSeq(w, 1, n + 1) = Append(SubSeq(w, 1, n), w[n + 1])
    <3>1. SubSeq(w, 1, n) \in Seq(Char)
      BY <1>4, <2>1, SubSeqProperties
    <3>2. SubSeq(w, 1, n + 1) = Append(SubSeq(w, 1, n), w[n + 1])
      BY <2>1, SubSeqRecursiveSecond
    <3> QED BY <3>1, <3>2
  <2>4. done(n + 1) = Append(done(n), w[n + 1]) /\ done(n) \in Seq(Char)
    <3> DEFINE a == SubSeq(w, 1, n)
               c == w[n + 1]
    <3>1. a \in Seq(Char) /\ c \in Char /\ done(n + 1) = s \o Append(a, c)
      BY <2>2, <2>3
    <3> HIDE DEF a, c
    <3>2. s \o Append(a, c) = Append(s \o a, c) /\ s \o a \in Seq(Char)
      BY <3>1, SMT
    <3> QED BY <3>1, <3>2 DEF a, c
  <2>5. Shows(done(n), f[n]) /\ f[n] \in Terminals
    BY <1>6, <2>1
  <2>6. f[n + 1] = tty_update(f[n], w[n + 1])
    BY <1>3, <2>1
  <2> HIDE DEF done
  <2>7. Shows(done(n + 1), f[n + 1])
    BY <2>2, <2>4, <2>5, <2>6, UpdateShows
  <2> QED BY <2>1, <2>7
<1>7. 0 .. Len(w) \subseteq T
  <2> HIDE DEF T, done
  <2> QED BY <1>4, <1>5, <1>6, Updates!InductionTo
<1>8. Shows(done(Len(w)), f[Len(w)])
  <2>1. Len(w) \in T
    BY <1>4, <1>7
  <2> HIDE DEF done
  <2> QED BY <2>1
<1>9. SubSeq(w, 1, Len(w)) = w
  BY SubSeqFull
<1> QED BY <1>3, <1>8, <1>9

\* Every terminal shows its text.
TextShown == \A t \in TtyId : Shows(text[t], Terminal(t))

\* It does so after every step.
LEMMA TextShownStep ==
    TtyTypeOK /\ TextType /\ TextShown /\ TtyStep => TextShown'
<1> SUFFICES ASSUME TtyTypeOK, TextType, TextShown, TtyStep PROVE TextShown'
  OBVIOUS
<1>1. ASSUME UNCHANGED <<cells, pos_x, pos_y, text>> PROVE TextShown'
  BY <1>1 DEF TextShown, Shows, Terminal
<1>2. ASSUME NEW n \in TtyId, tty_select(n) PROVE TextShown'
  BY <1>1, <1>2 DEF tty_select
<1>3. ASSUME NEW t \in TtyId, NEW s \in Seq(Char), ksyscall_io_write(t, s) PROVE TextShown'
  BY <1>1, <1>3 DEF ksyscall_io_write, terminal
<1>4. ASSUME NEW t \in TtyId, ksyscall_io_flush(t) PROVE TextShown'
  BY <1>1, <1>4 DEF ksyscall_io_flush, terminal
<1>5. CASE tty_refresh
  <2> DEFINE a == active_tty
             w == io_output[a]
             r == Drained(Terminal(a), w)
  <2>1. /\ a \in TtyId /\ Terminal(a) \in Terminals /\ w \in Seq(Char) /\ text[a] \in Seq(Char)
        /\ cells \in [TtyId -> [Cell -> Glyph]] /\ pos_x \in [TtyId -> Nat]
        /\ pos_y \in [TtyId -> 0 .. TTY_HEIGHT - 1] /\ text \in [TtyId -> Seq(Char)]
    <3>1. a \in TtyId
      BY DEF TtyTypeOK
    <3>2. w \in Seq(Char)
      BY <3>1, OutputType
    <3>3. Terminal(a) \in Terminals
      BY <3>1 DEF TtyTypeOK, Terminal, Terminals
    <3> QED BY <3>1, <3>2, <3>3 DEF TtyTypeOK, TextType
  <2>2. /\ cells' = [cells EXCEPT ![a] = r.buf]
        /\ pos_x' = [pos_x EXCEPT ![a] = r.x]
        /\ pos_y' = [pos_y EXCEPT ![a] = r.y]
        /\ text' = [text EXCEPT ![a] = @ \o w]
    BY <1>5, RefreshStep
  <2>3. Shows(text[a] \o w, r)
    BY <2>1, DrainShows DEF TextShown
  <2> HIDE DEF r, w, a
  <2> SUFFICES ASSUME NEW t \in TtyId PROVE Shows(text[t], Terminal(t))'
    BY DEF TextShown
  <2>4. /\ Terminal(t)'.buf = cells'[t] /\ Terminal(t)'.x = pos_x'[t]
        /\ Terminal(t)'.y = pos_y'[t]
        /\ Terminal(t).buf = cells[t] /\ Terminal(t).x = pos_x[t]
        /\ Terminal(t).y = pos_y[t]
    BY DEF Terminal
  <2>5. CASE t = a
    <3>1. /\ text'[t] = text[a] \o w /\ Terminal(t)'.buf = r.buf /\ Terminal(t)'.x = r.x
          /\ Terminal(t)'.y = r.y
      BY <2>1, <2>2, <2>4, <2>5
    <3> QED BY <2>3, <3>1 DEF Shows
  <2>6. CASE t # a
    <3>1. /\ text'[t] = text[t] /\ Terminal(t)'.buf = Terminal(t).buf
          /\ Terminal(t)'.x = Terminal(t).x /\ Terminal(t)'.y = Terminal(t).y
      BY <2>1, <2>2, <2>4, <2>6
    <3>2. Shows(text[t], Terminal(t))
      BY DEF TextShown
    <3> QED BY <3>1, <3>2 DEF Shows
  <2> QED BY <2>5, <2>6
<1>6. CASE DrawStep
  BY <1>1, <1>6 DEF DrawStep, terminal
<1>7. CASE UNCHANGED vars
  BY <1>1, <1>7 DEF vars, terminal
<1> QED BY <1>2, <1>3, <1>4, <1>5, <1>6, <1>7 DEF TtyStep

\* A terminal that nothing was written to is empty.
LEMMA TextShownInit == ConsoleInit => TextShown
<1> SUFFICES ASSUME ConsoleInit, NEW t \in TtyId PROVE Shows(text[t], Terminal(t))
  BY DEF TextShown
<1>1. /\ cells[t] = [i \in Cell |-> Zero] /\ pos_x[t] = 0 /\ pos_y[t] = 0 /\ text[t] = <<>>
  BY DEF ConsoleInit, Init
<1>2. Terminal(t).buf = cells[t] /\ Terminal(t).x = 0 /\ Terminal(t).y = 0
  BY <1>1 DEF Terminal
<1>3. TTY_HEIGHT \in Nat \ {0} /\ Len(<<>>) = 0
  BY VgaAssumption DEF TTY_HEIGHT
<1>4. Ends(<<>>, 1) = {}
  BY DEF Ends
<1>5. NewlinesBefore(<<>>, 1) = 0 /\ Column(<<>>, 1) = 0
  <2>1. NewlinesBefore(<<>>, 1) = Cardinality(Ends(<<>>, 1))
    BY DEF NewlinesBefore, Ends
  <2>2. 1 \in Nat \ {0} /\ 1 - 1 = 0
    OBVIOUS
  <2>3. Column(<<>>, 1) = 1 - 1
    BY <1>4, <2>2, ColumnFrom
  <2>4. Cardinality(Ends(<<>>, 1)) = 0
    BY <1>4, FS_EmptySet
  <2> QED BY <2>1, <2>2, <2>3, <2>4
<1>6. Top(<<>>) = 0
  BY <1>3, <1>5 DEF Top
<1>7. ASSUME NEW x \in 0 .. TTY_WIDTH - 1, NEW y \in 0 .. TTY_HEIGHT - 1
      PROVE  Showing(<<>>, cells[t], x, y)
  <2>1. Here(<<>>, x, y) = {}
    BY <1>3 DEF Here
  <2>2. Shown(<<>>, x, y) = Space
    BY <2>1, ShownHere
  <2>3. x + y * TTY_WIDTH \in Cell
    BY CellsApart
  <2>4. cells[t][x + y * TTY_WIDTH] = Zero
    BY <1>1, <2>3
  <2> QED BY <2>2, <2>4 DEF Showing
<1>8. NewlinesBefore(<<>>, Len(<<>>) + 1) - Top(<<>>) = 0 /\ Column(<<>>, Len(<<>>) + 1) = 0
  BY <1>3, <1>5, <1>6
<1> QED BY <1>1, <1>2, <1>7, <1>8 DEF Shows

\* A terminal shows the last lines of what was written to it, in order, for
\* every size of the screen, however the writes were cut up and drained: as
\* long as the text is lines of printable characters that fit into a row.
THEOREM TerminalsShowText == ConsoleSpec => []ShowsText
<1> DEFINE Inv == ConsoleInv /\ TextShown
<1>1. ConsoleInit => Inv
  BY ConsoleInitInv, TextShownInit
<1>2. Inv /\ [ConsoleNext]_allVars => Inv'
  <2> SUFFICES ASSUME ConsoleInv, TextShown, [ConsoleNext]_allVars
               PROVE  ConsoleInv' /\ TextShown'
    OBVIOUS
  <2>1. ConsoleInv' /\ TtyStep
    BY ConsoleNextInv, ConsoleStep DEF ConsoleInv
  <2>2. TextShown'
    BY <2>1, TextShownStep DEF ConsoleInv, ConsoleTypeOK
  <2> QED BY <2>1, <2>2
<1>3. Inv => ShowsText
  <2> SUFFICES ASSUME TextShown, NEW t \in TtyId, Plain(text[t]),
                      NEW x \in 0 .. TTY_WIDTH - 1, NEW y \in 0 .. TTY_HEIGHT - 1
               PROVE  Showing(text[t], cells[t], x, y)
    BY DEF ShowsText, Showing
  <2>1. Showing(text[t], Terminal(t).buf, x, y)
    BY DEF TextShown, Shows
  <2> QED BY <2>1 DEF Terminal
<1> QED BY <1>1, <1>2, <1>3, PTL DEF ConsoleSpec
-----------------------------------------------------------------------------
\* Leaving out a newline leaves a sequence of characters.
LEMMA KeepType == \A s \in Seq(Char), c \in Char : Keep(s, c) \in Seq(Char)
BY DEF Keep

\* NoNewlines is the fold of Keep.
LEMMA NoNewlinesFolds == \A s : NoNewlines(s) = Kept!Folded(<<>>, s)
BY Zenon DEF NoNewlines, Kept!Folded, Kept!FoldLeft, FoldLeft, Kept!MapThenFoldSet,
             MapThenFoldSet, Kept!Max, Max

\* Of nothing nothing is left, and of one character the character unless it
\* is a newline.
LEMMA NoNewlinesOne ==
    /\ NoNewlines(<<>>) = <<>>
    /\ \A s \in Seq(Char) : NoNewlines(s) \in Seq(Char)
    /\ \A c \in Char : NoNewlines(<<c>>) = IF c = "nl" THEN <<>> ELSE <<c>>
<1> DEFINE e == <<>>
<1>1. e \in Seq(Char)
  OBVIOUS
<1> HIDE DEF e
<1>2. ASSUME NEW s \in Seq(Char) PROVE Kept!Folded(e, s) \in Seq(Char)
  BY <1>1, KeepType, Kept!FoldType, Zenon
<1>3. ASSUME NEW c \in Char PROVE Kept!Folded(e, <<>>) = e /\ Kept!Folded(e, <<c>>) = Keep(e, c)
  BY <1>1, KeepType, Kept!FoldOne
<1>4. Kept!Folded(e, <<>>) = e
  <2>1. <<>> \in Seq(Char) /\ Len(<<>>) = 0
    OBVIOUS
  <2>2. PICK f \in [0 .. Len(<<>>) -> Seq(Char)] : Kept!Trace(f, e, <<>>)
    BY <1>1, <2>1, KeepType, Kept!Fold, Zenon
  <2> QED BY <2>1, <2>2 DEF Kept!Trace
<1>5. \A c \in Char : Keep(<<>>, c) = IF c = "nl" THEN <<>> ELSE <<c>>
  BY DEF Keep
<1> QED BY <1>2, <1>3, <1>4, <1>5, NoNewlinesFolds DEF e

\* Three sequences joined in either order are the same.
Joined(r, s, t) == (r \o s) \o t = r \o (s \o t)

\* They always are.
LEMMA JoinedAlike == \A r, s, t \in Seq(Char) : Joined(r, s, t)
BY ConcatAssociative DEF Joined

\* A sequence and one more character after another.
LEMMA KeepJoined ==
    ASSUME NEW r \in Seq(Char), NEW s \in Seq(Char), NEW c \in Char
    PROVE  Keep(r \o s, c) = r \o Keep(s, c)
<1> DEFINE one == <<c>>
<1>1. one \in Seq(Char) /\ r \o s \in Seq(Char)
  OBVIOUS
<1>2. Append(r \o s, c) = (r \o s) \o one /\ Append(s, c) = s \o one
  BY <1>1, AppendIsConcat
<1> HIDE DEF one
<1>3. Joined(r, s, one)
  BY <1>1, JoinedAlike, Zenon
<1> QED BY <1>2, <1>3 DEF Keep, Joined

\* What is left of two sequences joined is what is left of each.
LEMMA NoNewlinesJoined ==
    ASSUME NEW r \in Seq(Char), NEW s \in Seq(Char)
    PROVE  NoNewlines(r \o s) = NoNewlines(r) \o NoNewlines(s)
<1> DEFINE e == <<>>
           b == Kept!Folded(e, r)
<1>1. e \in Seq(Char)
  OBVIOUS
<1>2. b \in Seq(Char) /\ b \o e = b
  <2>1. b \in Seq(Char)
    BY NoNewlinesOne, NoNewlinesFolds
  <2> HIDE DEF b
  <2> QED BY <2>1
<1> HIDE DEF e
<1>3. Kept!Folded(e, r \o s) = Kept!Folded(b, s)
  BY <1>1, KeepType, Kept!FoldConcat
<1> HIDE DEF b
<1>4. PICK f \in [0 .. Len(s) -> Seq(Char)] : Kept!Trace(f, b, s)
  BY <1>2, KeepType, Kept!Fold, Zenon
<1>5. PICK g \in [0 .. Len(s) -> Seq(Char)] : Kept!Trace(g, e, s)
  BY <1>1, KeepType, Kept!Fold, Zenon
<1> DEFINE m == Len(s)
           T == {n \in 0 .. m : f[n] = b \o g[n]}
<1>6. m \in Nat /\ \A n \in 1 .. m : s[n] \in Char
  BY ElementOfSeq
<1>7. 0 \in T
  BY <1>2, <1>4, <1>5, <1>6 DEF Kept!Trace
<1>8. ASSUME NEW n \in 0 .. m - 1, n \in T PROVE n + 1 \in T
  <2>1. n + 1 \in 1 .. m /\ n + 1 \in 0 .. m /\ (n + 1) - 1 = n /\ n \in 0 .. m
    BY <1>6
  <2>2. f[n + 1] = Keep(f[n], s[n + 1]) /\ g[n + 1] = Keep(g[n], s[n + 1])
    BY <2>1, <1>4, <1>5 DEF Kept!Trace
  <2>3. g[n] \in Seq(Char) /\ s[n + 1] \in Char /\ f[n] = b \o g[n]
    BY <2>1, <1>6, <1>8
  <2>4. Keep(b \o g[n], s[n + 1]) = b \o Keep(g[n], s[n + 1])
    BY <1>2, <2>3, KeepJoined
  <2> QED BY <2>1, <2>2, <2>3, <2>4
<1>9. 0 .. m \subseteq T
  <2> HIDE DEF T, m
  <2> QED BY <1>6, <1>7, <1>8, Kept!InductionTo
<1>10. f[m] = b \o g[m]
  <2>1. m \in T
    <3> HIDE DEF T, m
    <3> QED BY <1>6, <1>9
  <2> QED BY <2>1
<1>11. Kept!Folded(b, s) = b \o Kept!Folded(e, s)
  BY <1>4, <1>5, <1>10 DEF Kept!Trace
<1> QED BY <1>3, <1>11, NoNewlinesFolds DEF e, b
-----------------------------------------------------------------------------
\* The key of a modifier, Caps Lock or Num Lock has no character.
LEMMA ModifierNull ==
    ASSUME NEW k \in Nat \ {0}, Bit(k) # "none", NEW status
    PROVE  Character(k, status) = KEY_NULL
<1>1. k \in {KEY_CTRL_L, KEY_CTRL_R, KEY_ALT_L, KEY_ALT_R, KEY_SHIFT_L, KEY_SHIFT_R, KEY_CAPS,
             KEY_NUMLOCK}
  BY DEF Bit
<1>2. Len(keyboard_map_primary) = 88
  BY DEF keyboard_map_primary
<1>3. /\ keyboard_map_primary[29] = KEY_NULL /\ keyboard_map_secondary[29] = KEY_NULL
      /\ keyboard_map_primary[56] = KEY_NULL /\ keyboard_map_secondary[56] = KEY_NULL
  BY DEF keyboard_map_primary, keyboard_map_secondary
<1>4. /\ keyboard_map_primary[42] = KEY_NULL /\ keyboard_map_secondary[42] = KEY_NULL
      /\ keyboard_map_primary[54] = KEY_NULL /\ keyboard_map_secondary[54] = KEY_NULL
  BY DEF keyboard_map_primary, keyboard_map_secondary
<1>5. /\ keyboard_map_primary[58] = KEY_NULL /\ keyboard_map_secondary[58] = KEY_NULL
      /\ keyboard_map_primary[69] = KEY_NULL /\ keyboard_map_secondary[69] = KEY_NULL
  BY DEF keyboard_map_primary, keyboard_map_secondary
<1> QED BY <1>1, <1>2, <1>3, <1>4, <1>5
       DEF Character, KEY_CTRL_L, KEY_CTRL_R, KEY_ALT_L, KEY_ALT_R, KEY_SHIFT_L, KEY_SHIFT_R,
           KEY_CAPS, KEY_NUMLOCK
-----------------------------------------------------------------------------
\* The bits of the modifiers are those of the keys that are down, those of the
\* locks are as the presses left them, and no two keys of one modifier are down.
Bits  == kbd_status \cap Momentary = Down /\ kbd_status \cap Toggled = locks
Apart == \A h1, h2 \in held : Bit(h1) = Bit(h2) /\ Bit(h1) \in Momentary => h1 = h2

\* A shell that has not started yet has read nothing.
Fresh(r) == r.line = <<>> /\ r.buf = <<>> /\ r.reading

Starting(t) == shell[t].at # "read" => Fresh(shell[t]) /\ commands[t] = <<>>
\* Nothing was lost, and a line has no newline inside.
Arrives(t)  == typed[t] = commands[t] \o NoNewlines(OnTheWay(t))
OneLine(t)  == NoNewlines(shell[t].line) = shell[t].line

Arrival(t) == Starting(t) /\ OneLine(t) /\ Arrives(t)

\* The inductive invariant of the way of the characters.
InputInv == ~lossy => Bits /\ Apart /\ \A t \in TtyId : Arrival(t)

\* With the modifiers as they are held, the character that is seen is the one
\* that is meant.
LEMMA SeenIsMeant ==
    ASSUME ConsoleTypeOK, Bits, NEW k \in keys
    PROVE  /\ Meant(k) = Seen(k)
           /\ \A c : IsInput(c, Down) <=> IsInput(c, kbd_status)
<1>1. kbd_status \subseteq Momentary \cup Toggled
  BY DEF ConsoleTypeOK
<1>2. Down \cup locks = kbd_status
  BY <1>1 DEF Bits
<1>3. /\ "alt" \in Down <=> "alt" \in kbd_status
      /\ "ctrl" \in Down <=> "ctrl" \in kbd_status
  BY DEF Bits, Momentary
<1> QED BY <1>2, <1>3 DEF Meant, Seen, IsInput, Selects, IsCommand

\* A make code either is no character for the terminal, and counts as none,
\* or goes into the buffer as it is meant; and it sets the bit of a modifier.
LEMMA MakeCodeMoves ==
    ASSUME ConsoleTypeOK, Bits, NEW k \in keys, MakeCode(k), ~Dropped(k)
    PROVE  /\ \/ UNCHANGED <<typed, io_input>>
              \/ \E c \in Char :
                    /\ io_input' = [io_input EXCEPT ![active_tty] = Append(@, c)]
                    /\ typed' = IF c = "nl" THEN typed
                                ELSE [typed EXCEPT ![active_tty] = Append(@, c)]
           /\ \/ Bit(k) \in Momentary /\ kbd_status' = kbd_status \cup {Bit(k)}
              \/ Bit(k) \notin Momentary /\ kbd_status' \cap Momentary = kbd_status \cap Momentary
<1>1. /\ k \in Nat \ {0} /\ Bit(k) \in Momentary \cup Toggled \cup {"none"}
      /\ Seen(k) \in Char \cup {KEY_NULL, KEY_ESCAPE}
  BY KeyTypes, KeyAssumption DEF ConsoleTypeOK
<1>2. /\ Meant(k) = Seen(k)
      /\ IsInput(Meant(k), Down) <=> IsInput(Seen(k), kbd_status)
  BY SeenIsMeant
<1>3. Bit(k) # "none" => Seen(k) = KEY_NULL
  BY <1>1, ModifierNull DEF Seen
<1>4. typed' = IF Seen(k) # "nl" /\ IsInput(Seen(k), kbd_status)
               THEN [typed EXCEPT ![active_tty] = Append(@, Seen(k))] ELSE typed
  BY <1>2 DEF MakeCode
<1>5. "none" \notin Momentary /\ Momentary \cap Toggled = {}
  BY DEF Momentary, Toggled
<1>6. ~IsInput(KEY_NULL, kbd_status)
  BY DEF IsInput
<1>7. CASE StatusKey(k)
  <2>1. Bit(k) \in Momentary \cup Toggled /\ UNCHANGED inputVars
    BY <1>7 DEF StatusKey
  <2>2. UNCHANGED <<typed, io_input>>
    BY <1>3, <1>4, <1>5, <1>6, <2>1 DEF inputVars, Toggled
  <2>3. \/ Bit(k) \in Momentary /\ kbd_status' = kbd_status \cup {Bit(k)}
        \/ Bit(k) \notin Momentary /\ kbd_status' \cap Momentary = kbd_status \cap Momentary
    <3>1. CASE Bit(k) \in Momentary
      BY <1>5, <1>7, <3>1 DEF StatusKey
    <3>2. CASE Bit(k) \notin Momentary
      BY <1>7, <3>2 DEF StatusKey
    <3> QED BY <3>1, <3>2
  <2> QED BY <2>2, <2>3
<1>8. ASSUME UNCHANGED kbd_status, Bit(k) = "none" \/ Seen(k) # KEY_NULL
      PROVE  \/ Bit(k) \in Momentary /\ kbd_status' = kbd_status \cup {Bit(k)}
             \/ Bit(k) \notin Momentary /\ kbd_status' \cap Momentary = kbd_status \cap Momentary
  BY <1>3, <1>5, <1>8
<1>9. ASSUME ~IsInput(Seen(k), kbd_status), UNCHANGED <<kbd_status, inputVars>>,
             Bit(k) = "none" \/ Seen(k) # KEY_NULL
      PROVE  /\ UNCHANGED <<typed, io_input>>
             /\ \/ Bit(k) \in Momentary /\ kbd_status' = kbd_status \cup {Bit(k)}
                \/ Bit(k) \notin Momentary /\ kbd_status' \cap Momentary = kbd_status \cap Momentary
  BY <1>4, <1>8, <1>9 DEF inputVars
<1>10. CASE SelectKey(k)
  <2>1. ~IsInput(Seen(k), kbd_status) /\ UNCHANGED <<kbd_status, inputVars>>
    BY <1>10 DEF SelectKey, IsInput
  <2>2. Seen(k) # KEY_NULL
    <3>1. PICK n \in TtyId : Digits[n + 1] = Seen(k)
      BY <1>10 DEF SelectKey
    <3>2. Seen(k) \in ToSet(Digits)
      BY <1>10 DEF SelectKey, Selects
    <3>3. ToSet(Digits) = {Digits[i] : i \in 1 .. 10}
      BY DEF ToSet, Digits
    <3>4. \A i \in 1 .. 10 : Digits[i] # KEY_NULL
      BY DEF Digits, KEY_NULL, Zero
    <3> QED BY <3>2, <3>3, <3>4
  <2> QED BY <1>9, <2>1, <2>2
<1>11. CASE EscapeKey(k)
  <2>1. ~IsInput(Seen(k), kbd_status) /\ UNCHANGED <<kbd_status, inputVars>>
    BY <1>11 DEF EscapeKey, IsInput
  <2>2. Seen(k) # KEY_NULL
    BY <1>11 DEF EscapeKey, KEY_NULL, KEY_ESCAPE, Zero
  <2> QED BY <1>9, <2>1, <2>2
<1>12. CASE OtherKey(k)
  <2>1. /\ ~IsInput(Seen(k), kbd_status) /\ UNCHANGED <<kbd_status, inputVars>>
        /\ Bit(k) = "none"
    BY <1>12 DEF OtherKey, IsInput
  <2> QED BY <1>9, <2>1
<1>13. CASE InputKey(k)
  <2>1. /\ Bit(k) = "none" /\ IsInput(Seen(k), kbd_status) /\ tty_input(Seen(k))
        /\ UNCHANGED kbd_status
    BY <1>13 DEF InputKey
  <2>2. Seen(k) \in Char
    BY <1>1, <2>1 DEF IsInput
  <2>3. Len(io_input[active_tty]) # RINGBUF_SIZE
    BY <2>1 DEF Dropped
  <2>4. io_input' = [io_input EXCEPT ![active_tty] = Append(@, Seen(k))]
    BY <2>1, <2>3 DEF tty_input
  <2>5. typed' = IF Seen(k) = "nl" THEN typed
                 ELSE [typed EXCEPT ![active_tty] = Append(@, Seen(k))]
    BY <1>4, <2>1
  <2> QED BY <1>8, <2>1, <2>2, <2>4, <2>5
<1> QED BY <1>7, <1>9, <1>10, <1>11, <1>12, <1>13 DEF MakeCode

\* A make code toggles the bit of a lock key, and of no other.
LEMMA MakeCodeLocks ==
    ASSUME ConsoleTypeOK, NEW k \in keys, MakeCode(k)
    PROVE  IF Bit(k) \in Toggled
           THEN kbd_status' = (kbd_status \cup {Bit(k)}) \ (kbd_status \cap {Bit(k)})
           ELSE kbd_status' \cap Toggled = kbd_status \cap Toggled
<1>1. k \in Nat \ {0} /\ "none" \notin Toggled /\ Momentary \cap Toggled = {}
  BY KeyAssumption DEF ConsoleTypeOK, Toggled, Momentary
<1>2. CASE Bit(k) \in Toggled
  <2>1. Seen(k) = KEY_NULL
    BY <1>1, <1>2, ModifierNull DEF Seen
  <2>2. ~SelectKey(k)
    <3>1. ToSet(Digits) = {Digits[i] : i \in 1 .. 10}
      BY DEF ToSet, Digits
    <3>2. \A i \in 1 .. 10 : Digits[i] # KEY_NULL
      BY DEF Digits, KEY_NULL, Zero
    <3> QED BY <2>1, <3>1, <3>2 DEF SelectKey, Selects
  <2>3. ~EscapeKey(k)
    BY <2>1 DEF EscapeKey, KEY_NULL, KEY_ESCAPE, Zero
  <2>4. ~OtherKey(k) /\ ~InputKey(k)
    BY <1>1, <1>2 DEF OtherKey, InputKey
  <2>5. StatusKey(k) /\ Bit(k) \notin Momentary
    BY <1>1, <1>2, <2>2, <2>3, <2>4 DEF MakeCode
  <2>6. kbd_status' = IF Bit(k) \in kbd_status THEN kbd_status \ {Bit(k)}
                      ELSE kbd_status \cup {Bit(k)}
    BY <2>5 DEF StatusKey
  <2> QED BY <1>2, <2>6
<1>3. CASE Bit(k) \notin Toggled
  <2>1. CASE StatusKey(k)
    BY <1>1, <1>3, <2>1 DEF StatusKey
  <2>2. CASE SelectKey(k) \/ EscapeKey(k) \/ OtherKey(k) \/ InputKey(k)
    BY <1>3, <2>2 DEF SelectKey, EscapeKey, OtherKey, InputKey
  <2> QED BY <1>3, <2>1, <2>2 DEF MakeCode
<1> QED BY <1>2, <1>3

\* Three sequences joined one way or the other.
LEMMA JoinAgain ==
    \A a, b, c \in Seq(Char) :
        (a \o b) \o c = a \o (b \o c) /\ (a \o b) \o c \in Seq(Char) /\ a \o b \in Seq(Char)
<1> SUFFICES ASSUME NEW a \in Seq(Char), NEW b \in Seq(Char), NEW c \in Seq(Char)
             PROVE  /\ (a \o b) \o c = a \o (b \o c)
                    /\ (a \o b) \o c \in Seq(Char) /\ a \o b \in Seq(Char)
  OBVIOUS
<1>1. a \o b \in Seq(Char)
  OBVIOUS
<1>2. (a \o b) \o c \in Seq(Char)
  BY <1>1
<1>3. (a \o b) \o c = a \o (b \o c)
  BY ConcatAssociative
<1> QED BY <1>1, <1>2, <1>3

\* A sequence and nothing.
LEMMA JoinNothing ==
    ASSUME NEW S, NEW a \in Seq(S)
    PROVE  a \o <<>> = a /\ <<>> \o a = a /\ <<>> \in Seq(S)
OBVIOUS

\* What is on its way to a command.
LEMMA OnTheWayType ==
    ASSUME ConsoleTypeOK, NEW t \in TtyId
    PROVE  /\ OnTheWay(t) \in Seq(Char)
           /\ OnTheWay(t) = shell[t].line \o (shell[t].buf \o io_input[t])
<1>1. shell[t].line \in Seq(Char) /\ shell[t].buf \in Seq(Char) /\ io_input[t] \in Seq(Char)
  BY ShellFields
<1> DEFINE l == shell[t].line
           b == shell[t].buf
           i == io_input[t]
<1>2. OnTheWay(t) = (l \o b) \o i
  BY DEF OnTheWay
<1> HIDE DEF l, b, i
<1>3. (l \o b) \o i = l \o (b \o i) /\ (l \o b) \o i \in Seq(Char)
  <2>1. l \in Seq(Char) /\ b \in Seq(Char) /\ i \in Seq(Char)
    BY <1>1 DEF l, b, i
  <2>2. Joined(l, b, i)
    BY <2>1, JoinedAlike, Zenon
  <2>3. l \o b \in Seq(Char)
    BY <2>1
  <2>4. (l \o b) \o i \in Seq(Char)
    BY <2>1, <2>3
  <2> QED BY <2>2, <2>4 DEF Joined
<1> QED BY <1>2, <1>3 DEF l, b, i

\* A character that is typed arrives.
LEMMA TypedMoves ==
    ASSUME ConsoleTypeOK, NEW t \in TtyId, Arrives(t), NEW c \in Char,
           UNCHANGED <<shell, commands>>,
           io_input' = [io_input EXCEPT ![t] = Append(@, c)],
           typed' = IF c = "nl" THEN typed ELSE [typed EXCEPT ![t] = Append(@, c)]
    PROVE  Arrives(t)'
<1> DEFINE one == <<c>>
           way == OnTheWay(t)
           kept == NoNewlines(way)
<1>1. /\ io_input[t] \in Seq(Char) /\ typed[t] \in Seq(Char) /\ commands[t] \in Seq(Char)
      /\ io_input \in [TtyId -> BoundedSeq(Char, RINGBUF_SIZE)] /\ typed \in [TtyId -> Seq(Char)]
      /\ shell[t].line \in Seq(Char) /\ shell[t].buf \in Seq(Char)
  BY ShellFields DEF ConsoleTypeOK
<1>2. way \in Seq(Char) /\ kept \in Seq(Char) /\ one \in Seq(Char)
  <2>0. one \in Seq(Char)
    OBVIOUS
  <2> HIDE DEF one
  <2>1. way \in Seq(Char) /\ one \in Seq(Char)
    BY <2>0, OnTheWayType
  <2> HIDE DEF way
  <2>2. kept \in Seq(Char)
    BY <2>1, NoNewlinesOne
  <2> QED BY <2>1, <2>2
<1>3. io_input'[t] = io_input[t] \o one
  BY <1>1, AppendIsConcat
<1>4. OnTheWay(t)' = way \o one
  <2>1. OnTheWay(t)' = (shell[t].line \o shell[t].buf) \o (io_input[t] \o one)
    BY <1>3 DEF OnTheWay
  <2>2. shell[t].line \o shell[t].buf \in Seq(Char)
    BY <1>1, JoinAgain
  <2>3. way \o one = (shell[t].line \o shell[t].buf) \o (io_input[t] \o one)
    <3> DEFINE x == shell[t].line \o shell[t].buf
               i == io_input[t]
    <3>1. x \in Seq(Char) /\ i \in Seq(Char) /\ one \in Seq(Char) /\ way = x \o i
      BY <1>1, <1>2, <2>2 DEF OnTheWay
    <3> HIDE DEF x, i, one, way
    <3>2. (x \o i) \o one = x \o (i \o one)
      BY <3>1, JoinAgain
    <3>3. way \o one = x \o (i \o one)
      BY <3>1, <3>2
    <3> QED BY <3>3 DEF x, i
  <2> QED BY <2>1, <2>3
<1>5. NoNewlines(OnTheWay(t)') = kept \o NoNewlines(one)
  <2> HIDE DEF way, one
  <2>1. NoNewlines(way \o one) = NoNewlines(way) \o NoNewlines(one)
    BY <1>2, NoNewlinesJoined
  <2> QED BY <1>4, <2>1
<1>6. typed[t] = commands[t] \o kept
  BY DEF Arrives
<1>7. CASE c = "nl"
  <2>1. NoNewlines(one) = <<>> /\ typed' = typed
    BY <1>7, NoNewlinesOne
  <2> HIDE DEF kept, one
  <2>2. kept \o NoNewlines(one) = kept
    BY <1>2, <2>1, JoinNothing
  <2> QED BY <1>5, <1>6, <2>1, <2>2 DEF Arrives
<1>8. CASE c # "nl"
  <2>1. NoNewlines(one) = one /\ typed'[t] = typed[t] \o one
    BY <1>1, <1>8, NoNewlinesOne, AppendIsConcat
  <2> HIDE DEF kept, one
  <2>2. (commands[t] \o kept) \o one = commands[t] \o (kept \o one)
    <3> DEFINE b == commands[t]
    <3>1. b \in Seq(Char) /\ kept \in Seq(Char) /\ one \in Seq(Char)
      BY <1>1, <1>2
    <3> HIDE DEF b
    <3>2. (b \o kept) \o one = b \o (kept \o one)
      BY <3>1, JoinAgain
    <3> QED BY <3>2 DEF b
  <2> QED BY <1>5, <1>6, <2>1, <2>2 DEF Arrives
<1> QED BY <1>7, <1>8

\* A make code of a key keeps what arrives.
LEMMA MakeCodeArrives ==
    ASSUME ConsoleTypeOK, ~exited, Bits, \A t \in TtyId : Arrival(t),
           NEW k \in keys, MakeCode(k), ~Dropped(k)
    PROVE  \A t \in TtyId : Arrival(t)'
<1>1. UNCHANGED <<shell, commands>>
  BY MakeCodeType
<1>2. ASSUME NEW t \in TtyId PROVE Starting(t)' /\ OneLine(t)' /\ Arrives(t)
  BY <1>1 DEF Arrival, Starting, OneLine, Fresh
<1>3. active_tty \in TtyId /\ typed \in [TtyId -> Seq(Char)]
      /\ io_input \in [TtyId -> BoundedSeq(Char, RINGBUF_SIZE)]
  BY DEF ConsoleTypeOK, TtyTypeOK
<1>4. CASE UNCHANGED <<typed, io_input>>
  BY <1>1, <1>2, <1>4 DEF Arrival, Arrives, OnTheWay
<1>5. ASSUME NEW c \in Char,
             io_input' = [io_input EXCEPT ![active_tty] = Append(@, c)],
             typed' = IF c = "nl" THEN typed ELSE [typed EXCEPT ![active_tty] = Append(@, c)]
      PROVE  \A t \in TtyId : Arrival(t)'
  <2> SUFFICES ASSUME NEW t \in TtyId PROVE Arrives(t)'
    BY <1>2 DEF Arrival
  <2>1. CASE t = active_tty
    BY <1>1, <1>2, <1>5, <2>1, TypedMoves
  <2>2. CASE t # active_tty
    <3>1. typed'[t] = typed[t] /\ io_input'[t] = io_input[t]
      BY <1>3, <1>5, <2>2
    <3> QED BY <1>1, <1>2, <3>1 DEF Arrives, OnTheWay
  <2> QED BY <2>1, <2>2
<1> QED BY <1>4, <1>5, MakeCodeMoves

\* A key that is pressed, repeated or released keeps the bits and what
\* arrives, unless two keys of one modifier are down or a character is lost.
LEMMA KeyStepInput ==
    ASSUME ConsoleTypeOK, ~exited, ~lossy, InputInv, KeyStep PROVE InputInv'
<1> SUFFICES ASSUME ~lossy' PROVE Bits' /\ Apart' /\ \A t \in TtyId : Arrival(t)'
  BY DEF InputInv
<1>1. Bits /\ Apart /\ \A t \in TtyId : Arrival(t)
  BY DEF InputInv
<1>2. ASSUME NEW k \in keys, Press(k)
      PROVE  Bits' /\ Apart' /\ \A t \in TtyId : Arrival(t)'
  <2>1. /\ MakeCode(k) /\ held' = held \cup {k} /\ ~(Bit(k) \in Down) /\ ~Dropped(k)
        /\ k \notin held
    BY <1>2 DEF Press
  <2>2. \A t \in TtyId : Arrival(t)'
    BY <1>1, <2>1, MakeCodeArrives
  <2>3. \/ Bit(k) \in Momentary /\ kbd_status' = kbd_status \cup {Bit(k)}
        \/ Bit(k) \notin Momentary /\ kbd_status' \cap Momentary = kbd_status \cap Momentary
    BY <1>1, <2>1, MakeCodeMoves
  <2>4. Down' = Down \cup ({Bit(k)} \cap Momentary)
    BY <2>1 DEF Down
  <2>5. Bits'
    <3>1. kbd_status' \cap Momentary = Down'
      BY <1>1, <2>3, <2>4 DEF Bits
    <3>2. kbd_status' \cap Toggled = locks'
      <4>1. locks' = IF Bit(k) \notin Toggled THEN locks
                     ELSE (locks \cup {Bit(k)}) \ (locks \cap {Bit(k)})
        BY <1>2 DEF Press
      <4>2. kbd_status \cap Toggled = locks
        BY <1>1 DEF Bits
      <4>3. CASE Bit(k) \in Toggled
        <5>1. kbd_status' = (kbd_status \cup {Bit(k)}) \ (kbd_status \cap {Bit(k)})
          BY <2>1, <4>3, MakeCodeLocks
        <5> QED BY <4>1, <4>2, <4>3, <5>1
      <4>4. CASE Bit(k) \notin Toggled
        <5>1. kbd_status' \cap Toggled = kbd_status \cap Toggled
          BY <2>1, <4>4, MakeCodeLocks
        <5> QED BY <4>1, <4>2, <4>4, <5>1
      <4> QED BY <4>3, <4>4
    <3> QED BY <3>1, <3>2 DEF Bits
  <2>6. \A h \in held : Bit(h) \in Momentary => Bit(h) # Bit(k)
    BY <2>1 DEF Down
  <2>7. Apart'
    BY <1>1, <2>1, <2>6 DEF Apart
  <2> QED BY <2>2, <2>5, <2>7
<1>3. ASSUME NEW k \in keys, Repeat(k)
      PROVE  Bits' /\ Apart' /\ \A t \in TtyId : Arrival(t)'
  <2>1. /\ MakeCode(k) /\ held' = held /\ ~Dropped(k) /\ k \in held
        /\ Bit(k) \notin Toggled /\ locks' = locks
    BY <1>3 DEF Repeat
  <2>2. \A t \in TtyId : Arrival(t)'
    BY <1>1, <2>1, MakeCodeArrives
  <2>3. \/ Bit(k) \in Momentary /\ kbd_status' = kbd_status \cup {Bit(k)}
        \/ Bit(k) \notin Momentary /\ kbd_status' \cap Momentary = kbd_status \cap Momentary
    BY <1>1, <2>1, MakeCodeMoves
  <2>4. Down' = Down /\ (Bit(k) \in Momentary => Bit(k) \in Down)
    BY <2>1 DEF Down
  <2>5. Bits'
    <3>1. kbd_status' \cap Toggled = kbd_status \cap Toggled
      BY <2>1, MakeCodeLocks
    <3> QED BY <1>1, <2>1, <2>3, <2>4, <3>1 DEF Bits
  <2>6. Apart'
    BY <1>1, <2>1 DEF Apart
  <2> QED BY <2>2, <2>5, <2>6
<1>4. ASSUME NEW k \in keys, Release(k)
      PROVE  Bits' /\ Apart' /\ \A t \in TtyId : Arrival(t)'
  <2>1. /\ held' = held \ {k} /\ kbd_status' = kbd_status \ ({Bit(k)} \cap Momentary)
        /\ UNCHANGED <<io_input, shell, commands, typed, locks>> /\ k \in held
    BY <1>4 DEF Release, BreakCode, inputVars
  <2>2. \A t \in TtyId : Arrival(t)'
    BY <1>1, <2>1 DEF Arrival, Starting, Fresh, OneLine, Arrives, OnTheWay
  <2>3. Down' = Down \ {Bit(k)}
    <3>1. ASSUME NEW h \in held, h # k, Bit(h) \in Momentary PROVE Bit(h) # Bit(k)
      BY <1>1, <2>1, <3>1 DEF Apart
    <3> QED BY <2>1, <3>1 DEF Down
  <2>4. Bits'
    <3>1. Momentary \cap Toggled = {}
      BY DEF Momentary, Toggled
    <3> QED BY <1>1, <2>1, <2>3, <3>1 DEF Bits
  <2>5. Apart'
    BY <1>1, <2>1 DEF Apart
  <2> QED BY <2>2, <2>4, <2>5
<1> QED BY <1>2, <1>3, <1>4 DEF KeyStep
-----------------------------------------------------------------------------
\* What is left of a line, a buffer and an input, one after the other.
LEMMA KeptParts ==
    \A a, b, c \in Seq(Char) :
        /\ NoNewlines((a \o b) \o c) = NoNewlines(a) \o (NoNewlines(b) \o NoNewlines(c))
        /\ NoNewlines(a \o b) = NoNewlines(a) \o NoNewlines(b)
        /\ NoNewlines(a) \in Seq(Char)
<1> SUFFICES ASSUME NEW a \in Seq(Char), NEW b \in Seq(Char), NEW c \in Seq(Char)
             PROVE  /\ NoNewlines((a \o b) \o c)
                           = NoNewlines(a) \o (NoNewlines(b) \o NoNewlines(c))
                    /\ NoNewlines(a \o b) = NoNewlines(a) \o NoNewlines(b)
                    /\ NoNewlines(a) \in Seq(Char)
  OBVIOUS
<1> DEFINE ab == a \o b
           x == NoNewlines(a)
           y == NoNewlines(b)
           z == NoNewlines(c)
<1>1. ab \in Seq(Char)
  BY JoinAgain
<1>2. x \in Seq(Char) /\ y \in Seq(Char) /\ z \in Seq(Char)
  BY NoNewlinesOne
<1>3. NoNewlines(ab) = x \o y
  BY NoNewlinesJoined
<1> HIDE DEF ab
<1>4. NoNewlines(ab \o c) = NoNewlines(ab) \o z
  BY <1>1, NoNewlinesJoined
<1> HIDE DEF x, y, z
<1>5. Joined(x, y, z)
  BY <1>2, JoinedAlike, Zenon
<1> QED BY <1>2, <1>3, <1>4, <1>5 DEF ab, x, y, z, Joined

\* A buffer is its first character and the others.
LEMMA HeadAndTail ==
    ASSUME NEW b \in Seq(Char), b # <<>>
    PROVE  /\ Head(b) \in Char /\ Tail(b) \in Seq(Char)
           /\ b = <<Head(b)>> \o Tail(b)
<1>1. Head(b) \in Char /\ Tail(b) \in Seq(Char)
  BY HeadTailProperties
<1>2. b = <<Head(b)>> \o Tail(b)
  <2>1. 1 \in 1 .. Len(b) /\ Len(b) \in 1 .. Len(b)
    <3>1. Len(b) \in Nat /\ Len(b) # 0
      BY EmptySeq
    <3> QED BY <3>1
  <2>2. SubSeq(b, 1, Len(b)) = <<b[1]>> \o SubSeq(b, 2, Len(b))
    <3>1. SubSeq(b, 1, Len(b)) = <<b[1]>> \o SubSeq(b, 1 + 1, Len(b))
      BY <2>1, SubSeqRecursiveFirst
    <3> QED BY <3>1
  <2>3. SubSeq(b, 1, Len(b)) = b
    BY SubSeqFull
  <2>4. Head(b) = b[1]
    OBVIOUS
  <2>5. Tail(b) = SubSeq(b, 2, Len(b))
    OBVIOUS
  <2> QED BY <2>2, <2>3, <2>4, <2>5
<1> QED BY <1>1, <1>2

\* The first characters of an input and the others are the input.
LEMMA CutInput ==
    ASSUME NEW s \in Seq(Char), NEW n \in 1 .. Len(s)
    PROVE  /\ SubSeq(s, 1, n) \o SubSeq(s, n + 1, Len(s)) = s
           /\ SubSeq(s, 1, n) \in Seq(Char) /\ SubSeq(s, n + 1, Len(s)) \in Seq(Char)
<1>1. Len(s) \in Nat
  OBVIOUS
<1>2. SubSeq(s, 1, n) \o SubSeq(s, n + 1, Len(s)) = SubSeq(s, 1, Len(s))
  <2>1. 1 \in 1 .. Len(s) + 1 /\ Len(s) \in 1 - 1 .. Len(s) /\ n \in 1 - 1 .. Len(s)
    BY <1>1
  <2> QED BY <1>1, <2>1, ConcatAdjacentSubSeq
<1>3. SubSeq(s, 1, Len(s)) = s
  BY SubSeqFull
<1>4. SubSeq(s, 1, n) \in Seq(Char) /\ SubSeq(s, n + 1, Len(s)) \in Seq(Char)
  BY <1>1, SubSeqProperties
<1> QED BY <1>2, <1>3, <1>4, Zenon

\* What arrives, in the parts it is in.
Kept3(l, b, i) == NoNewlines(l) \o (NoNewlines(b) \o NoNewlines(i))

\* A line, a buffer and an input joined leave what arrives.
LEMMA KeptTogether ==
    \A a, b, c \in Seq(Char) : NoNewlines((a \o b) \o c) = Kept3(a, b, c)
BY KeptParts, Zenon DEF Kept3

\* A line, a buffer and an input in order, or in parts.
LEMMA ArrivesInParts ==
    ASSUME ConsoleTypeOK, NEW t \in TtyId
    PROVE  Arrives(t) <=>
              typed[t] = commands[t] \o Kept3(shell[t].line, shell[t].buf, io_input[t])
<1>1. shell[t].line \in Seq(Char) /\ shell[t].buf \in Seq(Char) /\ io_input[t] \in Seq(Char)
  BY ShellFields
<1>2. NoNewlines(OnTheWay(t)) = Kept3(shell[t].line, shell[t].buf, io_input[t])
  <2> DEFINE l == shell[t].line
             b == shell[t].buf
             i == io_input[t]
  <2>1. OnTheWay(t) = (l \o b) \o i
    BY DEF OnTheWay
  <2>2. l \in Seq(Char) /\ b \in Seq(Char) /\ i \in Seq(Char)
    BY <1>1
  <2> HIDE DEF l, b, i
  <2>3. NoNewlines((l \o b) \o i) = Kept3(l, b, i)
    BY <2>2, KeptTogether, Zenon
  <2> QED BY <2>1, <2>3 DEF l, b, i
<1> QED BY <1>2 DEF Arrives

\* The same after a step.
LEMMA ArrivesInPartsNext ==
    ASSUME InputTypeOK', NEW t \in TtyId
    PROVE  Arrives(t)' <=>
              typed'[t] = commands'[t] \o Kept3(shell'[t].line, shell'[t].buf, io_input'[t])
<1>1. RINGBUF_SIZE \in Nat /\ io_input'[t] \in BoundedSeq(Char, RINGBUF_SIZE)
  BY TtyAssumption DEF InputTypeOK
<1>2. io_input'[t] \in Seq(Char)
  BY <1>1, Bounded
<1>3. shell'[t].line \in Seq(Char) /\ shell'[t].buf \in Seq(Char)
  BY DEF InputTypeOK, ShellRecord
<1>4. NoNewlines(OnTheWay(t)') = Kept3(shell'[t].line, shell'[t].buf, io_input'[t])
  <2> DEFINE l == shell'[t].line
             b == shell'[t].buf
             i == io_input'[t]
  <2>1. OnTheWay(t)' = (l \o b) \o i
    BY DEF OnTheWay
  <2>2. l \in Seq(Char) /\ b \in Seq(Char) /\ i \in Seq(Char)
    BY <1>2, <1>3
  <2> HIDE DEF l, b, i
  <2>3. NoNewlines((l \o b) \o i) = Kept3(l, b, i)
    BY <2>2, KeptTogether, Zenon
  <2> QED BY <2>1, <2>3 DEF l, b, i
<1> QED BY <1>4 DEF Arrives

\* A character goes from the buffer to the line, or ends it.
LEMMA EchoKeeps ==
    ASSUME NEW l \in Seq(Char), NEW b \in Seq(Char), b # <<>>, NEW i \in Seq(Char),
           NoNewlines(l) = l
    PROVE  /\ Kept3(Keep(l, Head(b)), Tail(b), i) = Kept3(l, b, i)
           /\ NoNewlines(Keep(l, Head(b))) = Keep(l, Head(b))
<1> DEFINE c == Head(b)
           one == <<c>>
           rest == Tail(b)
           more == Keep(l, c)
           u == NoNewlines(one)
           v == NoNewlines(rest)
           w == NoNewlines(i)
<1>1. c \in Char /\ rest \in Seq(Char) /\ b = one \o rest
  BY HeadAndTail
<1>2. one \in Seq(Char) /\ u \in Seq(Char) /\ v \in Seq(Char) /\ w \in Seq(Char)
  <2> HIDE DEF c, rest
  <2>1. one \in Seq(Char)
    BY <1>1
  <2> HIDE DEF one
  <2> QED BY <1>1, <2>1, NoNewlinesOne
<1>3. more = l \o u /\ NoNewlines(more) = more
  <2> HIDE DEF c, rest
  <2>1. CASE c = "nl"
    <3>1. u = <<>> /\ more = l
      BY <1>1, <2>1, NoNewlinesOne DEF Keep
    <3> QED BY <3>1
  <2>2. CASE c # "nl"
    <3>1. u = one /\ more = Append(l, c)
      BY <1>1, <2>2, NoNewlinesOne DEF Keep
    <3>2. Append(l, c) = l \o one
      BY <1>1, AppendIsConcat
    <3> HIDE DEF one, u, more
    <3>3. NoNewlines(l \o one) = NoNewlines(l) \o NoNewlines(one)
      BY <1>2, NoNewlinesJoined
    <3> QED BY <3>1, <3>2, <3>3 DEF u
  <2> QED BY <2>1, <2>2
<1>4. NoNewlines(b) = u \o v
  <2> HIDE DEF one, rest
  <2>1. NoNewlines(one \o rest) = NoNewlines(one) \o NoNewlines(rest)
    BY <1>1, <1>2, NoNewlinesJoined
  <2> QED BY <1>1, <2>1
<1> DEFINE vw == v \o w
<1>5. Joined(l, u, vw) /\ Joined(u, v, w)
  <2>1. vw \in Seq(Char)
    BY <1>2, JoinAgain
  <2> HIDE DEF u, v, w, vw
  <2> QED BY <1>2, <2>1, JoinedAlike, Zenon
<1>6. Kept3(more, rest, i) = more \o vw /\ Kept3(l, b, i) = l \o ((u \o v) \o w)
  BY <1>3, <1>4 DEF Kept3
<1> HIDE DEF u, v, w, more, rest
<1>7. more \o vw = l \o ((u \o v) \o w)
  BY <1>3, <1>5 DEF Joined
<1> QED BY <1>3, <1>6, <1>7 DEF more, rest

\* A line that is taken goes to the command it becomes.
LEMMA CommandKeeps ==
    ASSUME NEW p \in Seq(Char), NEW l \in Seq(Char), NEW i \in Seq(Char), NoNewlines(l) = l
    PROVE  p \o Kept3(l, <<>>, i) = (p \o l) \o Kept3(<<>>, <<>>, i)
<1> DEFINE e == <<>>
           w == NoNewlines(i)
<1>1. e \in Seq(Char) /\ w \in Seq(Char) /\ NoNewlines(e) = e
  BY NoNewlinesOne
<1>2. Kept3(l, e, i) = l \o (e \o w) /\ Kept3(e, e, i) = e \o (e \o w)
  BY <1>1 DEF Kept3
<1>3. e \o w = w
  <2> HIDE DEF w
  <2> QED BY <1>1
<1> HIDE DEF e, w
<1>4. Joined(p, l, w)
  BY <1>1, JoinedAlike, Zenon
<1>5. p \o Kept3(l, e, i) = (p \o l) \o Kept3(e, e, i)
  BY <1>2, <1>3, <1>4 DEF Joined
<1> QED BY <1>5 DEF e

\* Whatever the shell of a terminal does keeps what arrives there.
LEMMA ShellArrives ==
    ASSUME ConsoleTypeOK, NEW t \in TtyId, Arrival(t),
           FlushIn(t) \/ FlushOut(t) \/ ksyscall_io_read(t) \/ Echo(t) \/ Command(t)
    PROVE  Arrival(t)'
<1> DEFINE l == shell[t].line
           b == shell[t].buf
           i == io_input[t]
<1>1. /\ l \in Seq(Char) /\ b \in Seq(Char) /\ i \in Seq(Char)
      /\ typed[t] \in Seq(Char) /\ commands[t] \in Seq(Char)
  BY ShellFields
<1>2. /\ shell \in [TtyId -> ShellRecord] /\ typed \in [TtyId -> Seq(Char)]
      /\ io_input \in [TtyId -> BoundedSeq(Char, RINGBUF_SIZE)]
      /\ commands \in [TtyId -> Seq(Char)]
  BY DEF ConsoleTypeOK
<1>3. InputTypeOK'
  BY ShellStepType
<1>4. /\ typed[t] = commands[t] \o Kept3(l, b, i) /\ NoNewlines(l) = l
      /\ shell[t].at # "read" => Fresh(shell[t]) /\ commands[t] = <<>>
  BY ArrivesInParts DEF Arrival, OneLine, Starting
<1>5. ASSUME typed'[t] = commands'[t] \o Kept3(shell'[t].line, shell'[t].buf, io_input'[t]),
             NoNewlines(shell'[t].line) = shell'[t].line,
             shell'[t].at # "read" => Fresh(shell'[t]) /\ commands'[t] = <<>>
      PROVE  Arrival(t)'
  BY <1>3, <1>5, ArrivesInPartsNext DEF Arrival, OneLine, Starting
<1>6. CASE FlushIn(t)
  <2>1. shell[t].at # "read"
    BY <1>6 DEF FlushIn
  <2>2. l = <<>> /\ b = <<>> /\ shell[t].reading /\ commands[t] = <<>>
    BY <1>4, <2>1 DEF Fresh
  <2>3. /\ shell'[t] = ShellRec("flush_out", b, l, shell[t].reading)
        /\ io_input'[t] = <<>> /\ typed'[t] = <<>> /\ commands' = commands
    BY <1>2, <1>6, ShellMoves
  <2>4. shell'[t].line = <<>> /\ shell'[t].buf = <<>> /\ shell'[t].reading = shell[t].reading
    <3> DEFINE d   == shell[t].reading
               new == ShellRec("flush_out", b, l, d)
    <3>1. shell'[t] = new
      BY <2>3
    <3> HIDE DEF l, b, d
    <3>2. new.line = l /\ new.buf = b /\ new.reading = d
      BY ShellRecFields
    <3> HIDE DEF new
    <3>3. shell'[t].line = l /\ shell'[t].buf = b /\ shell'[t].reading = d
      BY <3>1, <3>2
    <3> QED BY <2>2, <3>3 DEF d
  <2>5. Kept3(<<>>, <<>>, <<>>) = <<>> /\ NoNewlines(<<>>) = <<>>
    BY NoNewlinesOne DEF Kept3
  <2>6. Fresh(shell'[t]) /\ commands'[t] = <<>>
    BY <2>2, <2>3, <2>4 DEF Fresh
  <2>7. typed'[t] = commands'[t] \o Kept3(shell'[t].line, shell'[t].buf, io_input'[t])
    BY <2>3, <2>4, <2>5, <2>6
  <2>8. NoNewlines(shell'[t].line) = shell'[t].line
    BY <2>4, <2>5
  <2> QED BY <1>5, <2>6, <2>7, <2>8
<1>7. CASE FlushOut(t)
  <2>1. /\ shell'[t] = ShellRec("read", b, l, shell[t].reading)
        /\ io_input' = io_input /\ typed' = typed /\ commands' = commands
    BY <1>2, <1>7, ShellMoves
  <2>2. shell'[t].line = l /\ shell'[t].buf = b /\ shell'[t].at = "read"
    BY <2>1, ShellRecFields
  <2> QED BY <1>4, <1>5, <2>1, <2>2
<1>8. CASE ksyscall_io_read(t)
  <2>1. PICK n \in 1 .. Len(i) :
            /\ shell' = [shell EXCEPT ![t] = ShellRec(shell[t].at, SubSeq(i, 1, n), l,
                                                      shell[t].reading)]
            /\ io_input' = [io_input EXCEPT ![t] = SubSeq(@, n + 1, Len(@))]
            /\ UNCHANGED <<typed, commands, vars>>
    BY <1>8, ShellMoves
  <2> DEFINE first == SubSeq(i, 1, n)
             rest  == SubSeq(i, n + 1, Len(i))
  <2>2. b = <<>> /\ shell[t].at = "read"
    BY <1>8 DEF ksyscall_io_read, Reading
  <2>3. /\ shell'[t] = ShellRec(shell[t].at, first, l, shell[t].reading)
        /\ io_input'[t] = rest /\ typed' = typed /\ commands' = commands
    BY <1>2, <2>1
  <2>4. first \o rest = i /\ first \in Seq(Char) /\ rest \in Seq(Char)
    <3> HIDE DEF i
    <3> QED BY <1>1, CutInput
  <2> HIDE DEF first, rest, l, b, i
  <2>5. shell'[t].line = l /\ shell'[t].buf = first /\ shell'[t].at = "read"
    BY <2>2, <2>3, ShellRecFields
  <2>6. Kept3(l, first, rest) = Kept3(l, b, i)
    <3>1. NoNewlines(i) = NoNewlines(first) \o NoNewlines(rest)
      BY <2>4, NoNewlinesJoined
    <3>2. NoNewlines(b) = <<>> /\ NoNewlines(i) \in Seq(Char)
      BY <1>1, <2>2, NoNewlinesOne
    <3>3. NoNewlines(b) \o NoNewlines(i) = NoNewlines(i)
      BY <3>2
    <3> QED BY <3>1, <3>3 DEF Kept3
  <2> QED BY <1>4, <1>5, <2>3, <2>5, <2>6
<1>9. CASE Echo(t)
  <2>1. /\ b # <<>> /\ io_input' = io_input /\ typed' = typed /\ commands' = commands
        /\ shell'[t] = ShellRec(shell[t].at, Tail(b), Keep(l, Head(b)),
                                shell[t].reading /\ Head(b) # "nl")
    BY <1>2, <1>9, ShellMoves
  <2>2. shell[t].at = "read"
    BY <1>4, <2>1 DEF Fresh
  <2>3. /\ shell'[t].line = Keep(l, Head(b)) /\ shell'[t].buf = Tail(b)
        /\ shell'[t].at = "read"
    BY <2>1, <2>2, ShellRecFields
  <2> HIDE DEF l, b, i
  <2>4. Kept3(Keep(l, Head(b)), Tail(b), i) = Kept3(l, b, i)
        /\ NoNewlines(Keep(l, Head(b))) = Keep(l, Head(b))
    BY <1>1, <1>4, <2>1, EchoKeeps
  <2>5. io_input'[t] = i
    BY <2>1 DEF i
  <2> QED BY <1>4, <1>5, <2>1, <2>3, <2>4, <2>5
<1>10. CASE Command(t)
  <2> DEFINE new == ShellRec(shell[t].at, b, <<>>, TRUE)
  <2>0. new.line = <<>> /\ new.buf = b /\ new.at = shell[t].at
    <3> DEFINE a    == shell[t].at
               none == <<>>
               yes  == TRUE
               r    == ShellRec(a, b, none, yes)
    <3>1. r = new
      OBVIOUS
    <3> HIDE DEF a, b, none, yes
    <3>2. r.line = none /\ r.buf = b /\ r.at = a
      BY ShellRecFields
    <3> HIDE DEF r, new
    <3> QED BY <3>1, <3>2 DEF a, none
  <2>1. /\ shell'[t] = new /\ commands'[t] = commands[t] \o l
        /\ io_input' = io_input /\ typed' = typed
    <3>1. /\ shell' = [shell EXCEPT ![t] = new]
          /\ commands' = [commands EXCEPT ![t] = @ \o l] /\ UNCHANGED <<io_input, typed>>
      BY <1>10, ShellMoves
    <3> HIDE DEF new
    <3> QED BY <1>2, <3>1
  <2> HIDE DEF new
  <2>2. b = <<>> /\ ~shell[t].reading
    BY <1>10 DEF Command
  <2>3. shell[t].at = "read"
    BY <1>4, <2>2 DEF Fresh
  <2>4. shell'[t].line = <<>> /\ shell'[t].buf = <<>> /\ shell'[t].at = "read"
    BY <2>0, <2>1, <2>2, <2>3
  <2> HIDE DEF l, b, i
  <2>5. commands[t] \o Kept3(l, <<>>, i) = (commands[t] \o l) \o Kept3(<<>>, <<>>, i)
    BY <1>1, <1>4, CommandKeeps
  <2>6. io_input'[t] = i /\ NoNewlines(<<>>) = <<>>
    BY <2>1, NoNewlinesOne DEF i
  <2> QED BY <1>4, <1>5, <2>1, <2>2, <2>4, <2>5, <2>6
<1> QED BY <1>6, <1>7, <1>8, <1>9, <1>10

\* The steps of a shell concern its own terminal.
LEMMA OtherArrives ==
    ASSUME ConsoleTypeOK, NEW t \in TtyId, NEW u \in TtyId, u # t, Arrival(u),
           FlushIn(t) \/ FlushOut(t) \/ ksyscall_io_read(t) \/ Echo(t) \/ Command(t)
    PROVE  Arrival(u)'
<1>1. /\ shell \in [TtyId -> ShellRecord] /\ typed \in [TtyId -> Seq(Char)]
      /\ io_input \in [TtyId -> BoundedSeq(Char, RINGBUF_SIZE)]
      /\ commands \in [TtyId -> Seq(Char)]
  BY DEF ConsoleTypeOK
<1>2. /\ shell'[u] = shell[u] /\ typed'[u] = typed[u] /\ io_input'[u] = io_input[u]
      /\ commands'[u] = commands[u]
  <2>1. CASE FlushIn(t)
    BY <1>1, <2>1 DEF FlushIn
  <2>2. CASE FlushOut(t)
    BY <1>1, <2>2 DEF FlushOut
  <2>3. CASE ksyscall_io_read(t)
    BY <1>1, <2>3 DEF ksyscall_io_read
  <2>4. CASE Echo(t)
    BY <1>1, <2>4 DEF Echo
  <2>5. CASE Command(t)
    BY <1>1, <2>5 DEF Command
  <2> QED BY <2>1, <2>2, <2>3, <2>4, <2>5
<1> QED BY <1>2 DEF Arrival, Starting, OneLine, Arrives, OnTheWay

\* The invariant of the input.
LEMMA InputNextInv ==
    ConsoleTypeOK /\ InputInv /\ [ConsoleNext]_allVars => InputInv'
<1> SUFFICES ASSUME ConsoleTypeOK, InputInv, [ConsoleNext]_allVars PROVE InputInv'
  OBVIOUS
<1>1. CASE UNCHANGED consoleVars
  BY <1>1 DEF consoleVars, inputVars, InputInv, Bits, Apart, Down, Arrival, Starting, OneLine,
              Arrives, OnTheWay
<1>2. CASE KeyStep /\ ~exited /\ ~lossy
  BY <1>2, KeyStepInput
<1>3. CASE ShellStep /\ ~lossy
  <2>1. PICK t \in Readers :
            FlushIn(t) \/ FlushOut(t) \/ ksyscall_io_read(t) \/ Echo(t) \/ Command(t)
    BY <1>3 DEF ShellStep
  <2>2. t \in TtyId
    BY ConsoleAssumption
  <2>3. Bits /\ Apart /\ \A u \in TtyId : Arrival(u)
    BY <1>3 DEF InputInv
  <2>4. \A u \in TtyId : Arrival(u)'
    BY <2>1, <2>2, <2>3, ShellArrives, OtherArrives
  <2>5. Bits' /\ Apart'
    BY <1>3, <2>3 DEF ShellStep, Bits, Apart, Down
  <2> QED BY <2>4, <2>5 DEF InputInv
<1> QED BY <1>1, <1>2, <1>3 DEF ConsoleNext, allVars

\* Nothing has been typed at the start.
LEMMA InputInitInv == ConsoleInit => InputInv
<1> SUFFICES ASSUME ConsoleInit PROVE InputInv
  OBVIOUS
<1>1. Bits /\ Apart
  BY DEF ConsoleInit, Bits, Apart, Down
<1>2. ASSUME NEW t \in TtyId PROVE Arrival(t)
  <2>1. /\ shell[t].buf = <<>> /\ shell[t].line = <<>> /\ shell[t].reading
        /\ io_input[t] = <<>> /\ typed[t] = <<>> /\ commands[t] = <<>>
    BY DEF ConsoleInit
  <2>2. OnTheWay(t) = <<>>
    BY <2>1 DEF OnTheWay
  <2> QED BY <2>1, <2>2, NoNewlinesOne DEF Arrival, Starting, Fresh, OneLine, Arrives
<1> QED BY <1>1, <1>2 DEF InputInv

\* Every character meant by the keys arrives, in order, at the terminal that
\* was selected, and nothing else does, for all keys and any number of
\* terminals: unless two keys of one modifier are down, a lock key repeats, or
\* the buffer is full.
THEOREM TypedArrivesAlways == ConsoleSpec => []TypedArrives
<1> DEFINE Inv == ConsoleTypeOK /\ InputInv
<1>1. ConsoleInit => Inv
  BY ConsoleInitInv, InputInitInv DEF ConsoleInv
<1>2. Inv /\ [ConsoleNext]_allVars => InputInv'
  BY InputNextInv
<1>3. Inv => TypedArrives
  BY DEF InputInv, TypedArrives, Arrival, Arrives
<1> QED BY <1>1, <1>2, <1>3, ConsoleTypeCorrect, PTL DEF ConsoleSpec
=============================================================================
