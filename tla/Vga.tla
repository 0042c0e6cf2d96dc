-------------------------------- MODULE Vga --------------------------------
(***************************************************************************)
(* The text screen as src/vga.c writes it: operators from a screen, and    *)
(* the position where the next character goes, to the screen after a call. *)
(* Colours and the hardware cursor are left out: nothing depends on them.  *)
(* vga_scroll is 0 from the start, and strings hold printable characters.  *)
(***************************************************************************)
EXTENDS Integers, Sequences, SequencesExt

CONSTANTS VGA_WIDTH,    \* columns
          VGA_HEIGHT    \* rows

ASSUME VgaAssumption == {VGA_WIDTH, VGA_HEIGHT} \subseteq Nat \ {0}

Space == "space"
Zero  == "zero"         \* the character 0
ScreenCell == 0 .. VGA_WIDTH * VGA_HEIGHT - 1

Clamp(v, size) == IF v < 0 THEN 0 ELSE IF v >= size THEN size - 1 ELSE v

\* A screen with its position; vga_set_xy.
At(mem, x, y) == [mem |-> mem, x |-> Clamp(x, VGA_WIDTH), y |-> Clamp(y, VGA_HEIGHT)]

vga_clear == [i \in ScreenCell |-> Zero]

\* vga_putc of a printable character: the position wraps at the end of a line
\* and, as nothing scrolls, leaves the screen after the last.
vga_putc(v, c) ==
    LET wraps == v.x + 1 >= VGA_WIDTH
    IN  [mem |-> [v.mem EXCEPT ![v.x + v.y * VGA_WIDTH] = c],
         x   |-> IF wraps THEN 0 ELSE v.x + 1,
         y   |-> IF wraps THEN v.y + 1 ELSE v.y]

\* vga_puts, after vga_set_xy, and vga_puts_at: the position is set before or
\* restored after, so that only the screen remains.
vga_puts_at(mem, x, y, s) == FoldLeft(vga_putc, At(mem, x, y), s).mem

vga_putc_at(mem, x, y, c) == vga_putc(At(mem, x, y), c).mem
=============================================================================
