-------------------------------- MODULE Tty --------------------------------
(***************************************************************************)
(* The output side of the virtual terminals of src/tty.c, with the I/O     *)
(* system calls of src/ksyscall.c that programs write by, and the screen   *)
(* they are painted on, which the callbacks of test.h draw on as well.     *)
(* The ring buffers are the streams that RingBuf implements.  echo,        *)
(* pos_scroll and the colours of a terminal never change after tty_init,   *)
(* and TTY_SCROLLBACK is 0.                                                *)
(***************************************************************************)
EXTENDS Vga, FiniteSetsExt

CONSTANTS TTY_MAX,        \* number of terminals
          RINGBUF_SIZE,   \* capacity of an I/O buffer
          CLOCK_COLUMN,   \* where test_timer writes, 73 in the program
          Char,           \* "nl", "cr", "tab", "bs" and printable characters
          OutputChoices,  \* sets of characters that programs may write
          MaxWrite,       \* bound: longest write
          MaxText,        \* bound: characters the programs write
          MaxDrawn        \* bound: characters written before the last drawing

ASSUME TtyAssumption ==
    /\ {TTY_MAX, RINGBUF_SIZE} \subseteq Nat \ {0}
    /\ CLOCK_COLUMN \in 0 .. VGA_WIDTH - 1
    /\ OutputChoices \subseteq SUBSET Char
    /\ Zero \notin Char
    /\ {MaxWrite, MaxText, MaxDrawn} \subseteq Nat

VARIABLES
    active_tty,   \* the terminal on the screen
    cells,        \* per terminal: buf, the characters of the screen
    pos_x, pos_y, \* per terminal: where the next character goes
    refresh,      \* per terminal: 1 when it has to be painted
    io_output,    \* per terminal: characters written and not shown
    screen,       \* the VGA memory
    output,       \* the characters the programs write, chosen once
    overrun,      \* a character has been stored outside of buf
    text          \* history, per terminal: the characters tty_update got

terminal == <<cells, pos_x, pos_y, refresh, overrun, text>>
vars     == <<active_tty, terminal, io_output, screen, output>>

TTY_WIDTH  == VGA_WIDTH
TTY_HEIGHT == VGA_HEIGHT
TtyId == 0 .. TTY_MAX - 1
Cell  == 0 .. TTY_WIDTH * TTY_HEIGHT - 1
Special == {"nl", "cr", "tab", "bs"}
Glyph == (Char \ Special) \cup {Space, Zero}

TtyTypeOK ==
    /\ active_tty \in TtyId
    /\ cells \in [TtyId -> [Cell -> Glyph]]
    /\ pos_x \in [TtyId -> Nat]
    /\ pos_y \in [TtyId -> 0 .. TTY_HEIGHT - 1]
    /\ refresh \in [TtyId -> {0, 1}]
    /\ io_output \in [TtyId -> BoundedSeq(Char, RINGBUF_SIZE)]
    /\ screen \in [ScreenCell -> Glyph \cup {"spin", "clock", "list"}]
    /\ output \in OutputChoices
    /\ overrun \in BOOLEAN
-----------------------------------------------------------------------------
\* tty_init, with tty_select(0), and the vga_clear of main
Init ==
    /\ active_tty = 0
    /\ cells = [t \in TtyId |-> [i \in Cell |-> Zero]]
    /\ pos_x = [t \in TtyId |-> 0]
    /\ pos_y = [t \in TtyId |-> 0]
    /\ refresh = [t \in TtyId |-> IF t = 0 THEN 1 ELSE 0]
    /\ io_output = [t \in TtyId |-> <<>>]
    /\ screen = vga_clear
    /\ output \in OutputChoices
    /\ overrun = FALSE
    /\ text = [t \in TtyId |-> <<>>]

\* tty_select, on Alt and a digit
tty_select(n) ==
    /\ active_tty' = n
    /\ refresh' = [refresh EXCEPT ![n] = 1]
    /\ UNCHANGED <<cells, pos_x, pos_y, overrun, text, io_output, screen, output>>

\* The characters that have been written and not flushed.
Written == MapThenSumSet(LAMBDA t : Len(text[t]) + Len(io_output[t]), TtyId)

\* ksyscall_io_write: all of s or nothing
ksyscall_io_write(t, s) ==
    /\ Written + Len(s) <= MaxText
    /\ Len(io_output[t]) + Len(s) <= RINGBUF_SIZE
    /\ io_output' = [io_output EXCEPT ![t] = @ \o s]
    /\ UNCHANGED <<active_tty, terminal, screen, output>>

\* ksyscall_io_flush of the output
ksyscall_io_flush(t) ==
    /\ io_output' = [io_output EXCEPT ![t] = <<>>]
    /\ UNCHANGED <<active_tty, terminal, screen, output>>
-----------------------------------------------------------------------------
\* The cursor and the cell that character c changes; r is a terminal.  Neither
\* a tab nor a character wraps at the end of a line.
Put(r, c) ==
    LET at == r.x + r.y * TTY_WIDTH
    IN  CASE c = "tab" -> [r EXCEPT !.x = @ + 4 - (@ % 4)]
          [] c = "bs"  -> IF r.x # 0 THEN [r EXCEPT !.x = @ - 1]
                          ELSE IF r.y # 0 THEN [r EXCEPT !.y = @ - 1, !.x = TTY_WIDTH - 1]
                          ELSE r
          [] c = "cr"  -> [r EXCEPT !.x = 0]
          [] c = "nl"  -> [r EXCEPT !.y = @ + 1, !.x = 0]
          [] c \notin Special ->
                IF at \in Cell THEN [r EXCEPT !.buf[at] = c, !.x = @ + 1]
                ELSE [r EXCEPT !.overrun = TRUE, !.x = @ + 1]

\* Mutants: the last row is not cleared; the cursor stays below the screen.
ScrollKeepsLastRow(r) ==
    IF r.y < TTY_HEIGHT THEN r
    ELSE [r EXCEPT !.y = TTY_HEIGHT - 1,
                   !.buf = [i \in Cell |-> IF i + TTY_WIDTH \in Cell THEN r.buf[i + TTY_WIDTH]
                                           ELSE r.buf[i]]]
ScrollKeepsCursor(r) ==
    IF r.y < TTY_HEIGHT THEN r
    ELSE [r EXCEPT !.buf = [i \in Cell |-> IF i + TTY_WIDTH \in Cell THEN r.buf[i + TTY_WIDTH]
                                           ELSE Space]]

\* Past the last row everything moves up by one row.
Scroll(r) ==
    IF r.y < TTY_HEIGHT THEN r
    ELSE [r EXCEPT !.y = TTY_HEIGHT - 1,
                   !.buf = [i \in Cell |-> IF i + TTY_WIDTH \in Cell THEN r.buf[i + TTY_WIDTH]
                                           ELSE Space]]

tty_update(r, c) == [Scroll(Put(r, c)) EXCEPT !.refresh = 1]

\* Every cell of the screen, in order.
PaintCell(mem, cell) ==
    vga_putc_at(mem, cell.at % VGA_WIDTH, cell.at \div VGA_WIDTH, cell.char)

Paint(buf) == FoldLeft(PaintCell, screen,
                       [k \in 1 .. TTY_WIDTH * TTY_HEIGHT |-> [at |-> k - 1, char |-> buf[k - 1]]])

\* tty_refresh, the callback of every second tick: the output of the active
\* terminal is drained, and the screen painted if there is something new.
tty_refresh ==
    LET t == active_tty
        r == FoldLeft(tty_update,
                      [buf |-> cells[t], x |-> pos_x[t], y |-> pos_y[t],
                       refresh |-> refresh[t], overrun |-> overrun],
                      io_output[t])
    IN  /\ io_output' = [io_output EXCEPT ![t] = <<>>]
        /\ cells' = [cells EXCEPT ![t] = r.buf]
        /\ pos_x' = [pos_x EXCEPT ![t] = r.x]
        /\ pos_y' = [pos_y EXCEPT ![t] = r.y]
        /\ refresh' = [refresh EXCEPT ![t] = 0]
        /\ screen' = IF r.refresh = 1 THEN Paint(r.buf) ELSE screen
        /\ overrun' = r.overrun
        /\ text' = [text EXCEPT ![t] = @ \o io_output[t]]
        /\ UNCHANGED <<active_tty, output>>

-----------------------------------------------------------------------------
Draw(mem) == /\ Written <= MaxDrawn
             /\ screen' = mem
             /\ UNCHANGED <<active_tty, terminal, io_output, output>>

\* test_spinner and test_timer, of which one character each is modelled.
test_spinner == Draw(vga_putc_at(screen, VGA_WIDTH - 1, 0, "spin"))
test_timer   == Draw(vga_puts_at(screen, CLOCK_COLUMN, 0, <<"clock">>))

Line(c) == [k \in 1 .. VGA_WIDTH - 1 |-> c]

\* The rows below the first, cleared once a second.
Cleared(mem) == [i \in ScreenCell |-> IF i < VGA_WIDTH THEN mem[i] ELSE Space]

\* A row for each used entry of the process table; for a free one the next row
\* is blanked.
ListEntry(v, used) ==
    [mem |-> vga_puts_at(v.mem, 0, v.row, Line(IF used THEN "list" ELSE Space)),
     row |-> IF used THEN v.row + 1 ELSE v.row]

Listed(mem, table) ==
    FoldLeft(ListEntry, [mem |-> vga_puts_at(mem, 0, 0, Line("list")), row |-> 1], table).mem

\* Mutant: the list is drawn over whatever terminal is active.
ListAnywhere == \E table \in [1 .. VGA_HEIGHT - 1 -> BOOLEAN] : Draw(Listed(screen, table))

\* test_proc_list, on the first terminal only; the table fits on the screen.
test_proc_list ==
    /\ active_tty = 0
    /\ \E second \in BOOLEAN, table \in [1 .. VGA_HEIGHT - 1 -> BOOLEAN] :
          Draw(Listed(IF second THEN Cleared(screen) ELSE screen, table))

Callback == tty_refresh \/ test_spinner \/ test_timer \/ test_proc_list

\* What follows an overrun is not modelled.
Next ==
    /\ ~overrun
    /\ \/ \E n \in TtyId : tty_select(n)
       \/ \E t \in TtyId, s \in BoundedSeq(output, MaxWrite) : ksyscall_io_write(t, s)
       \/ \E t \in TtyId : ksyscall_io_flush(t)
       \/ Callback

Spec == Init /\ [][Next]_vars
-----------------------------------------------------------------------------
\* The cells that the callbacks of test.h may have drawn on: the process list
\* leaves the last column alone, except for what it cleared.
Overlay(i) ==
    \/ i = VGA_WIDTH - 1 /\ screen[i] = "spin"
    \/ i = CLOCK_COLUMN /\ screen[i] = "clock"
    \/ active_tty = 0 /\ \/ screen[i] \in {"list", Space} /\ i % VGA_WIDTH # VGA_WIDTH - 1
                         \/ screen[i] = Space /\ i >= VGA_WIDTH

(* When nothing waits to be painted the screen shows the active terminal,   *)
(* whichever terminals were selected and written to meanwhile, with at most *)
(* the clock and the spinner in their corner and, on the first terminal,    *)
(* the process list over it: nothing of another terminal, and no list that  *)
(* was drawn before the terminal was selected.                              *)
ScreenInSync ==
    ~overrun /\ refresh[active_tty] = 0 =>
        \A i \in ScreenCell : screen[i] = cells[active_tty][i] \/ Overlay(i)

\* The lines of a text of printable characters and newlines, each at most as
\* long as a row; and the rows of the terminal that hold the last of them.
Plain(s) ==
    /\ \A k \in 1 .. Len(s) : s[k] \notin Special \ {"nl"}
    /\ \A j, k \in 1 .. Len(s) :
          j <= k /\ (\A i \in j .. k : s[i] # "nl") => k - j < TTY_WIDTH

NewlinesBefore(s, k) == Cardinality({j \in 1 .. k - 1 : s[j] = "nl"})

Column(s, k) == LET ends == {j \in 1 .. k - 1 : s[j] = "nl"}
                IN  IF ends = {} THEN k - 1
                    ELSE k - 1 - (CHOOSE j \in ends : \A i \in ends : i <= j)

\* The character of s that stands in row y and column x when the last rows of
\* the text are shown, a blank if none does.
Shown(s, x, y) ==
    LET top  == LET n == NewlinesBefore(s, Len(s) + 1)
                IN  IF n < TTY_HEIGHT THEN 0 ELSE n - TTY_HEIGHT + 1
        here == {k \in 1 .. Len(s) : /\ s[k] # "nl"
                                     /\ NewlinesBefore(s, k) = top + y
                                     /\ Column(s, k) = x}
    IN  IF here = {} THEN Space ELSE s[CHOOSE k \in here : TRUE]

(* A terminal shows the last TTY_HEIGHT lines of what was written to it, in *)
(* order, however the writes were cut up, drained and scrolled.             *)
ShowsText ==
    \A t \in TtyId : Plain(text[t]) =>
        \A x \in 0 .. TTY_WIDTH - 1, y \in 0 .. TTY_HEIGHT - 1 :
            LET shown == cells[t][x + y * TTY_WIDTH]
            IN  Shown(text[t], x, y) = IF shown = Zero THEN Space ELSE shown

(* tty.h: "current x position in the screen": the cursor of a terminal      *)
(* stands in a column of the screen, or just past the last one when the row *)
(* is full, so that a row never runs into the next.                         *)
CursorOnScreen == \A t \in TtyId : pos_x[t] \in 0 .. TTY_WIDTH
=============================================================================
