------------------------------ MODULE Console ------------------------------
(***************************************************************************)
(* The way of a typed line: the scan codes of src/keyboard.c, the input    *)
(* side of the terminals (tty_input, ksyscall_io_read) and the shells of   *)
(* src/prog_user.c that read and echo it, over the output side in Tty.     *)
(*                                                                         *)
(* A key that is held down repeats its make code.  Keys with the prefix    *)
(* 0xE0 send it as a byte of its own, which keyboard_decode takes for the  *)
(* release of key 0x60; right Ctrl and Alt are the only ones modelled.     *)
(* The log level (Ctrl and + or -) and breakpoint (Ctrl-B) are left out,   *)
(* Ctrl-N and Ctrl-Q are in Scheduler, the shells' mutex is in Shell: here *)
(* each shell runs on.                                                     *)
(***************************************************************************)
EXTENDS Tty

CONSTANTS KeyChoices,   \* sets of keys that are used
          Readers,      \* the terminals that a shell is attached to
          BUF_SIZE,     \* what a shell reads at a time
          MaxHeld,      \* bound: keys held at once
          MaxTyped      \* bound: characters typed

ASSUME ConsoleAssumption ==
    /\ Readers \subseteq TtyId
    /\ BUF_SIZE \in Nat \ {0}
    /\ {MaxHeld, MaxTyped} \subseteq Nat

VARIABLES
    keys,         \* the keys that are used, chosen once
    held,         \* the keys that are down
    locks,        \* history: the locks that are meant to be on
    kbd_status,   \* the modifiers that are on
    esc_status,   \* Escapes since the last character
    exited,       \* kernel_exit has been called
    io_input,     \* per terminal: characters typed and not read
    shell,        \* per terminal: its shell
    typed,        \* history, per terminal: what was meant by the keys pressed
    commands,     \* history, per terminal: the lines taken as commands, joined
    lossy         \* history: two keys of one modifier were held at once, a lock
                  \* key repeated, or a character was typed into a full buffer

escVars     == <<esc_status, exited>>
inputVars   == <<io_input, shell, commands>>
consoleVars == <<keys, held, locks, kbd_status, escVars, inputVars, typed, lossy>>
allVars     == <<vars, consoleVars>>
-----------------------------------------------------------------------------
KEY_NULL    == Zero
KEY_ESCAPE  == "esc"
KEY_CTRL_L  == 29
KEY_CTRL_R  == 57373
KEY_ALT_L   == 56
KEY_ALT_R   == 57400
KEY_SHIFT_L == 42
KEY_SHIFT_R == 54
KEY_CAPS    == 58
KEY_NUMLOCK == 69

\* The characters of the scan codes from 1 on; those after the last have none.
keyboard_map_primary ==
    <<KEY_ESCAPE, "1", "2", "3", "4", "5", "6", "7", "8", "9", "0", "-", "=", "bs", "tab",
      "q", "w", "e", "r", "t", "y", "u", "i", "o", "p", "[", "]", "nl", KEY_NULL,
      "a", "s", "d", "f", "g", "h", "j", "k", "l", ";", "'", "backquote", KEY_NULL,
      "backslash", "z", "x", "c", "v", "b", "n", "m", ",", ".", "/", KEY_NULL, KEY_NULL, KEY_NULL,
      Space, KEY_NULL, "F1", "F2", "F3", "F4", "F5", "F6", "F7", "F8", "F9", "F10",
      KEY_NULL, KEY_NULL, "7", "up", "9", "-", "left", "5", "right", "+", "1", "down", "3",
      "insert", "delete", KEY_NULL, KEY_NULL, KEY_NULL, "F11", "F12">>

keyboard_map_secondary ==
    <<KEY_ESCAPE, "!", "@", "#", "$", "%", "^", "&", "*", "(", ")", "_", "+", "bs", "tab",
      "Q", "W", "E", "R", "T", "Y", "U", "I", "O", "P", "{", "}", "nl", KEY_NULL,
      "A", "S", "D", "F", "G", "H", "J", "K", "L", ":", "quote", "~", KEY_NULL,
      "|", "Z", "X", "C", "V", "B", "N", "M", "<", ">", "?", KEY_NULL, KEY_NULL, KEY_NULL,
      Space, KEY_NULL, "F1", "F2", "F3", "F4", "F5", "F6", "F7", "F8", "F9", "F10",
      KEY_NULL, KEY_NULL, "home", "up", "pgup", "-", "left", KEY_NULL, "right", "+", "end",
      "down", "pgdn", "insert", "delete", KEY_NULL, KEY_NULL, KEY_NULL, "F11", "F12">>

\* The bit of kbd_status that a key stands for.  The two keys of a modifier
\* send the same code but for the prefix, or share a case, and share the bit.
Bit(k) == CASE k \in {KEY_CTRL_L, KEY_CTRL_R} -> "ctrl"
            [] k \in {KEY_ALT_L, KEY_ALT_R} -> "alt"
            [] k \in {KEY_SHIFT_L, KEY_SHIFT_R} -> "shift"
            [] k = KEY_CAPS -> "caps"
            [] k = KEY_NUMLOCK -> "numlock"
            [] OTHER -> "none"
Momentary == {"ctrl", "alt", "shift"}
Toggled   == {"caps", "numlock"}

\* The character of a key under the given modifiers.
Character(k, status) ==
    LET secondary == IF k \in 71 .. 83 THEN "numlock" \in status
                     ELSE ("shift" \in status) # ("caps" \in status)
    IN  IF k > Len(keyboard_map_primary) THEN KEY_NULL
        ELSE IF secondary THEN keyboard_map_secondary[k] ELSE keyboard_map_primary[k]

\* Char holds what the keys can type.
ASSUME KeyAssumption ==
    \A ks \in KeyChoices : \A k \in ks :
        /\ k \in Nat \ {0}
        /\ \A status \in SUBSET (Momentary \cup Toggled) :
              Character(k, status) \in Char \cup {KEY_NULL, KEY_ESCAPE}

Digits == <<"0", "1", "2", "3", "4", "5", "6", "7", "8", "9">>

\* What Ctrl makes commands of: the log level, create, destroy, breakpoint.
Commands == {"+", "=", "-", "_", "n", "N", "q", "Q", "b", "B"}

Selects(c, status)   == "alt" \in status /\ c \in ToSet(Digits)
IsCommand(c, status) == "ctrl" \in status /\ c \in Commands

\* The key is a character for the terminal.
IsInput(c, status) == /\ c \notin {KEY_NULL, KEY_ESCAPE}
                      /\ ~Selects(c, status)
                      /\ ~IsCommand(c, status)

ShellRecord == [at : {"none", "flush_in", "flush_out", "read"},
                buf : Seq(Char),      \* read and not echoed
                line : Seq(Char),     \* input
                reading : BOOLEAN]

ConsoleTypeOK ==
    /\ TtyTypeOK
    /\ keys \in KeyChoices
    /\ held \subseteq keys
    /\ locks \subseteq Toggled
    /\ kbd_status \subseteq Momentary \cup Toggled
    /\ esc_status \in 0 .. 3
    /\ exited = (esc_status = 3)
    /\ io_input \in [TtyId -> BoundedSeq(Char, RINGBUF_SIZE)]
    /\ shell \in [TtyId -> ShellRecord]
    /\ typed \in [TtyId -> Seq(Char)]
    /\ commands \in [TtyId -> Seq(Char)]
    /\ lossy \in BOOLEAN
-----------------------------------------------------------------------------
\* Either programs write or keys are pressed.
ConsoleInit ==
    /\ Init
    /\ keys \in KeyChoices
    /\ keys = {} \/ output = {}
    /\ held = {}
    /\ locks = {}
    /\ kbd_status = {}
    /\ esc_status = 0
    /\ exited = FALSE
    /\ io_input = [t \in TtyId |-> <<>>]
    /\ shell = [t \in TtyId |-> [at |-> IF t \in Readers THEN "flush_in" ELSE "none",
                                 buf |-> <<>>, line |-> <<>>, reading |-> TRUE]]
    /\ typed = [t \in TtyId |-> <<>>]
    /\ commands = [t \in TtyId |-> <<>>]
    /\ lossy = FALSE

\* The character of key k is seen under the modifiers kbd_status; under those
\* that are down, and the locks that the presses left on, it would be Meant(k).
Seen(k) == Character(k, kbd_status)
Down    == {Bit(h) : h \in held} \cap Momentary
Meant(k) == Character(k, Down \cup locks)

\* A modifier, Caps Lock or Num Lock.
StatusKey(k) ==
    /\ \/ Bit(k) \in Momentary /\ kbd_status' = kbd_status \cup {Bit(k)}
       \/ Bit(k) \in Toggled
          /\ kbd_status' = IF Bit(k) \in kbd_status THEN kbd_status \ {Bit(k)}
                           ELSE kbd_status \cup {Bit(k)}
    /\ UNCHANGED <<escVars, inputVars, vars>>

\* Alt and a digit; the Escapes are not forgotten.
SelectKey(k) ==
    /\ Selects(Seen(k), kbd_status)
    /\ \E n \in TtyId : Digits[n + 1] = Seen(k) /\ tty_select(n)
    /\ UNCHANGED <<kbd_status, escVars, inputVars>>

\* The third Escape is kernel_exit.
EscapeKey(k) ==
    /\ Seen(k) = KEY_ESCAPE
    /\ esc_status' = esc_status + 1
    /\ exited' = (esc_status + 1 = 3)
    /\ UNCHANGED <<kbd_status, inputVars, vars>>

\* A key that does nothing here: it has no character, or is a command.
OtherKey(k) ==
    /\ Bit(k) = "none"
    /\ Seen(k) = KEY_NULL \/ IsCommand(Seen(k), kbd_status)
    /\ ~Selects(Seen(k), kbd_status)
    /\ esc_status' = IF Seen(k) = KEY_NULL THEN esc_status ELSE 0
    /\ UNCHANGED <<kbd_status, exited, inputVars, vars>>

\* tty_input: a full buffer stays as it is; no terminal echoes.
tty_input(c) ==
    io_input' = [io_input EXCEPT ![active_tty] =
                    IF Len(@) = RINGBUF_SIZE THEN @ ELSE Append(@, c)]

InputKey(k) ==
    /\ Bit(k) = "none"
    /\ IsInput(Seen(k), kbd_status)
    /\ esc_status' = 0
    /\ tty_input(Seen(k))
    /\ UNCHANGED <<kbd_status, exited, shell, commands, vars>>

\* The characters that are on their way, the newlines among them, and those
\* that became commands.
OnTheWay(t)  == shell[t].line \o shell[t].buf \o io_input[t]
TypedSoFar   == MapThenSumSet(LAMBDA t : Len(OnTheWay(t)) + Len(commands[t]), TtyId)

\* keyboard_irq_handler for the make code of key k.
MakeCode(k) ==
    /\ TypedSoFar < MaxTyped
    /\ StatusKey(k) \/ SelectKey(k) \/ EscapeKey(k) \/ OtherKey(k) \/ InputKey(k)
    /\ typed' = IF Meant(k) # "nl" /\ IsInput(Meant(k), Down)
                THEN [typed EXCEPT ![active_tty] = Append(@, Meant(k))]
                ELSE typed

\* Mutant: a lock key toggles when it is released as well as when it is pressed.
ReleaseToggles(k) ==
    /\ kbd_status' = IF Bit(k) \in Toggled \ kbd_status THEN kbd_status \cup {Bit(k)}
                     ELSE kbd_status \ {Bit(k)}
    /\ UNCHANGED <<escVars, inputVars, vars>>

\* keyboard_irq_handler for the break code: the bit of a modifier is cleared,
\* even if its other key is still down.
BreakCode(k) ==
    /\ kbd_status' = kbd_status \ ({Bit(k)} \cap Momentary)
    /\ UNCHANGED <<escVars, inputVars, vars>>

\* The buffer has no room for the character.
Dropped(k) == /\ Len(io_input[active_tty]) = RINGBUF_SIZE
              /\ Bit(k) = "none" /\ IsInput(Seen(k), kbd_status)

\* Whoever presses a lock key means to toggle the lock, once.
Press(k) ==
    /\ k \notin held
    /\ Cardinality(held) < MaxHeld
    /\ held' = held \cup {k}
    /\ locks' = IF Bit(k) \notin Toggled THEN locks
                ELSE (locks \cup {Bit(k)}) \ (locks \cap {Bit(k)})
    /\ lossy' = (Bit(k) \in Down \/ Dropped(k))
    /\ MakeCode(k)

\* The keyboard repeats the code of a key that is held; a lock toggles again.
Repeat(k) ==
    /\ k \in held
    /\ MakeCode(k)
    /\ lossy' = (Bit(k) \in Toggled \/ Dropped(k))
    /\ UNCHANGED <<held, locks>>

Release(k) ==
    /\ k \in held
    /\ held' = held \ {k}
    /\ BreakCode(k)
    /\ UNCHANGED <<locks, typed, lossy>>
-----------------------------------------------------------------------------
\* The shell starts with empty buffers: io_flush(PROC_IO_IN) and
\* io_flush(PROC_IO_OUT).  What was typed before is forgotten.
FlushIn(t) ==
    /\ shell[t].at = "flush_in"
    /\ io_input' = [io_input EXCEPT ![t] = <<>>]
    /\ typed' = [typed EXCEPT ![t] = <<>>]
    /\ shell' = [shell EXCEPT ![t].at = "flush_out"]
    /\ UNCHANGED <<commands, vars>>

FlushOut(t) ==
    /\ shell[t].at = "flush_out"
    /\ ksyscall_io_flush(t)
    /\ shell' = [shell EXCEPT ![t].at = "read"]
    /\ UNCHANGED <<io_input, typed, commands>>

Reading(t) == shell[t].at = "read" /\ shell[t].reading /\ shell[t].buf = <<>>

\* ksyscall_io_read of what there is, at most BUF_SIZE characters.
ksyscall_io_read(t) ==
    LET count == IF Len(io_input[t]) < BUF_SIZE THEN Len(io_input[t]) ELSE BUF_SIZE
    IN  /\ Reading(t)
        /\ count > 0
        /\ shell' = [shell EXCEPT ![t].buf = SubSeq(io_input[t], 1, count)]
        /\ io_input' = [io_input EXCEPT ![t] = SubSeq(@, count + 1, Len(@))]
        /\ UNCHANGED <<typed, commands, vars>>

\* One pass of the loop over buf: a newline ends the line, and the rest of buf
\* is added to it all the same.
Take(s) == LET c == Head(s.buf)
           IN  [s EXCEPT !.buf = Tail(@),
                         !.line = IF c = "nl" THEN @ ELSE Append(@, c),
                         !.reading = @ /\ c # "nl"]

\* With io_write of the character, which fails when there is no room.
Echo(t) ==
    /\ shell[t].buf # <<>>
    /\ \/ ksyscall_io_write(t, <<Head(shell[t].buf)>>)
       \/ Len(io_output[t]) = RINGBUF_SIZE /\ UNCHANGED vars
    /\ shell' = [shell EXCEPT ![t] = Take(@)]
    /\ UNCHANGED <<io_input, typed, commands>>

\* The line is a command; what it prints is left out.
Command(t) ==
    /\ ~shell[t].reading /\ shell[t].buf = <<>>
    /\ commands' = [commands EXCEPT ![t] = @ \o shell[t].line]
    /\ shell' = [shell EXCEPT ![t].line = <<>>, ![t].reading = TRUE]
    /\ UNCHANGED <<io_input, typed, vars>>

KeyStep == /\ \E k \in keys : Press(k) \/ Repeat(k) \/ Release(k)
           /\ UNCHANGED keys

ShellStep ==
    /\ \E t \in Readers :
          FlushIn(t) \/ FlushOut(t) \/ ksyscall_io_read(t) \/ Echo(t) \/ Command(t)
    /\ UNCHANGED <<keys, held, locks, kbd_status, escVars, lossy>>

\* While keys are pressed the callbacks of test.h do not draw.  What follows a
\* key that is lost or mistaken is not modelled.
ConsoleNext ==
    /\ ~exited /\ ~lossy
    /\ \/ keys = {} /\ Next /\ UNCHANGED consoleVars
       \/ keys # {} /\ (KeyStep \/ ShellStep)
       \/ keys # {} /\ tty_refresh /\ UNCHANGED consoleVars

ConsoleSpec == ConsoleInit /\ [][ConsoleNext]_allVars
-----------------------------------------------------------------------------
Keep(s, c)    == IF c = "nl" THEN s ELSE Append(s, c)
NoNewlines(s) == FoldLeft(Keep, <<>>, s)

(* Every character that was meant by the keys pressed, in order, is in a    *)
(* command or on its way to one, for the terminal that was selected at the  *)
(* time, and nothing else is.  What a key means follows from the keys that  *)
(* are down and the presses of the lock keys, not from kbd_status: a        *)
(* modifier or a lock that sticks or is missed, or a key that selects,      *)
(* counts as an Escape or gives a command and reaches a shell, breaks it.   *)
(* Except when two keys of one modifier were held at once, which share a    *)
(* bit, a lock key repeated, which toggles again, or a character was typed  *)
(* into a full buffer.  A character is meant when its key goes down, and    *)
(* under Ctrl if it is no command, as in the code: keyboard.c:419 speaks of *)
(* releases, and keyboard.c:45 of a debug command for all characters.       *)
TypedArrives ==
    ~lossy => \A t \in TtyId : typed[t] = commands[t] \o NoNewlines(OnTheWay(t))
=============================================================================
